# Formal specification of CreditTech

CreditTech scores rural borrowers from alternative data, has a loan officer
decide on the score and hands approved applications to a regulated entity (RE).
This directory holds TLA+ models of the parts of it that keep state, and of the
calculations around its scorecards; the TLC configurations that check them on
small instances; and TLAPS proofs of all their safety properties for instances
of any size.

- [Inventory](#inventory)
- [How the code is abstracted](#how-the-code-is-abstracted)
- [The modules](#the-modules)
- [Runs](#runs)
- [Where code and documents disagree](#where-code-and-documents-disagree)
- [Proofs](#proofs)
- [What is not modelled](#what-is-not-modelled)
- [Plan](#plan)

## Inventory

All paths are under `src/`; `core` is `services/core`. The API is one FastAPI
process with one event loop (`core/main.py`) over PostgreSQL, or over a SQLite
file in development. Every request has a database session (`core/database.py`,
`get_db`): commit when the handler returns, rollback when it raises. Training,
seeding, backup and restore scripts are separate processes.

| Component | State | Operations | Hard part | What makes it correct |
|---|---|---|---|---|
| Consent ledger, `core/consent` | `consent_records` (status, hash chain), `consent_audit_log` | create (supersedes), get (expires lazily), list, revoke (cascades to repayments), verify, audit trail, check for a pull | read-then-write sessions without row versions; expiry; rollback | chain hangs from genesis and does not fork; one ACTIVE record per purpose; what has ended stays so; status agrees with the audit log |
| Retention worker, `core/monitoring/service.py` | the same rows, `borrowers` PII | purge | bulk UPDATE with locks; query before commit | anonymises only without consent |
| Officer decisions, `core/decisioning` | `officer_decision_log` (append-only) | review payload, record, latest, list | order of creation is not order of commit; mirror onto an application | the gate of the handoff sees the latest decision |
| Handoff, `core/handoff` | `loan_applications`; the packages the RE holds | submit, callback of the RE | check-then-insert; HTTP call inside the transaction; failed calls taken for success; redelivered callbacks | only approved packages leave; a late submission is idle |
| Model registry, `ml/registry/registry.py` | `registry.json`, artifacts, reports | register, promote, get, get_active, list | read-modify-write of files by several processes; torn writes | one active version; the index never ahead of the artifacts |
| Promotion gate, `core/admin/promotion.py` | none of its own | evaluate, promote_to_active | await between metrics and promotion; failure half-way | an active version passed both checks |
| Fairness auditor and gate, `core/monitoring` | `fairness_audit_log` | run_audit, evaluate | counts from separate statements; repeated and late periods; no row with enough samples | rates are rates; the gate looks at the right rows; a breach is not audited away |
| Ingestion, `core/ingestion` | `data_pulls`, `feature_snapshots` | run_ingestion: consent check, parallel pulls, snapshot | partial failure, timeouts, revocation while pulling | no pull without consent; snapshot and status say what happened; every run ends |
| Scoring, `core/scoring` | `scores`, `reason_codes` | generate_score, shadow scoring | reads latest snapshot and, file by file, the active model | fresh data unless an older snapshot is asked for; an interval that tells few sources from many; the card is the record's; no silent fall-back, no failure without cause |
| Training and retraining, `ml/training`, four scripts | cohort, folds, reports; then the registry | load, cross-validate, fit, register | consent withdrawn meanwhile; splits inside splits; metrics copied between reports | withdrawn outcomes stay out; nothing predicts what it learnt from |
| Evaluation, `ml/features/woe.py`, `ml/evaluation` | none | WoE bins, PSI, KS, recourse | ties, quantiles that coincide, rounding, order of improvements | bins partition; KS is KS; recourse keeps its promise |
| Grievances, `core/grievance` | `grievances`, `grievance_audit_log` | create, update, list, escalate overdue | stale status at update and escalation | row and trail agree; a sweep gets at every overdue grievance |
| Database file, `core/database.py`, `core/main.py`, Alembic, `core/shared/audit_triggers.py`, seeders, `core/ops/dr.py` | schema, triggers, seeded rows, backup | init_db, migrate, reset, seed (three scripts), backup, restore | SQLite commits DDL statement by statement; programs beside each other; kills | audit tables guarded; no rows without parents |
| Rate limit and size limits, `core/shared/security_middleware.py` | hit times per client, in memory | dispatch | boundary of the window | not modelled |
| Dashboard, `core/dashboard` | none | portfolio_metrics, officer charts, other views | counts that belong together come from separate statements | a rate exceeds one only if something was committed in between |
| Simulation, smoke tests, borrower app | none or read-only | | | not modelled |

Interactions: the ingestion check reads the consent ledger; scoring reads
ingestion's snapshots and the registry's files; the revocation writes repayment
rows that retraining reads; the handoff reads the officers' log and the officers'
mirror writes the handoff's rows; the auditor counts both; promotion reads the
fairness gate and writes the registry, which the scripts write and scoring reads.

## How the code is abstracted

*Sessions.* PostgreSQL runs in READ COMMITTED: a statement sees what is committed
when it starts, and a transaction's writes become visible together. A handler is
modelled as one action per read that another request can come between and one
action for its commit, which makes every write of the handler visible, audit rows
and cascades included. `Abort` stands for an exception, a lost connection or a
crash before the commit; a deadlock is one of them. SQLAlchemy writes
`UPDATE ... SET <changed columns> WHERE id`: the row is overwritten whatever it
has become since it was read, and a column that equals its loaded value is left
out. Both are in the models (`CreateCommit`, `DecideCommit`, `WebhookCommit`,
`Writes` of `Grievance`).

*Clock.* `created_at` defaults to `now()`, the start of the transaction, so
`clock` orders transaction starts, and commits may come in another order. No two
transactions that insert rows of one table start at one reading.

*SQLite.* In `Database` every CREATE and DROP is a commit of its own and a
seeder's inserts are one; scripts run one at a time, API processes beside them.
PostgreSQL's DDL is transactional and has none of these states.

*Files.* `open(path, "w")` empties a file and `dump` fills it: two steps, with
`Torn` in between. Two writers that had a file open at once may leave a mixture,
which is `Torn` too. Reads are one step each.

*Data.* A record, application or log entry is named by the request that creates
it. A SHA-256 hash is named by the record it belongs to, that is, taken to be
injective. Amounts, reasons, notes and the content of packages are left out. A
snapshot is its list of sources; a card is the run that wrote it; a classifier is
the rows it learnt from (`fit`) and the rows that scaled or calibrated it
(`tuned`).

*Numbers.* In `Evaluation` the values of a series are multiplied by `2 * MaxBins`,
which makes midpoints and linearly interpolated percentiles exact integers.
Features of recourse are in thousandths of a percent, fine enough for a value to
differ from what `round(t_val, 2)` makes of it; half-way, either neighbour may
come out, since the value is a binary fraction. Log-odds are in tenths, and the
score is `clamp(300, 900, (487123 + 2885 * l) \div 1000)`, the integer part of the code's
formula for 600 points at odds of 50 and 20 points to double the odds. Isotonic
calibration is a step function that bounds the log-odds by 4.6 (it never answers
more than 0.99). The log-odds are a sum over the seven actionable features, whose
parts are rounded one by one: of weighted values (logistic cards) or of the weights
of bins (WoE cards). Boosted trees do not add up and are not among the cards.
Missing values and sample weights are left out, and so are samples of one class:
for them `ml/training/scorecard.py` lines 279-280 give NaN, the model 0.

*Processes.* Inside the API process, code between two awaits is atomic with
respect to other requests but not to other processes or to a crash; that is the
guard `ApiRunning` of `ModelRegistry`.

## The modules

| Module | Models | State | Actions |
|---|---|---|---|
| `Consent` | abstract: what the ledger promises | `granted`, `ended`, `terms` | `Grant`, `End` |
| `ConsentLedger` | the records of one borrower and the retention worker; implements `Consent` | rows (`body`, `hash_prev`, `status`, `revoked`, `audit`), `retraining`, `pii`; per request `step` and the rows it has `seen` | `CreateLink`, `CreateSupersede`, `CreateCommit` (create_consent); `GetRead`, `ExpireCommit` (get_consent, get_audit_trail); `VerifyRead`, `VerifyCommit` or `ExpireCommit` (verify_consent); `RevokeRead`, `RevokeCommit`; `PurgeScan`, `PurgeQuery`, `PurgeCommit`; `Abort`, `RecordRepayment`, `Tick` |
| `LoanHandoff` | one score, its decisions, its submissions, the callbacks | log (`logged`, `decision`, `created_at`), applications (`row`, `partner_re`), RE (`received`, `verdict`, `calls`), what requests have read (`link`, `chosen`, `loaded`) | `DecideStart`, `DecideLink`, `DecideCommit`; `SubmitStart`, `SubmitCheck`, `SubmitGate` or `SubmitRefused`, `SubmitTransmit`, `SubmitCommit`; `REDecides`, `WebhookFind`, `WebhookCommit`, `WebhookAbort`; `Abort` |
| `ModelRegistry` | `registry.json`, gated promotions in the API process, training scripts | `file`, `fair`; per task `model`, what it has read (`metrics_ok`, `fairness_ok`, `snap`), the operations left (`ops`), `step` | `ApiEvaluate`, `ApiGate`, `ApiBlocked`, `ApiGet`; `ScriptStart`; `OpRead`, `OpOpen`, `OpDump`, `OpFails`; `Crash`, `FairnessAudit` |
| `ModelStore` | index, artifacts and reports as four kinds of script write them, and `_load_scorecard_from_registry` for the score and its shadow | `disk`; per writer `todo`, `snap`, `step`; per request `stage`, `wanted`, `found`, `pickled`, `loaded`, `scored`, `shadow` | `StartProduction`, `StartBenchmark`, `StartRetraining`, `StartScorecard`, `StartPromotion`; `ReadIndex`, `Open`, `Dump`, `Raise`, `Crash`; `Ask`, `Look`, `Locate`, `Sniff`, `Load`, `ReadMeans`, `Score`, `List` |
| `Grievance` | grievances, updates, the escalation sweep | `status`, `resolved_at`, `due`, `audit`; what requests have read (`held`, `items`), which sweeps are under way (`sweeping`) | `Create`, `PassDue`; `UpdateRead`, `UpdateCommit`, `UpdateAbort`; `SweepRead`, `SweepCommit`, `SweepAbort` |
| `Assessment` | ingestion runs and scores of one borrower, over the consents of `Consent` | consents; per run `asked`, `consent`, `answers`, `pulls`, `sources_used`, `overall`; per score the snapshot `named` and the one `used`, `score` with its interval | `ConsentChanges`; `RunStart`, `RailAnswers`, `RunCommit`; `ScoreRead`, `ScoreCommit`; `Abort` |
| `Governance` | portfolio, audits, gate, the divided counts of two dashboard views | `applied`, `mirror`, `log`, `table`; `deciding`, `auditing`, `gating`, `board` | `DecideStart`, `DecideCommit`, `Submit`, `Callback`; `AuditStart`, `AuditRead`, `AuditCommit`; `GatePeriod`, `GateVerdict`; `BoardRead` |
| `Database` | the SQLite file and the programs that create, fill, drop, copy and replace it | `file` (schema, triggers, rows, stamp), `backup`; per process `left`, `todo`, `ended` | one per step of a phase: drop, create, guard, migrate, the three seeders, backup, restore, serve; kills |
| `Training` | lineage of what four training programs register | repayments (`outcome`, `flagged`); `program`, `stage`, `cohort`, `fold`, `oof`, `report`, `registered` | `RecordRepayment`, `Withdraw`; `LoadRetraining`, `LoadProduction`, `LoadBenchmark`, `LoadScorecard`; `Split`, `CannotSplit`, `Validate`, `Fit`, `FitScorecard`, `Register`, `Raise` |
| `Evaluation` | WoE and PSI bins and three KS computations, each one step from an input to an answer; the greedy loop of the recourse, a step per improvement considered | `task`, `input`, `answer` (during the loop, the plan so far) | `FitFeature`, `CalculatePsi`, `Judge`; `GenerateRecourse`, `Consider`, `Offer` |
| `MC...` | instances for TLC: sets of values, symmetry | | |
| `...Proofs` | theorems of the module of that name; `ModelProofs` those of `ModelRegistry`, `Training` and `Evaluation` | | |

Composition: `ConsentLedger` implements `Consent` (`ImplementsConsent`), and
`Assessment` uses `Consent` in place of the ledger: what it shows holds for every
implementation of that promise. `ModelStore` takes a promotion by the API as one
that has passed the gate, which `ModelRegistry` models; `ModelRegistry` in turn
takes the answer of the fairness gate as a Boolean that audits change, and
`Governance` models where it comes from.

Auxiliary variables, read by no action: `began` (what was committed when a
request began), `cleared` (versions an evaluation passed), `served`, `crashed`,
`overlap`, `demoted`, `calm`, `interrupted`, `overtaken` (that something has
happened, for properties that exclude or demand it), `before` (the runs that were over when a
run began), `withdrawn` (outcomes recorded before their borrower revoked).
Definitions marked "Seeded fault" are wrong variants of the definition that
follows them; no specification uses them. They record which bug each property
catches.

Some modelling decisions that are not obvious:

- `Serial = TRUE` restricts `ConsentLedger` to one request at a time. Some
  promises of the documents hold only then.
- `PurgeScan` (the bulk UPDATE) takes locks on the rows it expires, which the
  other writers respect (`Unlocked`); `PurgeQuery` and `PurgeCommit` follow in the
  same transaction, and other requests may commit between them.
- `RecordRepayment` models the only code that inserts repayment rows, a seeding
  script (`scripts/seed_early_adopters.py`).
- `Ungated` names the versions a training script is run for with
  `--promote active`, or promotes by itself; scripts do not go through the gate.
- `ModelStore`: a version is always saved in one format. The scripts save the
  champion's card to `scorecard.json` before they register it, which saves it
  again; the other cards they save to a `scorecard.pkl` nothing loads. Plots are
  left out.
- `ModelRegistry`, `Training` and `Evaluation` name their specifications apart
  (`Spec`, `TrainingSpec`, `EvaluationSpec`), since one module proves about all three.
- `Training`: the ledger moves only until a retraining has extracted its cohort,
  since nothing reads it afterwards and no other program reads it at all. A
  retraining with `gbm` treats the rows like one with `woe`. `GroupKFold`
  balances its folds; the model takes any assignment of villages onto folds. The
  forest's own report predicts a row by a forest of other folds, of which the
  model keeps the upper bound: all other rows. Every step may raise (one class
  alone, a full disk).
- `Assessment`: a score is asked for with the id of a snapshot, any that is
  committed, or without one, when the latest is taken (`Requested`). Score values
  are as near to the end of the scale as it takes for wider intervals to be cut.
- `Governance`: the counts of a view are read in the order of its statements
  (`CountOrder`), which is not the same in the two views. Counts that no rate of
  the view divides are left out.
- `Evaluation`: rows of equal probability come in any order. Improvements are
  ranked once, by what each gains alone, equal ones as they are listed
  (`Ahead`); `Consider` then takes the next one if it still gains over the
  features of those taken before it (`Impact`), now with its target rounded
  (`Rounded`); what it gains alone is computed before (`Gain`). The target 650 cannot be reached
  by a calibrated card, whose score ends at 619; the instance has plain cards
  beside it.

## Runs

| Run | Instance | Properties | Shows |
|---|---|---|---|
| `consent_races` | 4 requests, 2 purposes, 5 clock values | `TypeOK`, `ChainGrounded`, `StatusExplained`, `PurposeNotLost`, `ImplementsConsent` | what the ledger keeps whatever overlaps, and that it implements `Consent` |
| `consent_serial` | the same, 2 source lists, 2 durations, one request at a time | `LinearChain`, `AtMostOneActive`, `AnonymisesOnlyWithoutConsent` | what holds in addition for any sequence of calls |
| `handoff_races` | 2 decisions, 2 submissions, 2 entities, 2 deliveries | `TypeOK`, `OnlyApprovedLeaves`, `GateFresh`, `NoLateDuplicate` | what leaves, and on which decision |
| `registry_races` | 2 promotions, 1 script, 2 versions | `TypeOK`, `AtMostOneActive`, `ActiveWasCleared` | that lost updates, torn files and crashes do not bypass the gate |
| `grievance_sla` | 2 grievances, 3 updates, 1 sweep that may be called any number of times, 1 abort | `TypeOK`, `TrailSound`, `ReopenedOnlyByStaleRead`, `EscalatedIfSwept` | row and trail agree; what sweeps do about overdue grievances, if there are any |
| `assessment_races` | 2 runs, 2 scores, 1 consent, 3 source lists, one of them with a repeated rail; score 90 | `TypeOK`, `PulledUnderConsent`, `SnapshotTruthful`, `ScoredOnFreshData`, `ConfidenceHonest`, `RunsEnd` | pulls, snapshots and scores while consents change |
| `governance_audits` | 3 applications of 2 scores, 1 officer, 2 decisions, 2 audits, 2 periods, 1 gate, 2 dashboard views | `TypeOK`, `RatesSound`, `GateHonest`, `BreachNotAuditedAway` | which rates can exceed one and when, and what a passed gate means |
| `database_programs` | 1 API process, 6 scripts of which 2 run, 6 of the 14 tables | `ParentsPresent`, `AuditGuarded` | what the file holds after any kill, rerun, backup and restore |
| `model_store` | 1 script of any kind, 1 promotion, 1 request, 4 versions of all formats | `ServedNotOlder`, `FallBackExplained`, `FailureExplained` | which card scores, and why scoring falls back or fails |
| `training_lineage` | 4 repayments of 2 borrowers, 3 villages, 4 synthetic, 3 and 2 benchmark rows, 2 folds | `SpatiallyHeldOut`, `JudgedOutOfFold`, `WithdrawnStaysOut` | which rows stand behind a registered model and its metrics |
| `evaluation` | series up to 6 values out of 4, 3 bins; samples up to 5 rows; 5 amounts per feature, 4 cards | `BinsPartition`, `KSBracketed`, `RecourseHonest` | calculations against reference definitions |
| `active_unservable` | that of `model_store` | `ServedWhenQuiet`, violated | an active version that no score can be made with |

*Bounds.* Four requests are enough for the longest conflict of the ledger: two
records, and two requests that both act on them; a request is used once. With
five clock values a record of duration one can be created, lapse and be followed
by others; `MaxClock` bounds `Tick` and `CreateLink` only, so requests in progress
always finish. In `LoanHandoff` two decisions and two submissions give every
order of gate, mirror and insert; `MaxCalls` stands for the four deliveries of
`docs/phase0/re_api_handoff_spec.md` section 6, and two show a redelivery. A
registry task performs up to three operations, each of three file accesses, and
three tasks overlap in pairs of each kind. Three updates let two overlap with the
sweep on one grievance after a third has moved it; `MaxAborts` must be finite for
liveness, since calls that all crash escalate nothing. Two audits are the
fewest that can repeat a period or take an older one, and two decisions the fewest
that amend one another. The six tables have parents and children, both audit
logs, the one that the migration has in an older form and one of the migration's
between the audit logs; two scripts give every
pair, the second one after the first was killed included. In `ModelStore` one
script and one promotion are the fewest that have two hands on the index. Three
villages over two folds put two villages in one fold; rows are enough for a fold
whose inner split is empty, which fails. Six values and three bins give quantiles
that coincide, fall between values or leave one bin. Two of the amounts lead to
targets that are rounded down and up across a cut point of the WoE cards. The theorems do not depend
on these bounds. `ReadersApart` of `MCGovernance` keeps gate and dashboard, which
write nothing, from being explored together.

*Deadlock* is not checked: every request is used once and clocks are bounded, so
each instance stops when all are done.

*Fairness.* Two modules assume it. `Grievance`: an update or sweep that has begun
commits, unless it aborts. Nobody is obliged to begin one: the code offers an
endpoint for escalation ("system/officer job") and no scheduler, so
`EscalatedIfSwept` speaks of the behaviours in which calls keep coming
(`sweeping` says when one is under way) and promises nothing of the rest. `Assessment`: every pull
ends, because every client in `connectors.py` has a timeout after which it raises,
and a run whose pulls have ended commits, fails or is lost; nobody is obliged to
grant a consent or ask for a score. Weak fairness is enough in both: nothing
disables these steps once they are possible except their being taken or lost. The
other modules have safety properties only.

*Symmetry.* Requests, officers, submissions, entities, auditors and periods are
interchangeable model values that no definition mentions or orders; so are the
repayments of one borrower in `training_lineage`. Versions, tables and programs
are told apart by definitions and not permuted. The two runs with liveness use no
symmetry.

## Where code and documents disagree

The run `active_unservable` ends in a counterexample:

1. *A registered version that scoring cannot use.* The logistic baseline, the
   forest and the ensemble save a dict of their fields with `pickle`
   (`ml/training/logistic_baseline.py` lines 96-109, `rf_scorecard.py` lines
   130-143, `ensemble_scorecard.py` lines 123-137). Scoring takes every pickle for
   a boosted-trees card and loads it with plain `pickle.load`
   (`core/scoring/service.py` lines 49-52), gets a dict, and every score answers
   500, against `docs/phase3/ml_system.md` lines 19 and 177. The
   `registry.json` in the repository has `v1.1.0-logistic-baseline` active.

Further disagreements can be seen in the models, each by the steps given:

2. A revocation can be overwritten: `_supersede_existing` writes SUPERSEDED over a
   record that was revoked after it was read (`CreateSupersede`, `RevokeCommit`,
   `CreateCommit`), against `core/consent/router.py` line 127 ("This is a
   non-reversible operation"). `revoked_at`, the audit row and the record's being
   out of force are not lost (`StatusExplained`, `ImplementsConsent`); the status is.
3. Two overlapping creates fork the hash chain (two `CreateLink` before a
   `CreateCommit`), against rule R5 of `docs/phase0/consent_record_schema_spec.md`
   line 158. `LinearChain` holds for serial requests.
4. Two overlapping submissions create two applications for one entity and send
   both (two `SubmitCheck` before a `SubmitCommit`), against
   `core/handoff/service.py` lines 6-7. `NoLateDuplicate` is what holds.
5. A decision on a score with applications at two entities is mirrored onto one
   of them (`DecideLink`), without any overlap, against
   `docs/phase4/decision_interface.md` line 72.
6. A stale index written back makes a retired model active again (`OpRead` of one
   task, a promotion, `OpDump`), against `docs/phase3/ml_system.md` line 163.
7. A score is generated after the consent was revoked (`ConsentChanges`,
   `ScoreRead`), against `docs/testing/data_access_matrix.md` line 62. Whoever
   names a snapshot has it scored however old it is (`core/scoring/service.py`
   lines 88-92); the row records which snapshot it was.
8. After the baseline migration the API serves on a schema without
   `fairness_audit_log.status`: `create_all` adds tables, never columns
   (`core/main.py` lines 67-68). `docs/phase0_phase1_planning_summary.md` line 145
   says the migration includes every table and constraint of the ORM.
9. A settled grievance is reopened by an escalation or update that had read it
   before (`SweepRead`, `UpdateCommit`, `SweepCommit`), against
   `core/grievance/schemas.py` line 28 and
   `docs/phase5/monitoring_fairness_grievance.md` line 82, which call RESOLVED and
   CLOSED terminal. `ReopenedOnlyByStaleRead` is what holds.
10. Seeding the early adopters always raises: `calibrated_score` at
    `scripts/seed_early_adopters.py` line 532 is bound nowhere. Its docstring (line 325) and
    `tests/test_early_adopter_db.py` line 32 expect rows.
11. Production installs no append-only triggers: `init_db`, which does, runs only in
    development (`core/main.py` lines 67-68), against
    `core/shared/audit_triggers.py` lines 11-12 and
    `docs/phase6/production_hardening.md` line 95. In development a migration beside
    an initialisation can have the same result (`MigrateNext` between `CreateScan` and
    `GuardScan`: the initialisation fails on a table of the migration, and the one
    that follows the migration may fail on a table the first has made); `AuditGuarded`
    excepts it.
12. The ensemble's metrics are of the rows its blend was fitted on
    (`ml/training/ensemble_scorecard.py`), and are reported beside out-of-fold ones
    in `docs/report/chapters/25_results_and_evaluation.tex` line 10. A retraining
    registers the trainer's own report, which is of rows the calibrator was fitted
    on (`woe_scorecard.py` lines 283-289, `gbm_challenger.py` lines 241-247), from a
    random split that leaves rows of one village on both sides.
    `JudgedOutOfFold` excepts the ensemble and says of retrainings only that the
    weights have not learnt from the row.
13. "Scale inside training only" (a comment of `ml/training/scorecard.py`): medians,
    means and deviations are those of all rows, the held-out fifth included.
14. "Fewer sources = higher uncertainty = wider confidence interval" (a comment of
    `core/scoring/service.py`, line 130): the interval is then cut off at 0 and 100
    (lines 142-143), so that a score of 99 from one source has a narrower one than
    a score of 50 from two. `ConfidenceHonest` is about how far the interval
    reaches on the sides that are not cut off.
15. Rates of the dashboard can exceed one: the officer charts count all decisions
    before the overrides (`core/dashboard/service.py` lines 405-409) and
    `portfolio_metrics` all applications before the approved ones (lines 41-48, 92),
    and what is committed in between counts in the numerator alone (`BoardRead`,
    `DecideCommit` or `Submit`, `BoardRead`). No document speaks of it; `OvertakenOnly`
    says that nothing else does it.
16. An improvement that gains may not be offered: the recourse computes the gain
    (`ml/evaluation/recourse.py` lines 184-186) before it rounds the target
    (line 191) and applies the rounded one (line 210), which may fall back below the
    edge of a bin. An applicant for whom it was the only one is offered nothing
    (`Consider` with a target below the cut point, `Offer`). `RecourseHonest`
    allows this and no other case of an improvement not offered (`RoundedAway`).

Noticed in code that the models abstract from: a drift audit that raises is shown
as STABLE with fixed numbers (`core/dashboard/service.py` lines 293-308); the
points table of a WoE card has the opposite sign of the score it explains
(`ml/training/woe_scorecard.py` lines 90-92), and bins whose labels round alike
share an entry; `min_samples_per_bin` and `NON_ACTIONABLE_FEATURES` are read
nowhere; a forest fills a missing value with the median when it is trained and
with 0 when it scores; two scales of 900 points exist side by side
(`core/shared/scoring_utils.py` lines 3-6); `tune_hyperparameters.py` prints AUCs
that are constants; a loader gives `utility_payment_ontime_pct` between 0 and 1
and the generator between 0 and 100; loaders derive some features from the label;
the villages of benchmark rows are drawn at random, so that spatial folds of them
separate nothing; a padded retraining calibrates on its last rows, which are all
synthetic; a retraining whose rows are all of one village raises, since one
fold is not a cross-validation; the production script promotes the champion without the
fairness gate.

Other behaviour the models contain and no document rules out: the purge may
anonymise a borrower who consents between its query and its commit; an entity may
hold a package whose application was rolled back; a failed transmission counts as
done and is never repeated; a redelivered callback overwrites what an officer
decided since; a torn `registry.json` stays torn; the purge writes no audit row; a
repayment recorded after a revocation with the retraining flag stays in.

## Proofs

`...Proofs` modules prove `Spec => []P` or `Spec => [][A]_vars`, for every value
of the constants that satisfies the assumptions of the module
(`LedgerAssumption`, `HandoffAssumption`, `RegistryAssumption`,
`GrievanceAssumption`, `AssessmentAssumption`, `GovernanceAssumption`,
`DatabaseAssumption`, `StoreAssumption`, `TrainingAssumption`,
`EvaluationAssumption`, `CardsAssumption`). They say that names are distinct,
that bounds are numbers and shipped files well formed; that the records, the
values of a series and the probabilities of a sample are finitely many; that a
program of `Database` which creates tables installs the triggers next, as
`init_db` does; and that the numbers of a card are integers, its steps not zero.
TLC evaluates each assumption on the instance of a run. Theorems about an
operator `F` of several properties are cited by the one about the property a run
checks (`TrailSound`, `SnapshotTruthful`, `RatesSound`).

*Consent ledger.* `LedgerInv` is inductive: `TypeOK`; `FreshInv`, a request that
has not committed a record has no row, and every record a request has in `seen`
is committed; `LinkInv`, the predecessor of a record, committed *or still in
progress*, is committed and older than it; `SeenInv`, the records a create is
about to supersede share its purpose, and those a request is about to expire
have lapsed. `ChainGrounded` is not inductive by itself: the step that commits a
record needs its link to have been sound since it was read, which is what
`LinkInv` adds. `PurposeNotLost` follows from `SeenInv`: a commit supersedes
records of one purpose only, and adds an ACTIVE record of that purpose.
`StatusExplained` adds that the audit logs only grow. For serial requests
`LineInv` (one request in progress, and no committed record yet linked to the
predecessor a create has chosen) gives `LinearChain`, and `ReplacesInv` (a
create has seen everything it must supersede) gives `AtMostOneActive`.
`AnonymisesOnlyWithoutConsent` is then proved from `NothingElseActive`: nobody
can have created a record since the worker's query, so that what is ACTIVE at
its commit it has seen, and expires. The refinement `LedgerImplementsConsent`
maps a create's commit to `Grant`, expiries, revocations and the purge to `End`,
everything else to a stutter; it rests on `LedgerInv` and on `NoReactivation`,
itself a theorem.

*Handoff.* `HandoffInv`: `TypeOK`; `ProgressInv`, what a request has read fits
its step; `SettledInv`, the decision a submission has chosen is committed and
APPROVED, and packages and applications belong to submissions that have chosen
one; `BeganInv`, what was committed when a submission began still is, and a
submission past its check has no application of its entity among that; and
`GateFresh` itself.

*Registry.* `RegistryInv` states `AtMostOneActive` and `ActiveWasCleared` of
every index in memory as well as of the file: what a task has read (`snap`)
becomes the file later, so the file alone is not inductive. A task that will
still write "active" is about a version that is cleared or in `Ungated`.

*Model store.* `DiskOK` and `LoadOK` say what files, writers and requests hold
at each step; together they are the type invariant, and the longest part of the
proof, because a script's program is a sequence whose suffixes must be well
formed. `ServedNotOlder` needs `FreshDisk`: a record on disk, or in the snapshot
of a writer, whose run began after another was over is never beside a card of
that other run, which holds because a script writes the card before the record
and no script starts before those in its `before` are over; and `FreshLoad`, the
same of what a request has found and loaded. `FallBackExplained` needs `Alone`
and `Active`: while nobody has overlapped on the index and no active version was
registered again, the index, or the snapshot of the one writer at work, has an
active version. `FailureExplained` needs `Undamaged`, that a file that is not
whole is being written unless there was a crash or a collision, and `Failures`,
which relates how far a request has come to that.

*Grievances.* `GrievanceInv`: what an update or sweep has read is a status the
trail says the grievance was given (`ReadInv`), with `TypeOK` and the three
parts of `TrailSound`.

*Assessment.* `AssessmentInv`: a run past its check has a consent that was
granted and covers its rails, also after it ended (`Authorised`); a committed
run's pulls, sources and status are functions of its answers (`Kept`); a score's
snapshot was committed when it read and, unless it was named, is the newest of
those, and its interval is that of the snapshot's sources (`Used`). The status is
then compared with sets by cardinality.

*Governance.* `GovernanceInv`: a row's counts are of subsets of what it counts,
`AuditTimes` (rows computed at one moment are of one audit and period), `Gated`
(what the gate has read is still so, as rows are only added), `Counted`
(what a view has counted: in `portfolio_metrics` overrides that are among the
decisions counted later; in the views that count the whole first, all there is,
as long as nothing has overtaken them).

*Database.* `ParentsPresent`: the rows of a dataset are inserted in one
transaction, children are dropped before parents, and a process about to drop a
table has dropped, or found absent, its children. `AuditGuarded` is far from
inductive: that some process is initialising does not mean that it will get to
the triggers, since it fails on a table that another has created. `TriggerInv`
names the one that will. `OrderInv`: all creations follow one order of tables,
so an initialisation that is creating has every absent table still to do, and
those of its tables that others have created come before the absent ones.
`GuardInv`: an audit table without triggers has a process with nothing in its
way (`Guarding`), either creating and with only absent tables to do, or already
installing triggers. `BackupGuarded` says the same of the backup, `ProgramInv`
that what is left of a program is a program. A restore, a reset or a migration
that meets an initialisation, and a kill of one, break this in earnest and are
what `interrupted` records. Looking for `OrderInv` showed that a migration is
one of them, which five tables had not shown.

*Training.* `TrainingInv`. `JudgedOutOfFold` is about reports, which are made of
out-of-fold predictions two stages earlier: it needs `OrderKept` (the trainers
are validated, fitted and registered in order, no stage before the one ahead is
done, so that the predictions a report is made of exist) and `FoldsKept` (they
are those of the folds in force), from which `ReportsKept` follows step by step.
`SpatiallyHeldOut` follows from `FoldsKept` alone, by `OutOfFoldHeldOut`, which also
carries over to what production and benchmark register. `WithdrawnStaysOut` rests on
`ConsentKept`: what is flagged was not withdrawn, at the moment a cohort is
extracted.

*Evaluation.* The invariants say that an answer is what the code computes from
its input (`KSInv`, `BinsInv`); the work is in the lemmas. For the separation
statistic: the difference of the two distributions, between two rows of a block
of equal probability, moves one way only, so the scan can exceed the ends of a
block only when it holds a good and a bad; every point of the grid is a
threshold. For the bins: a value is matched by the bin whose lower bound is the
greatest cut point not above it; how many cut points are not above a value (a
cardinality) is the index of its bin, so each value has one, whatever the cut
points and however they were chosen. For the recourse, `RecourseInv` relates the
features the loop accumulates to those of the borrower who follows the pathways
shown. They agree only because no candidate that is left has the feature of a
pathway (`Honest`), and the impacts add up because each was taken over those
before it. Where the loop ends with nothing, `RecourseInv` knows of every
improvement that gains alone that the loop came to it and that its rounded target
does not gain. To reason about the loop the model takes it round by round; no
induction over data is left.

What is only model-checked: `EscalatedIfSwept` and `RunsEnd`, the two liveness
properties, since fairness and `ENABLED` are beyond the prover; and
`ServedWhenQuiet`, which does not hold.

## What is not modelled

- Numerical code: feature formulas, fitted weights, SHAP values, the sums of the
  drift index, plots, reports, model cards.
- Read-only code: lists, exports, the dashboard's other views; the API's
  authentication.
- The rate limiter: it decides and records a hit without an await in between, so
  requests do not interleave, and unit tests reach its window.
- The simulation router, smoke tests and the borrower application: they call the
  operations modelled here.
- Columns of an application beside its decision: `override_reason`, `decided_at`,
  `approved_amount`. A mirror and a callback can leave them from different writers.
- Connection pool limits; the triggers for PostgreSQL; `alembic downgrade`.
- The consequences of a retraining's cohort being read once: consent withdrawn
  while a model is fitted does not keep the model from being registered.

## Plan

What could be added next, in order of worth:

1. The other columns of an application, with mirror and callback writing those
   that changed.
2. `ModelRegistry` composed with `Governance`, in place of the Boolean `fair`, and
   a refinement from `ModelStore` to a store of registered versions.
3. The safety halves of the two liveness properties as theorems: an overdue
   grievance stays within the sweep's query until it is handled, and a run waits for
   nothing but rails that have not answered.
4. Recourse with features that are missing.
