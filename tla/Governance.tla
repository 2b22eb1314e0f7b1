----------------------------- MODULE Governance -----------------------------
(***************************************************************************)
(* Fairness governance: FairnessAuditor (services/core/monitoring/         *)
(* service.py) counts the portfolio, FairnessGate (governance.py) holds    *)
(* the rows of a period against ratified thresholds, and the dashboard     *)
(* (services/core/dashboard/service.py) shows the totals.                  *)
(*                                                                         *)
(* None of them locks anything: every statement sees what is committed     *)
(* when it runs (READ COMMITTED) while officers decide, applications       *)
(* arrive and entities call back between two statements.  computed_at and  *)
(* created_at are the starts of the transactions that insert the rows.     *)
(*                                                                         *)
(* A rate is kept as its numerator over sample_size and compared in        *)
(* integers; the thresholds are percentages.                               *)
(***************************************************************************)
EXTENDS Integers, Sequences, FiniteSets

CONSTANTS
    Score,          \* scored borrowers
    Application,    \* loan applications
    ScoreOf,        \* the score of an application
    Seeded,         \* applications that are there, undecided, from the start
    Recommendation, \* the model's recommendation for a score
    Officer,        \* officers
    Choice,         \* decisions officers take
    ECallback,      \* decisions regulated entities send back
    Dimensions,     \* the borrower dimensions, in the order of run_audit
    Group,          \* gender, landholding and district values
    GroupOf,        \* the group of a score's borrower in a dimension
    Period,         \* period labels
    Auditor,        \* requests for an audit
    Gate,           \* evaluations of the gate
    MinSample,      \* MIN_SAMPLE_SIZE
    Thresholds,     \* the ratified manifest
    MaxDecisions,   \* bound on the decisions
    MaxAudits,      \* bound on the audits
    Null            \* no value

OfficerDecision == {"APPROVED", "REJECTED", "MORE_INFO_REQUIRED"}

REDecision == OfficerDecision \cup {"REFERRED"}

Dimension == {Dimensions[i] : i \in 1..Len(Dimensions)} \cup {"OFFICER"}

\* A rule the manifest leaves out is the bound that no rate crosses.
Rules == [min_approval_rate : 0..100, max_override_rate : 0..100, max_approval_gap : 0..100]

ASSUME GovernanceAssumption ==
    /\ IsFiniteSet(Score) /\ IsFiniteSet(Application) /\ IsFiniteSet(Officer)
    /\ ScoreOf \in [Application -> Score]
    /\ Seeded \subseteq Application
    /\ Recommendation \in [Score -> {"APPROVE", "REVIEW", "REJECT"}]
    /\ Choice \subseteq OfficerDecision
    /\ ECallback \subseteq REDecision
    /\ Dimensions \in Seq(STRING \ {"OFFICER"})
    /\ GroupOf \in [Dimension \ {"OFFICER"} -> [Score -> Group]]
    /\ MinSample \in Nat \ {0}
    /\ Thresholds \in [Dimension -> Rules]
    /\ MaxDecisions \in Nat
    /\ MaxAudits \in Nat
    /\ Null \notin REDecision
    /\ Null \notin Period

VARIABLES
    applied,    \* the applications there are
    mirror,     \* LoanApplication.officer_decision
    log,        \* OfficerDecisionLog
    clock,      \* counts the transactions that insert rows
    audits,     \* how many of them are audits
    deciding,   \* the decision an officer's transaction has computed
    auditing,   \* the rows an audit has computed, and how far it is
    table,      \* FairnessAuditLog
    gating,     \* what an evaluation of the gate has read and found
    board,      \* the counts each view of the dashboard has read
    overtaken   \* the views during whose reading an application or a decision
                \* was committed (auxiliary)

portfolio == <<applied, mirror, log>>
vars == <<applied, mirror, log, clock, audits, deciding, auditing, table, gating, board,
          overtaken>>

MaxClock == MaxDecisions + MaxAudits

Entry == [score : Score, officer : Officer, decision : OfficerDecision,
          is_override : BOOLEAN, created_at : 1..MaxClock]

Row == [period : Period, dimension : Dimension, group_value : Group \cup Officer,
        sample_size : Nat, approved : Nat, overrides : Nat,
        status : {"OK", "INSUFFICIENT_SAMPLE"}, computed_at : 1..MaxClock]

View == {"portfolio_metrics", "_get_officer_charts"}

CountNames == {"applications_total", "applications_approved",
               "officer_override_count", "officer_decisions_total"}

----------------------------------------------------------------------------
\* is_override: a REVIEW recommendation is never overridden.
IsOverride(d, rec) ==
    \/ rec = "APPROVE" /\ d # "APPROVED"
    \/ rec = "REJECT" /\ d # "REJECTED"

\* The sub-query of run_audit: of each score, the decision created last.
LatestDecisions(entries) ==
    {e \in entries : \A f \in entries : f.score = e.score => f.created_at <= e.created_at}

Init ==
    /\ applied = Seeded
    /\ mirror = [a \in Application |-> Null]
    /\ log = {}
    /\ clock = 0
    /\ audits = 0
    /\ deciding = [o \in Officer |-> Null]
    /\ auditing = [w \in Auditor |-> Null]
    /\ table = {}
    /\ gating = [g \in Gate |-> [step |-> "idle", period |-> Null, newest |-> 0, passed |-> FALSE]]
    /\ board = [v \in View |-> [name \in CountNames |-> Null]]
    /\ overtaken = {}

----------------------------------------------------------------------------
(***************************************************************************)
(* The dashboard: one statement per count.  Of the two views that divide   *)
(* one count by another the model has these divisions; the counts of       *)
(* scores, of borrowers and of grievances are left out.                    *)
(***************************************************************************)
\* Seeded fault for CountOrder: all decisions are counted before the overrides
\* in both views.
CountOrderSwapped(v) ==
    IF v = "portfolio_metrics"
    THEN <<"applications_total", "applications_approved",
           "officer_decisions_total", "officer_override_count">>
    ELSE <<"officer_decisions_total", "officer_override_count">>

\* The counts of a view, in the order of its statements.
CountOrder(v) ==
    IF v = "portfolio_metrics"
    THEN <<"applications_total", "applications_approved",
           "officer_override_count", "officer_decisions_total">>
    ELSE <<"officer_decisions_total", "officer_override_count">>

CountedSet(name) ==
    CASE name = "applications_total" -> applied
      [] name = "applications_approved" -> {a \in applied : mirror[a] = "APPROVED"}
      [] name = "officer_override_count" -> {e \in log : e.is_override}
      [] name = "officer_decisions_total" -> log

\* Some of the counts of a view are read and some are not.
Reading(v) ==
    /\ \E i \in 1..Len(CountOrder(v)) : board[v][CountOrder(v)[i]] # Null
    /\ \E i \in 1..Len(CountOrder(v)) : board[v][CountOrder(v)[i]] = Null

\* A commit that adds a decision or an application.
Overtake == overtaken' = overtaken \cup {v \in View : Reading(v)}

BoardRead(v) ==
    \E i \in 1..Len(CountOrder(v)) :
        /\ board[v][CountOrder(v)[i]] = Null
        /\ \A j \in 1..(i - 1) : board[v][CountOrder(v)[j]] # Null
        /\ board' = [board EXCEPT ![v][CountOrder(v)[i]] =
                        Cardinality(CountedSet(CountOrder(v)[i]))]
        /\ UNCHANGED <<portfolio, clock, audits, deciding, auditing, table, gating, overtaken>>

----------------------------------------------------------------------------
(***************************************************************************)
(* The portfolio changes.                                                  *)
(***************************************************************************)
\* The next transaction that inserts rows starts.
Tick == clock' = clock + 1

\* record_decision up to the INSERT.
DecideStart(o) ==
    /\ deciding[o] = Null
    /\ clock - audits < MaxDecisions
    /\ Tick
    /\ \E s \in Score, d \in Choice :
          deciding' = [deciding EXCEPT ![o] =
              [score |-> s, officer |-> o, decision |-> d,
               is_override |-> IsOverride(d, Recommendation[s]), created_at |-> clock']]
    /\ UNCHANGED <<portfolio, audits, auditing, table, gating, board, overtaken>>

\* The decision is committed and mirrored onto one application of its score.
DecideCommit(o) ==
    /\ deciding[o] # Null
    /\ log' = log \cup {deciding[o]}
    /\ LET linked == {a \in applied : ScoreOf[a] = deciding[o].score}
       IN  IF linked = {} THEN UNCHANGED mirror
           ELSE \E a \in linked : mirror' = [mirror EXCEPT ![a] = deciding[o].decision]
    /\ deciding' = [deciding EXCEPT ![o] = Null]
    /\ Overtake
    /\ UNCHANGED <<applied, clock, audits, auditing, table, gating, board>>

\* submit_application: a score whose latest decision is APPROVED.
Submit(a) ==
    /\ a \notin applied
    /\ \E e \in LatestDecisions(log) : e.score = ScoreOf[a] /\ e.decision = "APPROVED"
    /\ applied' = applied \cup {a}
    /\ mirror' = [mirror EXCEPT ![a] = "APPROVED"]
    /\ Overtake
    /\ UNCHANGED <<log, clock, audits, deciding, auditing, table, gating, board>>

\* process_decision_webhook.
Callback(a) ==
    /\ a \in applied
    /\ \E d \in ECallback : mirror' = [mirror EXCEPT ![a] = d]
    /\ UNCHANGED <<applied, log, clock, audits, deciding, auditing, table, gating, board,
                   overtaken>>

----------------------------------------------------------------------------
(***************************************************************************)
(* FairnessAuditor.                                                        *)
(***************************************************************************)
\* Seeded fault for BuildLog: a sample of the minimum size is too small.
BuildLogInclusive(w, d, g, total, approved, overrides) ==
    [period |-> auditing[w].period, dimension |-> d, group_value |-> g,
     sample_size |-> total,
     approved |-> IF total <= MinSample THEN 0 ELSE approved,
     overrides |-> IF total <= MinSample THEN 0 ELSE overrides,
     status |-> IF total <= MinSample THEN "INSUFFICIENT_SAMPLE" ELSE "OK",
     computed_at |-> auditing[w].computed_at]

\* _build_log.
BuildLog(w, d, g, total, approved, overrides) ==
    [period |-> auditing[w].period, dimension |-> d, group_value |-> g,
     sample_size |-> total,
     approved |-> IF total < MinSample THEN 0 ELSE approved,
     overrides |-> IF total < MinSample THEN 0 ELSE overrides,
     status |-> IF total < MinSample THEN "INSUFFICIENT_SAMPLE" ELSE "OK",
     computed_at |-> auditing[w].computed_at]

Members(d, g) == {a \in applied : GroupOf[d][ScoreOf[a]] = g}

\* The overriding decisions among the latest ones of a group's scores.
Overridden(d, g) ==
    {e \in LatestDecisions(log) : e.is_override /\ \E a \in Members(d, g) : ScoreOf[a] = e.score}

\* _rows_for_dimension: the groups that have an application.
RowsForDimension(w, d) ==
    {BuildLog(w, d, g, Cardinality(Members(d, g)),
              Cardinality({a \in Members(d, g) : mirror[a] = "APPROVED"}),
              Cardinality(Overridden(d, g))) :
     g \in {GroupOf[d][ScoreOf[a]] : a \in applied}}

By(o) == {e \in LatestDecisions(log) : e.officer = o}

\* officer_stmt.
OfficerRows(w) ==
    {BuildLog(w, "OFFICER", o, Cardinality(By(o)),
              Cardinality({e \in By(o) : e.decision = "APPROVED"}),
              Cardinality({e \in By(o) : e.is_override})) :
     o \in {e.officer : e \in LatestDecisions(log)}}

AuditStart(w) ==
    /\ auditing[w] = Null
    /\ audits < MaxAudits
    /\ Tick
    /\ audits' = audits + 1
    /\ \E p \in Period :
          auditing' = [auditing EXCEPT ![w] =
              [period |-> p, computed_at |-> clock', next |-> 1, rows |-> {}]]
    /\ UNCHANGED <<portfolio, deciding, table, gating, board, overtaken>>

\* One statement per borrower dimension, then one for the officers.
NewRows(w) ==
    IF auditing[w].next <= Len(Dimensions)
    THEN RowsForDimension(w, Dimensions[auditing[w].next])
    ELSE OfficerRows(w)

AuditRead(w) ==
    /\ auditing[w] # Null
    /\ auditing[w].next <= Len(Dimensions) + 1
    /\ auditing' = [auditing EXCEPT ![w].rows = auditing[w].rows \cup NewRows(w),
                                    ![w].next = auditing[w].next + 1]
    /\ UNCHANGED <<portfolio, clock, audits, deciding, table, gating, board, overtaken>>

AuditCommit(w) ==
    /\ auditing[w] # Null
    /\ auditing[w].next = Len(Dimensions) + 2
    /\ table' = table \cup auditing[w].rows
    /\ auditing' = [auditing EXCEPT ![w] = Null]
    /\ UNCHANGED <<portfolio, clock, audits, deciding, gating, board, overtaken>>

----------------------------------------------------------------------------
(***************************************************************************)
(* FairnessGate.                                                           *)
(***************************************************************************)
\* Seeded fault for Evaluated: only the rows computed last.
EvaluatedNewest(rows, p) ==
    {r \in rows : r.period = p /\ r.status = "OK"
                  /\ \A q \in rows : q.period = p => q.computed_at <= r.computed_at}

\* The rows of a period that carry a rate.
Evaluated(rows, p) == {r \in rows : r.period = p /\ r.status = "OK"}

\* Rates of one dimension's rows that a rule forbids.
Breaches(rows, d) ==
    \/ \E r \in rows : 100 * r.approved < Thresholds[d].min_approval_rate * r.sample_size
    \/ \E r \in rows : 100 * r.overrides > Thresholds[d].max_override_rate * r.sample_size
    \/ \E q, r \in rows : 100 * (q.approved * r.sample_size - r.approved * q.sample_size)
                          > Thresholds[d].max_approval_gap * q.sample_size * r.sample_size

Breached(rows, p) ==
    \E d \in Dimension : Breaches({r \in Evaluated(rows, p) : r.dimension = d}, d)

LastAudit == {r \in table : \A q \in table : q.computed_at <= r.computed_at}

\* Seeded fault for Newest: the first audit.
Oldest(rows) == {r \in rows : \A q \in rows : r.computed_at <= q.computed_at}

\* ORDER BY computed_at DESC LIMIT 1, any of the equals.
Newest(rows) == {r \in rows : \A q \in rows : q.computed_at <= r.computed_at}

\* _latest_period, or the period asked for.
GatePeriod(g) ==
    /\ gating[g].step = "idle"
    /\ \/ \E r \in Newest(table) :
             gating' = [gating EXCEPT ![g] = [@ EXCEPT !.step = "rows", !.period = r.period,
                                                       !.newest = (CHOOSE q \in LastAudit : TRUE).computed_at]]
       \/ table = {} /\ gating' = [gating EXCEPT ![g].step = "done"]
       \/ \E p \in Period : gating' = [gating EXCEPT ![g] = [@ EXCEPT !.step = "rows", !.period = p]]
    /\ UNCHANGED <<portfolio, clock, audits, deciding, auditing, table, board, overtaken>>

GateVerdict(g) ==
    /\ gating[g].step = "rows"
    /\ \E passed \in BOOLEAN :
          /\ passed <=> ~Breached(table, gating[g].period)
          /\ gating' = [gating EXCEPT ![g] = [@ EXCEPT !.step = "done", !.passed = passed]]
    /\ UNCHANGED <<portfolio, clock, audits, deciding, auditing, table, board, overtaken>>

----------------------------------------------------------------------------
Next ==
    \/ \E o \in Officer : DecideStart(o) \/ DecideCommit(o)
    \/ \E a \in Application : Submit(a) \/ Callback(a)
    \/ \E w \in Auditor : AuditStart(w) \/ AuditRead(w) \/ AuditCommit(w)
    \/ \E g \in Gate : GatePeriod(g) \/ GateVerdict(g)
    \/ \E v \in View : BoardRead(v)

Spec == Init /\ [][Next]_vars

----------------------------------------------------------------------------
(***************************************************************************)
(* Properties.                                                             *)
(***************************************************************************)
\* Type invariant.  A persisted row carries rates exactly if its sample
\* reaches MIN_SAMPLE_SIZE.
TypeOK ==
    /\ applied \subseteq Application
    /\ mirror \in [Application -> REDecision \cup {Null}]
    /\ log \subseteq Entry
    /\ audits \in 0..MaxAudits
    /\ clock - audits \in 0..MaxDecisions
    /\ clock \in Nat
    /\ deciding \in [Officer -> Entry \cup {Null}]
    /\ auditing \in [Auditor -> [period : Period, computed_at : 1..MaxClock,
                                 next : 1..(Len(Dimensions) + 2), rows : SUBSET Row] \cup {Null}]
    /\ table \subseteq Row
    /\ \A r \in table : r.status = "OK" <=> r.sample_size >= MinSample
    /\ gating \in [Gate -> [step : {"idle", "rows", "done"}, period : Period \cup {Null},
                            newest : 0..MaxClock, passed : BOOLEAN]]
    /\ board \in [View -> [CountNames -> Nat \cup {Null}]]
    /\ overtaken \subseteq View

\* Every persisted rate lies between 0 and 1: the statement that counts the
\* applications of a group and, through a join, the overrides among the latest
\* decisions of their scores never counts more overrides than applications,
\* however often officers amended a decision and whatever changed in between.
RowsSound ==
    \A r \in table : r.approved <= r.sample_size /\ r.overrides <= r.sample_size

\* Once the gate would report a breach in a period, no later step makes it
\* disappear: not another audit of the period, nor a change of the portfolio.
\* Rows are only added, and the gate holds all rows of the period against the
\* thresholds.
BreachNotAuditedAway ==
    [][\A p \in Period : Breached(table, p) => Breached(table', p)]_vars

\* A gate that was not given a period and passes did not overlook a breach in
\* the audit that was the last one when it began, although it reads the period
\* and the rows in two statements.
GateHonest ==
    \A g \in Gate : gating[g].passed /\ gating[g].newest # 0 =>
        \A p \in Period : ~Breached({r \in table : r.computed_at = gating[g].newest}, p)

\* The rate of two counts of a view, once both are read, is at most 1.
AtMostOne(v, part, whole) ==
    board[v][part] # Null /\ board[v][whole] # Null => board[v][part] <= board[v][whole]

\* The override rate of portfolio_metrics never exceeds 1 although its two
\* counts are read at different moments: the overrides are counted first.
OverrideRateSound ==
    AtMostOne("portfolio_metrics", "officer_override_count", "officer_decisions_total")

\* The approval rate of portfolio_metrics and the override rate of
\* _get_officer_charts count the whole first.  Either may exceed 1, but only if
\* an application or a decision was committed while the view was read.
OvertakenOnly ==
    \A v \in View \ overtaken :
        /\ AtMostOne(v, "applications_approved", "applications_total")
        /\ AtMostOne(v, "officer_override_count", "officer_decisions_total")

\* Which rates may exceed 1 because of what is committed between two
\* statements: none of a persisted audit, not the override rate of
\* portfolio_metrics, and the two others of the dashboard only then.
RatesSound == RowsSound /\ OverrideRateSound /\ OvertakenOnly

============================================================================
