-------------------------- MODULE GovernanceProofs --------------------------
(***************************************************************************)
(* Proofs about Governance, for any portfolio, dimensions, thresholds,     *)
(* numbers of officers, audits and evaluations.                            *)
(***************************************************************************)
EXTENDS Governance, FiniteSetTheorems, FunctionTheorems, TLAPS

Sound(r) ==
    /\ r.approved <= r.sample_size
    /\ r.overrides <= r.sample_size
    /\ r.status = "OK" <=> r.sample_size >= MinSample

\* created_at tells the decisions apart.
DecisionTimes ==
    /\ IsFiniteSet(log)
    /\ \A e \in log : e.created_at <= clock
    /\ \A e, f \in log : e.created_at = f.created_at => e = f
    /\ \A o \in Officer : deciding[o] # Null =>
          /\ deciding[o].created_at <= clock
          /\ \A e \in log : e.created_at # deciding[o].created_at
          /\ \A p \in Officer : deciding[p] # Null /\ p # o =>
                deciding[p].created_at # deciding[o].created_at

\* computed_at tells the audits apart, and their rows are sound.
AuditTimes ==
    /\ \A r \in table : r.computed_at <= clock /\ Sound(r)
    /\ \A q, r \in table : q.computed_at = r.computed_at => q.period = r.period
    /\ \A w \in Auditor : auditing[w] # Null =>
          /\ auditing[w].computed_at <= clock
          /\ \A r \in table : r.computed_at # auditing[w].computed_at
          /\ \A v \in Auditor : auditing[v] # Null /\ v # w =>
                auditing[v].computed_at # auditing[w].computed_at
          /\ \A r \in auditing[w].rows :
                /\ Sound(r)
                /\ r.computed_at = auditing[w].computed_at
                /\ r.period = auditing[w].period

\* What an evaluation knows of the audit that was the last when it began.
Gated ==
    \A g \in Gate :
        /\ gating[g].step = "idle" => gating[g].newest = 0
        /\ gating[g].step # "done" => ~gating[g].passed
        /\ gating[g].newest # 0 =>
              \E r \in table : r.computed_at = gating[g].newest /\ r.period = gating[g].period
        /\ gating[g].passed /\ gating[g].newest # 0 =>
              ~Breached({r \in table : r.computed_at = gating[g].newest}, gating[g].period)

Portfolio == board["portfolio_metrics"]

Charts == board["_get_officer_charts"]

Overriding == {e \in log : e.is_override}

\* The views read their counts in their order.
InOrder ==
    /\ Portfolio.applications_approved # Null => Portfolio.applications_total # Null
    /\ Portfolio.officer_override_count # Null => Portfolio.applications_approved # Null
    /\ Portfolio.officer_decisions_total # Null => Portfolio.officer_override_count # Null
    /\ Charts.applications_total = Null /\ Charts.applications_approved = Null
    /\ Charts.officer_override_count # Null => Charts.officer_decisions_total # Null

\* Overrides counted first stay below what the log holds by now; a whole
\* counted first is still the whole, unless a commit came in between.
Counted ==
    /\ InOrder
    /\ Portfolio.officer_override_count # Null =>
          Portfolio.officer_override_count <= Cardinality(Overriding)
    /\ /\ "portfolio_metrics" \notin overtaken
       /\ Portfolio.applications_total # Null /\ Portfolio.applications_approved = Null
       => Portfolio.applications_total = Cardinality(applied)
    /\ /\ "_get_officer_charts" \notin overtaken
       /\ Charts.officer_decisions_total # Null /\ Charts.officer_override_count = Null
       => Charts.officer_decisions_total = Cardinality(log)
    /\ OverrideRateSound
    /\ OvertakenOnly

GovernanceInv == TypeOK /\ DecisionTimes /\ AuditTimes /\ Gated /\ Counted

----------------------------------------------------------------------------
(***************************************************************************)
(* What the statements return.                                             *)
(***************************************************************************)
\* Of the decisions of one score only one is the latest, so a group has at
\* most as many overrides as applications.
LEMMA OverridesBounded ==
  ASSUME TypeOK, DecisionTimes, NEW d, NEW g
  PROVE /\ IsFiniteSet(Members(d, g))
        /\ IsFiniteSet(Overridden(d, g))
        /\ Cardinality(Overridden(d, g)) <= Cardinality(Members(d, g))
<1>1. IsFiniteSet(Members(d, g))
  BY GovernanceAssumption, FS_Subset DEF TypeOK, Members
<1> DEFINE App(e) == CHOOSE a \in Members(d, g) : ScoreOf[a] = e.score
           f == [e \in Overridden(d, g) |-> App(e)]
<1>2. ASSUME NEW e \in Overridden(d, g)
      PROVE App(e) \in Members(d, g) /\ ScoreOf[App(e)] = e.score
  BY DEF Overridden
<1>3. ASSUME NEW e \in Overridden(d, g), NEW h \in Overridden(d, g), App(e) = App(h)
      PROVE e = h
  <2>1. e.score = h.score
    BY <1>2, <1>3
  <2>2. e \in log /\ h \in log /\ e.created_at <= h.created_at /\ h.created_at <= e.created_at
    BY <2>1 DEF Overridden, LatestDecisions
  <2>3. e.created_at \in Nat /\ h.created_at \in Nat
    BY <2>2 DEF TypeOK, Entry, MaxClock
  <2>4. e.created_at = h.created_at
    BY <2>2, <2>3
  <2> QED
    BY <2>2, <2>4 DEF DecisionTimes
<1>4. f \in Injection(Overridden(d, g), Members(d, g))
  <2>1. f \in [Overridden(d, g) -> Members(d, g)]
    BY <1>2
  <2>2. \A e, h \in Overridden(d, g) : f[e] = f[h] => e = h
    BY <1>3
  <2> HIDE DEF f
  <2> QED
    BY <2>1, <2>2, Fun_IsInj
<1> HIDE DEF f
<1> QED
  BY <1>1, <1>4, FS_Injection

LEMMA LogIsFinite ==
  ASSUME DecisionTimes, NEW T \in SUBSET log
  PROVE IsFiniteSet(T) /\ Cardinality(T) \in Nat
BY FS_Subset, FS_CardinalityType DEF DecisionTimes

LEMMA CountsAreFinite ==
  ASSUME TypeOK, DecisionTimes
  PROVE /\ \A name \in CountNames : Cardinality(CountedSet(name)) \in Nat
        /\ Cardinality(CountedSet("applications_approved")) <= Cardinality(applied)
        /\ Cardinality(Overriding) \in Nat
        /\ Cardinality(Overriding) <= Cardinality(log)
<1> DEFINE approved == {a \in applied : mirror[a] = "APPROVED"}
<1>1. IsFiniteSet(applied) /\ IsFiniteSet(log)
  BY GovernanceAssumption, FS_Subset DEF TypeOK, DecisionTimes
<1>2. /\ IsFiniteSet(approved) /\ Cardinality(approved) <= Cardinality(applied)
      /\ IsFiniteSet(Overriding) /\ Cardinality(Overriding) <= Cardinality(log)
  BY <1>1, FS_Subset DEF Overriding
<1>3. /\ Cardinality(applied) \in Nat /\ Cardinality(log) \in Nat
      /\ Cardinality(approved) \in Nat /\ Cardinality(Overriding) \in Nat
  BY <1>1, <1>2, FS_CardinalityType
<1>4. /\ CountedSet("applications_total") = applied
      /\ CountedSet("applications_approved") = approved
      /\ CountedSet("officer_override_count") = Overriding
      /\ CountedSet("officer_decisions_total") = log
  BY DEF CountedSet, Overriding
<1> HIDE DEF approved
<1> QED
  BY <1>2, <1>3, <1>4 DEF CountNames

\* A row built from counts that bound each other is sound.
LEMMA BuiltRow ==
  ASSUME NEW w \in Auditor, TypeOK, auditing[w] # Null,
         NEW d \in Dimension, NEW g \in Group \cup Officer,
         NEW total \in Nat, NEW approved \in Nat, NEW overrides \in Nat,
         approved <= total, overrides <= total,
         NEW r, r = BuildLog(w, d, g, total, approved, overrides)
  PROVE /\ r \in Row
        /\ Sound(r)
        /\ r.computed_at = auditing[w].computed_at
        /\ r.period = auditing[w].period
<1>1. auditing[w].period \in Period /\ auditing[w].computed_at \in 1..MaxClock
  BY DEF TypeOK
<1>2. MinSample \in Nat
  BY GovernanceAssumption
<1> QED
  BY <1>1, <1>2 DEF BuildLog, Row, Sound

\* The rows that an audit adds in one statement.
LEMMA RowsAreSound ==
  ASSUME NEW w \in Auditor, TypeOK, DecisionTimes, auditing[w] # Null,
         NEW r \in NewRows(w),
         auditing[w].next \in 1..(Len(Dimensions) + 1)
  PROVE /\ r \in Row
        /\ Sound(r)
        /\ r.computed_at = auditing[w].computed_at
        /\ r.period = auditing[w].period
<1> DEFINE d == Dimensions[auditing[w].next]
<1>1. CASE auditing[w].next <= Len(Dimensions)
  <2>1. PICK g \in {GroupOf[d][ScoreOf[a]] : a \in applied} :
           r = BuildLog(w, d, g, Cardinality(Members(d, g)),
                        Cardinality({a \in Members(d, g) : mirror[a] = "APPROVED"}),
                        Cardinality(Overridden(d, g)))
    BY <1>1 DEF NewRows, RowsForDimension
  <2>2. auditing[w].next \in 1..Len(Dimensions)
    BY <1>1, GovernanceAssumption
  <2>3. d \in STRING \ {"OFFICER"} /\ d \in Dimension
    BY <2>2, GovernanceAssumption DEF Dimension
  <2> HIDE DEF d
  <2>4. g \in Group
    <3>1. GroupOf[d] \in [Score -> Group]
      BY <2>3, GovernanceAssumption
    <3>2. \A a \in applied : ScoreOf[a] \in Score
      BY GovernanceAssumption DEF TypeOK
    <3>3. PICK a \in applied : g = GroupOf[d][ScoreOf[a]]
      BY <2>1
    <3> QED
      BY <3>1, <3>2, <3>3
  <2>5. {a \in Members(d, g) : mirror[a] = "APPROVED"} \in SUBSET Members(d, g)
    OBVIOUS
  <2>6. /\ Cardinality(Members(d, g)) \in Nat
        /\ Cardinality({a \in Members(d, g) : mirror[a] = "APPROVED"}) \in Nat
        /\ Cardinality({a \in Members(d, g) : mirror[a] = "APPROVED"}) <= Cardinality(Members(d, g))
        /\ Cardinality(Overridden(d, g)) \in Nat
        /\ Cardinality(Overridden(d, g)) <= Cardinality(Members(d, g))
    BY <2>5, OverridesBounded, FS_Subset, FS_CardinalityType
  <2> DEFINE total == Cardinality(Members(d, g))
             approved == Cardinality({a \in Members(d, g) : mirror[a] = "APPROVED"})
             overrides == Cardinality(Overridden(d, g))
  <2>7. r = BuildLog(w, d, g, total, approved, overrides)
    BY <2>1
  <2>8. /\ total \in Nat /\ approved \in Nat /\ overrides \in Nat
        /\ approved <= total /\ overrides <= total
    BY <2>6
  <2> HIDE DEF total, approved, overrides
  <2> QED
    BY <2>3, <2>4, <2>7, <2>8, BuiltRow
<1>2. CASE ~(auditing[w].next <= Len(Dimensions))
  <2>1. PICK o \in {e.officer : e \in LatestDecisions(log)} :
           r = BuildLog(w, "OFFICER", o, Cardinality(By(o)),
                        Cardinality({e \in By(o) : e.decision = "APPROVED"}),
                        Cardinality({e \in By(o) : e.is_override}))
    BY <1>2 DEF NewRows, OfficerRows
  <2>2. o \in Officer
    BY <2>1 DEF LatestDecisions, TypeOK, Entry
  <2>3. By(o) \in SUBSET log
    BY DEF By, LatestDecisions
  <2>4. IsFiniteSet(By(o)) /\ Cardinality(By(o)) \in Nat
    BY <2>3, LogIsFinite
  <2>5. ASSUME NEW T \in SUBSET By(o)
        PROVE Cardinality(T) \in Nat /\ Cardinality(T) <= Cardinality(By(o))
    BY <2>4, FS_Subset, FS_CardinalityType
  <2>6. /\ {e \in By(o) : e.decision = "APPROVED"} \in SUBSET By(o)
        /\ {e \in By(o) : e.is_override} \in SUBSET By(o)
    OBVIOUS
  <2>7. "OFFICER" \in Dimension
    BY DEF Dimension
  <2> QED
    BY <2>1, <2>2, <2>4, <2>5, <2>6, <2>7, BuiltRow
<1> QED
  BY <1>1, <1>2

\* More rows breach at least as much.
LEMMA BreachMonotone ==
  ASSUME NEW S, NEW T, S \subseteq T, NEW p, Breached(S, p)
  PROVE Breached(T, p)
BY DEF Breached, Breaches, Evaluated

----------------------------------------------------------------------------
(***************************************************************************)
(* Type correctness of a step.                                             *)
(***************************************************************************)
LEMMA TypeInit == Init => TypeOK
BY GovernanceAssumption DEF Init, TypeOK, MaxClock

LEMMA TypeStep == TypeOK /\ DecisionTimes /\ AuditTimes /\ [Next]_vars => TypeOK'
<1> SUFFICES ASSUME TypeOK, DecisionTimes, AuditTimes, [Next]_vars PROVE TypeOK'
  OBVIOUS
<1> USE GovernanceAssumption
<1>1. ASSUME NEW o \in Officer, DecideStart(o) PROVE TypeOK'
  <2>1. PICK s \in Score, d \in Choice :
          deciding' = [deciding EXCEPT ![o] =
              [score |-> s, officer |-> o, decision |-> d,
               is_override |-> IsOverride(d, Recommendation[s]), created_at |-> clock']]
    BY <1>1 DEF DecideStart
  <2>2. IsOverride(d, Recommendation[s]) \in BOOLEAN
    BY DEF IsOverride
  <2>3. clock' = clock + 1 /\ clock' \in 1..MaxClock /\ clock' - audits \in 0..MaxDecisions
    BY <1>1 DEF DecideStart, Tick, TypeOK, MaxClock
  <2>4. d \in OfficerDecision
    OBVIOUS
  <2>5. deciding' \in [Officer -> Entry \cup {Null}]
    <3> DEFINE e == [score |-> s, officer |-> o, decision |-> d,
                     is_override |-> IsOverride(d, Recommendation[s]), created_at |-> clock']
    <3>1. e \in Entry
      BY <2>2, <2>3, <2>4 DEF Entry
    <3> HIDE DEF e
    <3>2. deciding' = [deciding EXCEPT ![o] = e]
      BY <2>1 DEF e
    <3> QED
      BY <3>1, <3>2 DEF TypeOK
  <2> QED
    BY <1>1, <2>3, <2>5 DEF TypeOK, DecideStart, portfolio
<1>2. ASSUME NEW o \in Officer, DecideCommit(o) PROVE TypeOK'
  <2>1. deciding[o] \in Entry /\ deciding[o].decision \in OfficerDecision
    BY <1>2 DEF DecideCommit, TypeOK, Entry
  <2>2. mirror' \in [Application -> REDecision \cup {Null}]
    BY <1>2, <2>1 DEF DecideCommit, TypeOK, REDecision
  <2> QED
    BY <1>2, <2>1, <2>2 DEF TypeOK, DecideCommit, Overtake
<1>3. ASSUME NEW a \in Application, Submit(a) PROVE TypeOK'
  BY <1>3 DEF Submit, Overtake, TypeOK, REDecision, OfficerDecision
<1>4. ASSUME NEW a \in Application, Callback(a) PROVE TypeOK'
  BY <1>4 DEF Callback, TypeOK
<1>5. ASSUME NEW w \in Auditor, AuditStart(w) PROVE TypeOK'
  <2>1. /\ clock' = clock + 1 /\ audits' = audits + 1 /\ clock' \in 1..MaxClock
        /\ audits' \in 0..MaxAudits /\ clock' - audits' \in 0..MaxDecisions
    BY <1>5 DEF AuditStart, Tick, TypeOK, MaxClock
  <2>2. PICK p \in Period : auditing' = [auditing EXCEPT ![w] =
              [period |-> p, computed_at |-> clock', next |-> 1, rows |-> {}]]
    BY <1>5 DEF AuditStart
  <2> QED
    BY <1>5, <2>1, <2>2 DEF TypeOK, AuditStart, portfolio
<1>6. ASSUME NEW w \in Auditor, AuditRead(w) PROVE TypeOK'
  <2>0. auditing[w] # Null /\ auditing[w].next \in 1..(Len(Dimensions) + 1)
    BY <1>6 DEF AuditRead, TypeOK
  <2>1. NewRows(w) \subseteq Row
    <3>1. ASSUME NEW r \in NewRows(w) PROVE r \in Row
      BY <2>0, RowsAreSound
    <3> QED
      BY <3>1
  <2>2. auditing' = [auditing EXCEPT ![w] =
          [auditing[w] EXCEPT !.rows = auditing[w].rows \cup NewRows(w), !.next = auditing[w].next + 1]]
    BY <1>6 DEF AuditRead
  <2>3. auditing[w] \in [period : Period, computed_at : 1..MaxClock,
                         next : 1..(Len(Dimensions) + 2), rows : SUBSET Row]
    BY <1>6 DEF AuditRead, TypeOK
  <2>4. [auditing[w] EXCEPT !.rows = auditing[w].rows \cup NewRows(w), !.next = auditing[w].next + 1]
          \in [period : Period, computed_at : 1..MaxClock,
               next : 1..(Len(Dimensions) + 2), rows : SUBSET Row]
    <3>1. Len(Dimensions) \in Nat
      OBVIOUS
    <3>2. auditing[w].next + 1 \in 1..(Len(Dimensions) + 2)
      BY <2>0, <3>1
    <3>3. auditing[w].rows \cup NewRows(w) \in SUBSET Row
      BY <2>1, <2>3
    <3> QED
      BY <2>3, <3>2, <3>3
  <2>5. auditing' \in [Auditor -> [period : Period, computed_at : 1..MaxClock,
                                   next : 1..(Len(Dimensions) + 2), rows : SUBSET Row] \cup {Null}]
    BY <2>2, <2>4 DEF TypeOK
  <2> QED
    BY <1>6, <2>5 DEF TypeOK, AuditRead, portfolio
<1>7. ASSUME NEW w \in Auditor, AuditCommit(w) PROVE TypeOK'
  <2>1. auditing[w].rows \subseteq Row /\ \A r \in auditing[w].rows : Sound(r)
    BY <1>7 DEF AuditCommit, TypeOK, AuditTimes
  <2>2. \A r \in table' : r \in Row /\ (r.status = "OK" <=> r.sample_size >= MinSample)
    BY <1>7, <2>1 DEF AuditCommit, TypeOK, Sound
  <2> QED
    BY <1>7, <2>2 DEF AuditCommit, TypeOK, portfolio
<1>8. ASSUME NEW g \in Gate, GatePeriod(g) PROVE TypeOK'
  <2> DEFINE newest == (CHOOSE q \in LastAudit : TRUE).computed_at
  <2>1. ASSUME NEW r \in Newest(table)
        PROVE newest \in 0..MaxClock /\ r.period \in Period
    <3>1. LastAudit # {} /\ LastAudit \subseteq Row /\ r \in Row
      BY DEF LastAudit, Newest, TypeOK
    <3>2. (CHOOSE q \in LastAudit : TRUE) \in Row
      BY <3>1
    <3> QED
      BY <3>1, <3>2 DEF Row
  <2> HIDE DEF newest
  <2>2. \/ \E r \in Newest(table) :
              gating' = [gating EXCEPT ![g] = [@ EXCEPT !.step = "rows", !.period = r.period,
                                                        !.newest = newest]]
        \/ gating' = [gating EXCEPT ![g].step = "done"]
        \/ \E p \in Period : gating' = [gating EXCEPT ![g] = [@ EXCEPT !.step = "rows", !.period = p]]
    BY <1>8 DEF GatePeriod, newest
  <2>3. gating' \in [Gate -> [step : {"idle", "rows", "done"}, period : Period \cup {Null},
                              newest : 0..MaxClock, passed : BOOLEAN]]
    <3> DEFINE G == [step : {"idle", "rows", "done"}, period : Period \cup {Null},
                     newest : 0..MaxClock, passed : BOOLEAN]
    <3>1. gating[g] \in G
      BY DEF TypeOK
    <3>2. ASSUME NEW p \in Period, NEW n \in 0..MaxClock
          PROVE /\ [gating[g] EXCEPT !.step = "rows", !.period = p, !.newest = n] \in G
                /\ [gating[g] EXCEPT !.step = "rows", !.period = p] \in G
      BY <3>1
    <3>3. [gating[g] EXCEPT !.step = "done"] \in G
      BY <3>1
    <3>4. \E x \in G : gating' = [gating EXCEPT ![g] = x]
      <4>1. CASE \E r \in Newest(table) :
              gating' = [gating EXCEPT ![g] = [@ EXCEPT !.step = "rows", !.period = r.period,
                                                        !.newest = newest]]
        BY <2>1, <3>2, <4>1
      <4>2. CASE gating' = [gating EXCEPT ![g].step = "done"]
        BY <3>3, <4>2
      <4>3. CASE \E p \in Period : gating' = [gating EXCEPT ![g] = [@ EXCEPT !.step = "rows", !.period = p]]
        <5>1. PICK p \in Period : gating' = [gating EXCEPT ![g] = [@ EXCEPT !.step = "rows", !.period = p]]
          BY <4>3
        <5> QED
          BY <2>1, <3>2, <5>1 DEF TypeOK
      <4> QED
        BY <2>2, <4>1, <4>2, <4>3
    <3> QED
      BY <3>4 DEF TypeOK
  <2> QED
    BY <1>8, <2>3 DEF GatePeriod, TypeOK, portfolio
<1>9. ASSUME NEW g \in Gate, GateVerdict(g) PROVE TypeOK'
  <2> DEFINE G == [step : {"idle", "rows", "done"}, period : Period \cup {Null},
                   newest : 0..MaxClock, passed : BOOLEAN]
  <2>1. PICK passed \in BOOLEAN :
           gating' = [gating EXCEPT ![g] = [gating[g] EXCEPT !.step = "done", !.passed = passed]]
    BY <1>9 DEF GateVerdict
  <2>2. gating[g] \in G
    BY DEF TypeOK
  <2>3. [gating[g] EXCEPT !.step = "done", !.passed = passed] \in G
    BY <2>2
  <2>4. gating' \in [Gate -> G]
    BY <2>1, <2>3 DEF TypeOK
  <2> QED
    BY <1>9, <2>4 DEF GateVerdict, TypeOK, portfolio
<1>10. ASSUME NEW v \in View, BoardRead(v) PROVE TypeOK'
  <2>1. PICK i \in 1..Len(CountOrder(v)) :
           board' = [board EXCEPT ![v][CountOrder(v)[i]] = Cardinality(CountedSet(CountOrder(v)[i]))]
    BY <1>10 DEF BoardRead
  <2>2. CountOrder(v)[i] \in CountNames
    BY DEF CountOrder, CountNames
  <2>3. Cardinality(CountedSet(CountOrder(v)[i])) \in Nat
    BY <2>2, CountsAreFinite
  <2> QED
    BY <1>10, <2>1, <2>2, <2>3 DEF BoardRead, TypeOK, portfolio
<1>11. CASE UNCHANGED vars
  BY <1>11 DEF vars, TypeOK
<1> QED
  BY <1>1, <1>2, <1>3, <1>4, <1>5, <1>6, <1>7, <1>8, <1>9, <1>10, <1>11 DEF Next

----------------------------------------------------------------------------
(***************************************************************************)
(* The rest of the invariant.                                              *)
(***************************************************************************)
LEMMA InvInit == Init => DecisionTimes /\ AuditTimes /\ Gated /\ Counted
<1> SUFFICES ASSUME Init PROVE DecisionTimes /\ AuditTimes /\ Gated /\ Counted
  OBVIOUS
<1>1. DecisionTimes
  BY FS_EmptySet DEF Init, DecisionTimes
<1>2. AuditTimes
  BY DEF Init, AuditTimes
<1>3. Gated
  BY DEF Init, Gated
<1>4. Counted
  BY DEF Init, Counted, InOrder, Portfolio, Charts, OverrideRateSound, OvertakenOnly, AtMostOne,
         CountNames, View
<1> QED
  BY <1>1, <1>2, <1>3, <1>4

\* The clock never goes back, and only a commit of a decision changes the log.
LEMMA Frame ==
  ASSUME TypeOK, [Next]_vars
  PROVE /\ clock' \in Nat /\ clock <= clock'
        /\ \/ \E o \in Officer : DecideStart(o) \/ DecideCommit(o)
           \/ UNCHANGED <<log, deciding>>
        /\ \/ \E w \in Auditor : AuditStart(w) \/ AuditRead(w) \/ AuditCommit(w)
           \/ UNCHANGED <<table, auditing>>
        /\ \/ \E w \in Auditor : AuditCommit(w)
           \/ \E g \in Gate : GatePeriod(g) \/ GateVerdict(g)
           \/ UNCHANGED <<table, gating>>
        /\ \/ \E o \in Officer : DecideCommit(o)
           \/ \E a \in Application : Submit(a)
           \/ \E v \in View : BoardRead(v)
           \/ UNCHANGED <<log, applied, board, overtaken>>
<1>1. ASSUME NEW o \in Officer, DecideStart(o) PROVE clock' = clock + 1 /\ UNCHANGED <<log, table, auditing, gating, applied, board, overtaken>>
  BY <1>1 DEF DecideStart, Tick, portfolio
<1>2. ASSUME NEW o \in Officer, DecideCommit(o) PROVE UNCHANGED <<clock, table, auditing, gating>>
  BY <1>2 DEF DecideCommit
<1>3. ASSUME NEW a \in Application, Submit(a) PROVE UNCHANGED <<log, clock, deciding, auditing, table, gating>>
  BY <1>3 DEF Submit
<1>11. ASSUME NEW a \in Application, Callback(a) PROVE UNCHANGED <<log, clock, deciding, auditing, table, gating, applied, board, overtaken>>
  BY <1>11 DEF Callback
<1>4. ASSUME NEW w \in Auditor, AuditStart(w) PROVE clock' = clock + 1 /\ UNCHANGED <<log, deciding, table, gating, applied, board, overtaken>>
  BY <1>4 DEF AuditStart, Tick, portfolio
<1>5. ASSUME NEW w \in Auditor, AuditRead(w) PROVE UNCHANGED <<log, clock, deciding, table, gating, applied, board, overtaken>>
  BY <1>5 DEF AuditRead, portfolio
<1>6. ASSUME NEW w \in Auditor, AuditCommit(w) PROVE UNCHANGED <<log, clock, deciding, gating, applied, board, overtaken>>
  BY <1>6 DEF AuditCommit, portfolio
<1>7. ASSUME NEW g \in Gate, GatePeriod(g) \/ GateVerdict(g) PROVE UNCHANGED <<log, clock, deciding, auditing, table, applied, board, overtaken>>
  BY <1>7 DEF GatePeriod, GateVerdict, portfolio
<1>8. ASSUME NEW v \in View, BoardRead(v) PROVE UNCHANGED <<log, clock, deciding, auditing, table, gating>>
  BY <1>8 DEF BoardRead, portfolio
<1>9. CASE UNCHANGED vars
  BY <1>9 DEF vars, TypeOK
<1>10. clock \in Nat
  BY DEF TypeOK
<1> QED
  BY <1>1, <1>2, <1>3, <1>4, <1>5, <1>6, <1>7, <1>8, <1>9, <1>10, <1>11 DEF Next

LEMMA DecisionTimesStep == TypeOK /\ DecisionTimes /\ [Next]_vars => DecisionTimes'
<1> SUFFICES ASSUME TypeOK, DecisionTimes, [Next]_vars PROVE DecisionTimes'
  OBVIOUS
<1>1. clock \in Nat /\ clock' \in Nat /\ clock <= clock'
  BY Frame DEF TypeOK
<1>2. \A e \in log : e.created_at \in Nat
  BY DEF TypeOK, Entry, MaxClock
<1>3. \A o \in Officer : deciding[o] # Null => deciding[o].created_at \in Nat
  BY DEF TypeOK, Entry, MaxClock
<1>4. ASSUME NEW o \in Officer, DecideStart(o) PROVE DecisionTimes'
  <2>1. clock' = clock + 1 /\ log' = log
    BY <1>4 DEF DecideStart, Tick, portfolio
  <2>2. deciding'[o].created_at = clock' /\ \A p \in Officer \ {o} : deciding'[p] = deciding[p]
    BY <1>4 DEF DecideStart, TypeOK
  <2>3. /\ IsFiniteSet(log')
        /\ \A e \in log' : e.created_at <= clock'
        /\ \A e, f \in log' : e.created_at = f.created_at => e = f
    BY <1>1, <1>2, <2>1 DEF DecisionTimes
  <2>4. ASSUME NEW p \in Officer, deciding'[p] # Null
        PROVE /\ deciding'[p].created_at <= clock'
              /\ \A e \in log' : e.created_at # deciding'[p].created_at
              /\ \A q \in Officer : deciding'[q] # Null /\ q # p =>
                    deciding'[q].created_at # deciding'[p].created_at
    BY <1>1, <1>2, <1>3, <2>1, <2>2, <2>4 DEF DecisionTimes
  <2> QED
    BY <2>3, <2>4 DEF DecisionTimes
<1>5. ASSUME NEW o \in Officer, DecideCommit(o) PROVE DecisionTimes'
  <2>1. /\ log' = log \cup {deciding[o]} /\ deciding[o] # Null /\ clock' = clock
        /\ deciding'[o] = Null /\ \A p \in Officer \ {o} : deciding'[p] = deciding[p]
    BY <1>5 DEF DecideCommit, TypeOK
  <2>2. IsFiniteSet(log')
    BY <2>1, FS_AddElement DEF DecisionTimes
  <2> QED
    BY <2>1, <2>2 DEF DecisionTimes
<1>6. CASE UNCHANGED <<log, deciding>>
  BY <1>1, <1>2, <1>3, <1>6 DEF DecisionTimes
<1> QED
  BY <1>4, <1>5, <1>6, Frame

LEMMA AuditTimesStep ==
  TypeOK /\ DecisionTimes /\ AuditTimes /\ [Next]_vars => AuditTimes'
<1> SUFFICES ASSUME TypeOK, DecisionTimes, AuditTimes, [Next]_vars PROVE AuditTimes'
  OBVIOUS
<1>1. clock \in Nat /\ clock' \in Nat /\ clock <= clock'
  BY Frame DEF TypeOK
<1>2. \A r \in table : r.computed_at \in Nat
  BY DEF TypeOK, Row, MaxClock
<1>3. \A w \in Auditor : auditing[w] # Null => auditing[w].computed_at \in Nat
  BY DEF TypeOK, MaxClock
<1>4. ASSUME NEW w \in Auditor, AuditStart(w) PROVE AuditTimes'
  <2>1. clock' = clock + 1 /\ table' = table
    BY <1>4 DEF AuditStart, Tick
  <2>2. /\ auditing'[w].computed_at = clock' /\ auditing'[w].rows = {}
        /\ \A v \in Auditor \ {w} : auditing'[v] = auditing[v]
    BY <1>4 DEF AuditStart, TypeOK
  <2>3. /\ \A r \in table' : r.computed_at <= clock' /\ Sound(r)
        /\ \A q, r \in table' : q.computed_at = r.computed_at => q.period = r.period
    BY <1>1, <1>2, <2>1 DEF AuditTimes
  <2>4. ASSUME NEW v \in Auditor, auditing'[v] # Null
        PROVE /\ auditing'[v].computed_at <= clock'
              /\ \A r \in table' : r.computed_at # auditing'[v].computed_at
              /\ \A u \in Auditor : auditing'[u] # Null /\ u # v =>
                    auditing'[u].computed_at # auditing'[v].computed_at
              /\ \A r \in auditing'[v].rows :
                    /\ Sound(r)
                    /\ r.computed_at = auditing'[v].computed_at
                    /\ r.period = auditing'[v].period
    BY <1>1, <1>2, <1>3, <2>1, <2>2, <2>4 DEF AuditTimes
  <2> QED
    BY <2>3, <2>4 DEF AuditTimes, Sound
<1>5. ASSUME NEW w \in Auditor, AuditRead(w) PROVE AuditTimes'
  <2>1. /\ table' = table /\ clock' = clock
        /\ auditing[w] # Null /\ auditing[w].next \in 1..(Len(Dimensions) + 1)
    BY <1>5 DEF AuditRead, TypeOK
  <2>2. auditing[w] \in [period : Period, computed_at : 1..MaxClock,
                         next : 1..(Len(Dimensions) + 2), rows : SUBSET Row]
    BY <2>1 DEF TypeOK
  <2>3. /\ auditing'[w] # Null => auditing'[w].computed_at = auditing[w].computed_at
        /\ auditing'[w].period = auditing[w].period
        /\ auditing'[w].rows = auditing[w].rows \cup NewRows(w)
        /\ \A v \in Auditor \ {w} : auditing'[v] = auditing[v]
    BY <1>5, <2>2 DEF AuditRead, TypeOK
  <2>4. ASSUME NEW r \in auditing'[w].rows
        PROVE Sound(r) /\ r.computed_at = auditing[w].computed_at /\ r.period = auditing[w].period
    <3>1. CASE r \in auditing[w].rows
      BY <2>1, <3>1 DEF AuditTimes
    <3>2. CASE r \in NewRows(w)
      BY <2>1, <3>2, RowsAreSound
    <3> QED
      BY <2>3, <3>1, <3>2
  <2>5. ASSUME NEW v \in Auditor, auditing'[v] # Null
        PROVE /\ auditing[v] # Null
              /\ auditing'[v].computed_at = auditing[v].computed_at
              /\ \A r \in auditing'[v].rows :
                    /\ Sound(r)
                    /\ r.computed_at = auditing'[v].computed_at
                    /\ r.period = auditing'[v].period
    <3>1. CASE v = w
      BY <2>1, <2>3, <2>4, <2>5, <3>1
    <3>2. CASE v # w
      BY <2>3, <2>5, <3>2 DEF AuditTimes
    <3> QED
      BY <3>1, <3>2
  <2>6. /\ \A r \in table' : r.computed_at <= clock' /\ Sound(r)
        /\ \A q, r \in table' : q.computed_at = r.computed_at => q.period = r.period
    BY <2>1 DEF AuditTimes
  <2>7. ASSUME NEW v \in Auditor, auditing'[v] # Null
        PROVE /\ auditing'[v].computed_at <= clock'
              /\ \A r \in table' : r.computed_at # auditing'[v].computed_at
              /\ \A u \in Auditor : auditing'[u] # Null /\ u # v =>
                    auditing'[u].computed_at # auditing'[v].computed_at
    BY <2>1, <2>5, <2>7 DEF AuditTimes
  <2> QED
    BY <2>5, <2>6, <2>7 DEF AuditTimes, Sound
<1>6. ASSUME NEW w \in Auditor, AuditCommit(w) PROVE AuditTimes'
  <2>1. /\ table' = table \cup auditing[w].rows /\ auditing[w] # Null /\ clock' = clock
        /\ auditing'[w] = Null /\ \A v \in Auditor \ {w} : auditing'[v] = auditing[v]
    BY <1>6 DEF AuditCommit, TypeOK
  <2>2. ASSUME NEW r \in auditing[w].rows
        PROVE /\ Sound(r) /\ r.computed_at <= clock
              /\ r.computed_at = auditing[w].computed_at /\ r.period = auditing[w].period
    BY <2>1 DEF AuditTimes
  <2>3. /\ \A r \in table' : r.computed_at <= clock' /\ Sound(r)
        /\ \A q, r \in table' : q.computed_at = r.computed_at => q.period = r.period
    BY <2>1, <2>2 DEF AuditTimes
  <2>4. ASSUME NEW v \in Auditor, auditing'[v] # Null
        PROVE /\ auditing'[v].computed_at <= clock'
              /\ \A r \in table' : r.computed_at # auditing'[v].computed_at
              /\ \A u \in Auditor : auditing'[u] # Null /\ u # v =>
                    auditing'[u].computed_at # auditing'[v].computed_at
              /\ \A r \in auditing'[v].rows :
                    /\ Sound(r)
                    /\ r.computed_at = auditing'[v].computed_at
                    /\ r.period = auditing'[v].period
    BY <2>1, <2>2, <2>4 DEF AuditTimes
  <2> QED
    BY <2>3, <2>4 DEF AuditTimes, Sound
<1>7. CASE UNCHANGED <<table, auditing>>
  BY <1>1, <1>2, <1>3, <1>7 DEF AuditTimes, Sound
<1> QED
  BY <1>4, <1>5, <1>6, <1>7, Frame

LEMMA GatedStep == TypeOK /\ AuditTimes /\ Gated /\ [Next]_vars => Gated'
<1> SUFFICES ASSUME TypeOK, AuditTimes, Gated, [Next]_vars PROVE Gated'
  OBVIOUS
<1>1. \A r \in table : r.computed_at \in Nat \ {0}
  BY DEF TypeOK, Row, MaxClock
<1>2. ASSUME NEW w \in Auditor, AuditCommit(w) PROVE Gated'
  <2>1. table' = table \cup auditing[w].rows /\ auditing[w] # Null /\ gating' = gating
    BY <1>2 DEF AuditCommit
  <2>2. \A r \in auditing[w].rows, q \in table : r.computed_at # q.computed_at
    BY <2>1 DEF AuditTimes
  <2>3. ASSUME NEW g \in Gate, gating[g].newest # 0
        PROVE /\ \E r \in table' : r.computed_at = gating[g].newest /\ r.period = gating[g].period
              /\ {r \in table' : r.computed_at = gating[g].newest}
                    = {r \in table : r.computed_at = gating[g].newest}
    <3>1. PICK q \in table : q.computed_at = gating[g].newest /\ q.period = gating[g].period
      BY <2>3 DEF Gated
    <3> QED
      BY <2>1, <2>2, <3>1
  <2> QED
    BY <2>1, <2>3 DEF Gated, Breached, Breaches, Evaluated
<1>3. ASSUME NEW g \in Gate, GatePeriod(g) PROVE Gated'
  <2> DEFINE newest == (CHOOSE q \in LastAudit : TRUE).computed_at
  <2>1. ASSUME NEW r \in Newest(table) PROVE r \in table /\ r.computed_at = newest
    <3>1. r \in LastAudit /\ r \in table
      BY DEF Newest, LastAudit
    <3>2. (CHOOSE q \in LastAudit : TRUE) \in LastAudit
      BY <3>1
    <3>3. newest <= r.computed_at /\ r.computed_at <= newest /\ newest \in Nat
      BY <1>1, <3>1, <3>2 DEF LastAudit
    <3> QED
      BY <1>1, <3>1, <3>3
  <2> HIDE DEF newest
  <2>2. gating[g].newest = 0 /\ gating[g].passed = FALSE /\ table' = table
    BY <1>3 DEF GatePeriod, Gated, TypeOK
  <2>3. \A h \in Gate \ {g} : gating'[h] = gating[h]
    BY <1>3 DEF GatePeriod, TypeOK
  <2>4. /\ gating'[g].step # "idle" /\ gating'[g].passed = FALSE
        /\ \/ gating'[g].newest = 0
           \/ \E r \in Newest(table) : gating'[g].newest = newest /\ gating'[g].period = r.period
    <3> DEFINE G == [step : {"idle", "rows", "done"}, period : Period \cup {Null},
                     newest : 0..MaxClock, passed : BOOLEAN]
    <3>1. gating \in [Gate -> G] /\ gating[g] \in G
      BY DEF TypeOK
    <3>2. CASE \E r \in Newest(table) :
             gating' = [gating EXCEPT ![g] = [@ EXCEPT !.step = "rows", !.period = r.period,
                                                       !.newest = newest]]
      BY <2>2, <3>1, <3>2
    <3>3. CASE gating' = [gating EXCEPT ![g].step = "done"]
      BY <2>2, <3>1, <3>3
    <3>4. CASE \E p \in Period : gating' = [gating EXCEPT ![g] = [@ EXCEPT !.step = "rows", !.period = p]]
      BY <2>2, <3>1, <3>4
    <3> QED
      BY <1>3, <3>2, <3>3, <3>4 DEF GatePeriod, newest
  <2>5. gating'[g].newest # 0 =>
           \E r \in table' : r.computed_at = gating'[g].newest /\ r.period = gating'[g].period
    BY <2>1, <2>2, <2>4
  <2> QED
    BY <2>2, <2>3, <2>4, <2>5 DEF Gated, Breached, Breaches, Evaluated
<1>4. ASSUME NEW g \in Gate, GateVerdict(g) PROVE Gated'
  <2>1. PICK passed \in BOOLEAN :
          /\ passed <=> ~Breached(table, gating[g].period)
          /\ gating' = [gating EXCEPT ![g] = [gating[g] EXCEPT !.step = "done", !.passed = passed]]
    BY <1>4 DEF GateVerdict
  <2>2. table' = table /\ \A h \in Gate \ {g} : gating'[h] = gating[h]
    BY <1>4, <2>1 DEF GateVerdict, TypeOK
  <2>3. /\ gating'[g].step = "done" /\ gating'[g].passed = passed
        /\ gating'[g].newest = gating[g].newest /\ gating'[g].period = gating[g].period
    BY <2>1 DEF TypeOK
  <2>4. passed => ~Breached({r \in table : r.computed_at = gating[g].newest}, gating[g].period)
    BY <2>1, BreachMonotone
  <2> QED
    BY <2>2, <2>3, <2>4 DEF Gated, Breached, Breaches, Evaluated
<1>5. CASE UNCHANGED <<table, gating>>
  BY <1>5 DEF Gated, Breached, Breaches, Evaluated
<1> QED
  BY <1>2, <1>3, <1>4, <1>5, Frame

\* A view that has counted the whole and not the part is being read.
LEMMA BetweenCounts ==
  /\ Portfolio.applications_total # Null /\ Portfolio.applications_approved = Null
     => Reading("portfolio_metrics")
  /\ Charts.officer_decisions_total # Null /\ Charts.officer_override_count = Null
     => Reading("_get_officer_charts")
<1>1. /\ CountOrder("portfolio_metrics")[1] = "applications_total"
      /\ CountOrder("portfolio_metrics")[2] = "applications_approved"
      /\ 1 \in 1..Len(CountOrder("portfolio_metrics"))
      /\ 2 \in 1..Len(CountOrder("portfolio_metrics"))
  BY DEF CountOrder
<1>2. /\ CountOrder("_get_officer_charts")[1] = "officer_decisions_total"
      /\ CountOrder("_get_officer_charts")[2] = "officer_override_count"
      /\ 1 \in 1..Len(CountOrder("_get_officer_charts"))
      /\ 2 \in 1..Len(CountOrder("_get_officer_charts"))
  BY DEF CountOrder
<1> QED
  BY <1>1, <1>2 DEF Reading, Portfolio, Charts

\* A commit of a decision or of an application overtakes what is being read.
LEMMA OvertakingStep ==
  ASSUME TypeOK, Counted, Overtake, board' = board,
         Cardinality(Overriding) \in Nat, Cardinality(Overriding') \in Nat,
         Cardinality(Overriding) <= Cardinality(Overriding')
  PROVE Counted'
<1>1. overtaken \subseteq overtaken'
  BY DEF Overtake
<1>2. Portfolio' = Portfolio /\ Charts' = Charts
  BY DEF Portfolio, Charts
<1>3. InOrder'
  BY <1>2 DEF Counted, InOrder
<1>4. OverrideRateSound' /\ OvertakenOnly'
  BY <1>1 DEF Counted, OverrideRateSound, OvertakenOnly, AtMostOne
<1>5. /\ Portfolio.applications_total # Null /\ Portfolio.applications_approved = Null
         => "portfolio_metrics" \in overtaken'
      /\ Charts.officer_decisions_total # Null /\ Charts.officer_override_count = Null
         => "_get_officer_charts" \in overtaken'
  BY BetweenCounts DEF Overtake, View
<1>6. Portfolio.officer_override_count # Null =>
         /\ Portfolio.officer_override_count \in Nat
         /\ Portfolio.officer_override_count <= Cardinality(Overriding)
  BY DEF Counted, Portfolio, TypeOK, View, CountNames
<1>7. Portfolio.officer_override_count # Null =>
         Portfolio.officer_override_count <= Cardinality(Overriding')
  BY <1>6
<1>8. Cardinality(Overriding)' = Cardinality(Overriding')
  OBVIOUS
<1> QED
  BY <1>2, <1>3, <1>4, <1>5, <1>7, <1>8 DEF Counted

LEMMA PortfolioStep ==
  ASSUME TypeOK, DecisionTimes, Counted, BoardRead("portfolio_metrics")
  PROVE Counted'
<1>1. PICK i \in 1..4 :
        /\ Portfolio[CountOrder("portfolio_metrics")[i]] = Null
        /\ \A j \in 1..(i - 1) : Portfolio[CountOrder("portfolio_metrics")[j]] # Null
        /\ board' = [board EXCEPT !["portfolio_metrics"][CountOrder("portfolio_metrics")[i]] =
                        Cardinality(CountedSet(CountOrder("portfolio_metrics")[i]))]
  BY DEF BoardRead, CountOrder, Portfolio
<1>2. /\ CountOrder("portfolio_metrics")[1] = "applications_total"
      /\ CountOrder("portfolio_metrics")[2] = "applications_approved"
      /\ CountOrder("portfolio_metrics")[3] = "officer_override_count"
      /\ CountOrder("portfolio_metrics")[4] = "officer_decisions_total"
  BY DEF CountOrder
<1> DEFINE name == CountOrder("portfolio_metrics")[i]
<1>3. UNCHANGED <<log, applied, overtaken>> /\ Overriding' = Overriding
  BY DEF BoardRead, portfolio, Overriding
<1>4. board \in [View -> [CountNames -> Nat \cup {Null}]] /\ "portfolio_metrics" \in View
  BY DEF TypeOK, View
<1>5. name \in CountNames
  BY <1>2 DEF CountNames
<1>6. /\ Portfolio' = [Portfolio EXCEPT ![name] = Cardinality(CountedSet(name))]
      /\ Charts' = Charts
  BY <1>1, <1>4 DEF Portfolio, Charts, View
<1>7. Portfolio \in [CountNames -> Nat \cup {Null}]
  BY <1>4 DEF Portfolio
<1>8. /\ \A n \in CountNames : Cardinality(CountedSet(n)) \in Nat
      /\ Cardinality(CountedSet("applications_approved")) <= Cardinality(applied)
      /\ Cardinality(Overriding) \in Nat /\ Cardinality(Overriding) <= Cardinality(log)
  BY CountsAreFinite
<1>9. Charts.applications_total = Null /\ Charts.applications_approved = Null
  BY DEF Counted, InOrder
\* What is left to show, in terms of the two records.
<1>10. SUFFICES
         /\ InOrder'
         /\ Portfolio'.officer_override_count # Null =>
               Portfolio'.officer_override_count <= Cardinality(Overriding)
         /\ /\ "portfolio_metrics" \notin overtaken
            /\ Portfolio'.applications_total # Null /\ Portfolio'.applications_approved = Null
            => Portfolio'.applications_total = Cardinality(applied)
         /\ /\ Portfolio'.officer_override_count # Null
            /\ Portfolio'.officer_decisions_total # Null
            => Portfolio'.officer_override_count <= Portfolio'.officer_decisions_total
         /\ /\ "portfolio_metrics" \notin overtaken
            /\ Portfolio'.applications_approved # Null /\ Portfolio'.applications_total # Null
            => Portfolio'.applications_approved <= Portfolio'.applications_total
  <2>1. OverrideRateSound'
    BY <1>10 DEF OverrideRateSound, AtMostOne, Portfolio
  <2>2. OvertakenOnly'
    BY <1>3, <1>6, <1>10 DEF OvertakenOnly, AtMostOne, Portfolio, Charts, View, Counted
  <2> QED
    BY <1>3, <1>6, <1>10, <2>1, <2>2 DEF Counted
<1>11. /\ Portfolio.officer_override_count # Null => Portfolio.officer_override_count \in Nat
       /\ Portfolio.officer_override_count # Null /\ Portfolio.officer_decisions_total # Null
             => Portfolio.officer_override_count <= Portfolio.officer_decisions_total
       /\ "portfolio_metrics" \notin overtaken
             /\ Portfolio.applications_approved # Null /\ Portfolio.applications_total # Null
             => Portfolio.applications_approved <= Portfolio.applications_total
  <2>1. Portfolio.officer_override_count \in Nat \cup {Null}
    BY <1>7 DEF CountNames
  <2> QED
    BY <2>1, <1>4 DEF Counted, OverrideRateSound, OvertakenOnly, AtMostOne, Portfolio
<1>12. CASE i = 1
  <2>1. Portfolio' = [Portfolio EXCEPT !["applications_total"] = Cardinality(applied)]
    BY <1>2, <1>6, <1>12 DEF CountedSet
  <2>2. Portfolio.applications_total = Null
    BY <1>1, <1>2, <1>12
  <2>3. /\ Portfolio.applications_approved = Null /\ Portfolio.officer_override_count = Null
        /\ Portfolio.officer_decisions_total = Null
    BY <2>2 DEF Counted, InOrder
  <2>4. /\ Portfolio'.applications_total = Cardinality(applied)
        /\ Portfolio'.applications_approved = Null /\ Portfolio'.officer_override_count = Null
        /\ Portfolio'.officer_decisions_total = Null
    BY <1>7, <2>1, <2>3 DEF CountNames
  <2> QED
    BY <1>6, <1>9, <2>4 DEF InOrder, Counted
<1>13. CASE i = 2
  <2> DEFINE n == Cardinality(CountedSet("applications_approved"))
  <2>1. Portfolio' = [Portfolio EXCEPT !["applications_approved"] = n]
    BY <1>2, <1>6, <1>13
  <2>2. Portfolio.applications_approved = Null /\ Portfolio.applications_total # Null
    BY <1>1, <1>2, <1>13
  <2>3. Portfolio.officer_override_count = Null /\ Portfolio.officer_decisions_total = Null
    BY <2>2 DEF Counted, InOrder
  <2>4. n <= Cardinality(applied)
    BY <1>8
  <2> HIDE DEF n
  <2>5. /\ Portfolio'.applications_total = Portfolio.applications_total
        /\ Portfolio'.applications_approved = n
        /\ Portfolio'.officer_override_count = Null /\ Portfolio'.officer_decisions_total = Null
    BY <1>7, <2>1, <2>3 DEF CountNames
  <2>6. "portfolio_metrics" \notin overtaken =>
           Portfolio.applications_total = Cardinality(applied)
    BY <2>2 DEF Counted
  <2> QED
    BY <1>6, <1>9, <2>2, <2>4, <2>5, <2>6 DEF InOrder, Counted
<1>14. CASE i = 3
  <2>1. Portfolio' = [Portfolio EXCEPT !["officer_override_count"] = Cardinality(Overriding)]
    BY <1>2, <1>6, <1>14 DEF CountedSet, Overriding
  <2>2. Portfolio.officer_override_count = Null /\ Portfolio.applications_approved # Null
    BY <1>1, <1>2, <1>14
  <2>3. Portfolio.officer_decisions_total = Null /\ Portfolio.applications_total # Null
    BY <2>2 DEF Counted, InOrder
  <2>4. /\ Portfolio'.applications_total = Portfolio.applications_total
        /\ Portfolio'.applications_approved = Portfolio.applications_approved
        /\ Portfolio'.officer_override_count = Cardinality(Overriding)
        /\ Portfolio'.officer_decisions_total = Null
    BY <1>7, <2>1, <2>3 DEF CountNames
  <2> QED
    BY <1>6, <1>8, <1>9, <1>11, <2>2, <2>3, <2>4 DEF InOrder, Counted
<1>15. CASE i = 4
  <2>1. Portfolio' = [Portfolio EXCEPT !["officer_decisions_total"] = Cardinality(log)]
    BY <1>2, <1>6, <1>15 DEF CountedSet
  <2>2. /\ Portfolio.officer_override_count # Null /\ Portfolio.applications_approved # Null
        /\ Portfolio.applications_total # Null
    BY <1>1, <1>2, <1>15
  <2>3. /\ Portfolio'.applications_total = Portfolio.applications_total
        /\ Portfolio'.applications_approved = Portfolio.applications_approved
        /\ Portfolio'.officer_override_count = Portfolio.officer_override_count
        /\ Portfolio'.officer_decisions_total = Cardinality(log)
    BY <1>7, <2>1 DEF CountNames
  <2>4. Cardinality(log) \in Nat
    BY LogIsFinite
  <2>5. Portfolio.officer_override_count <= Cardinality(Overriding)
    BY <2>2 DEF Counted
  <2>6. Portfolio.officer_override_count <= Cardinality(log)
    BY <1>8, <1>11, <2>2, <2>4, <2>5
  <2> QED
    BY <1>6, <1>9, <1>11, <2>2, <2>3, <2>5, <2>6 DEF InOrder, Counted
<1> QED
  BY <1>1, <1>12, <1>13, <1>14, <1>15

LEMMA ChartsStep ==
  ASSUME TypeOK, DecisionTimes, Counted, BoardRead("_get_officer_charts")
  PROVE Counted'
<1>1. PICK i \in 1..2 :
        /\ Charts[CountOrder("_get_officer_charts")[i]] = Null
        /\ \A j \in 1..(i - 1) : Charts[CountOrder("_get_officer_charts")[j]] # Null
        /\ board' = [board EXCEPT !["_get_officer_charts"][CountOrder("_get_officer_charts")[i]] =
                        Cardinality(CountedSet(CountOrder("_get_officer_charts")[i]))]
  BY DEF BoardRead, CountOrder, Charts
<1>2. /\ CountOrder("_get_officer_charts")[1] = "officer_decisions_total"
      /\ CountOrder("_get_officer_charts")[2] = "officer_override_count"
  BY DEF CountOrder
<1> DEFINE name == CountOrder("_get_officer_charts")[i]
<1>3. UNCHANGED <<log, applied, overtaken>> /\ Overriding' = Overriding
  BY DEF BoardRead, portfolio, Overriding
<1>4. board \in [View -> [CountNames -> Nat \cup {Null}]] /\ "_get_officer_charts" \in View
  BY DEF TypeOK, View
<1>5. name \in CountNames
  BY <1>2 DEF CountNames
<1>6. /\ Charts' = [Charts EXCEPT ![name] = Cardinality(CountedSet(name))]
      /\ Portfolio' = Portfolio
  BY <1>1, <1>4 DEF Portfolio, Charts, View
<1>7. Charts \in [CountNames -> Nat \cup {Null}]
  BY <1>4 DEF Charts
<1>8. /\ Charts.applications_total = Null /\ Charts.applications_approved = Null
      /\ "_get_officer_charts" \notin overtaken
            /\ Charts.officer_decisions_total # Null /\ Charts.officer_override_count # Null
         => Charts.officer_override_count <= Charts.officer_decisions_total
  BY <1>4 DEF Counted, InOrder, OvertakenOnly, AtMostOne, Charts
<1>9. SUFFICES
         /\ Charts'.applications_total = Null /\ Charts'.applications_approved = Null
         /\ Charts'.officer_override_count # Null => Charts'.officer_decisions_total # Null
         /\ /\ "_get_officer_charts" \notin overtaken
            /\ Charts'.officer_decisions_total # Null /\ Charts'.officer_override_count = Null
            => Charts'.officer_decisions_total = Cardinality(log)
         /\ /\ "_get_officer_charts" \notin overtaken
            /\ Charts'.officer_override_count # Null /\ Charts'.officer_decisions_total # Null
            => Charts'.officer_override_count <= Charts'.officer_decisions_total
  <2>1. InOrder'
    BY <1>6, <1>9 DEF InOrder, Counted
  <2>2. OverrideRateSound'
    BY <1>6 DEF OverrideRateSound, AtMostOne, Portfolio, Counted
  <2>3. OvertakenOnly'
    BY <1>3, <1>6, <1>9 DEF OvertakenOnly, AtMostOne, Portfolio, Charts, View, Counted
  <2> QED
    BY <1>3, <1>6, <1>9, <2>1, <2>2, <2>3 DEF Counted
<1>10. CASE i = 1
  <2>1. Charts' = [Charts EXCEPT !["officer_decisions_total"] = Cardinality(log)]
    BY <1>2, <1>6, <1>10 DEF CountedSet
  <2>2. Charts.officer_decisions_total = Null
    BY <1>1, <1>2, <1>10
  <2>3. Charts.officer_override_count = Null
    BY <2>2 DEF Counted, InOrder
  <2>4. /\ Charts'.officer_decisions_total = Cardinality(log)
        /\ Charts'.officer_override_count = Null
        /\ Charts'.applications_total = Null /\ Charts'.applications_approved = Null
    BY <1>7, <1>8, <2>1, <2>3 DEF CountNames
  <2> QED
    BY <2>4
<1>11. CASE i = 2
  <2>1. Charts' = [Charts EXCEPT !["officer_override_count"] = Cardinality(Overriding)]
    BY <1>2, <1>6, <1>11 DEF CountedSet, Overriding
  <2>2. Charts.officer_override_count = Null /\ Charts.officer_decisions_total # Null
    BY <1>1, <1>2, <1>11
  <2>3. /\ Charts'.officer_decisions_total = Charts.officer_decisions_total
        /\ Charts'.officer_override_count = Cardinality(Overriding)
        /\ Charts'.applications_total = Null /\ Charts'.applications_approved = Null
    BY <1>7, <1>8, <2>1 DEF CountNames
  <2>4. "_get_officer_charts" \notin overtaken => Charts.officer_decisions_total = Cardinality(log)
    BY <2>2 DEF Counted
  <2>5. Cardinality(Overriding) <= Cardinality(log)
    BY CountsAreFinite
  <2> QED
    BY <2>2, <2>3, <2>4, <2>5
<1> QED
  BY <1>1, <1>10, <1>11

LEMMA CountedStep == TypeOK /\ DecisionTimes /\ Counted /\ [Next]_vars => Counted'
<1> SUFFICES ASSUME TypeOK, DecisionTimes, Counted, [Next]_vars PROVE Counted'
  OBVIOUS
<1>1. Cardinality(Overriding) \in Nat
  BY CountsAreFinite
<1>2. ASSUME NEW o \in Officer, DecideCommit(o) PROVE Counted'
  <2>1. log \subseteq log' /\ board' = board /\ Overtake
    BY <1>2 DEF DecideCommit
  <2>2. IsFiniteSet(log')
    BY <1>2, FS_AddElement DEF DecideCommit, DecisionTimes
  <2>3. Overriding \subseteq Overriding' /\ IsFiniteSet(Overriding')
    BY <2>1, <2>2, FS_Subset DEF Overriding
  <2>4. Cardinality(Overriding) <= Cardinality(Overriding') /\ Cardinality(Overriding') \in Nat
    BY <2>3, FS_Subset, FS_CardinalityType
  <2> QED
    BY <1>1, <2>1, <2>4, OvertakingStep
<1>3. ASSUME NEW a \in Application, Submit(a) PROVE Counted'
  <2>1. board' = board /\ Overtake /\ Overriding' = Overriding
    BY <1>3 DEF Submit, Overriding
  <2> QED
    BY <1>1, <2>1, OvertakingStep
<1>4. ASSUME NEW v \in View, BoardRead(v) PROVE Counted'
  BY <1>4, PortfolioStep, ChartsStep DEF View
<1>5. CASE UNCHANGED <<log, applied, board, overtaken>>
  BY <1>5 DEF Counted, InOrder, Portfolio, Charts, Overriding, OverrideRateSound, OvertakenOnly,
              AtMostOne
<1> QED
  BY <1>2, <1>3, <1>4, <1>5, Frame

----------------------------------------------------------------------------
(***************************************************************************)
(* Theorems.                                                               *)
(***************************************************************************)
\* The invariant of governance holds in every reachable state.
THEOREM GovernanceCorrect == Spec => []GovernanceInv
<1>1. Init => GovernanceInv
  BY TypeInit, InvInit DEF GovernanceInv
<1>2. GovernanceInv /\ [Next]_vars => GovernanceInv'
  BY TypeStep, DecisionTimesStep, AuditTimesStep, GatedStep, CountedStep DEF GovernanceInv
<1> QED
  BY <1>1, <1>2, PTL DEF Spec

\* Every state has its type, and a persisted row carries rates exactly if its
\* sample is large enough.
THEOREM GovernanceTypeCorrect == Spec => []TypeOK
<1>1. GovernanceInv => TypeOK
  BY DEF GovernanceInv
<1> QED
  BY <1>1, GovernanceCorrect, PTL

\* No persisted rate leaves the interval from 0 to 1, whatever officers and
\* entities do while an audit counts.
THEOREM RowsSoundCorrect == Spec => []RowsSound
<1>1. GovernanceInv => RowsSound
  BY DEF GovernanceInv, AuditTimes, Sound, RowsSound
<1> QED
  BY <1>1, GovernanceCorrect, PTL

\* The gate does not pass over a breach in the last audit.
THEOREM GateHonestCorrect == Spec => []GateHonest
<1>1. GovernanceInv => GateHonest
  <2> SUFFICES ASSUME GovernanceInv, NEW g \in Gate, gating[g].passed, gating[g].newest # 0,
                      NEW p \in Period
               PROVE ~Breached({r \in table : r.computed_at = gating[g].newest}, p)
    BY DEF GateHonest
  <2> DEFINE rows == {r \in table : r.computed_at = gating[g].newest}
  <2>1. ~Breached(rows, gating[g].period)
    BY DEF GovernanceInv, Gated
  <2>2. \A r \in rows : r.period = gating[g].period
    <3>1. PICK q \in table : q.computed_at = gating[g].newest /\ q.period = gating[g].period
      BY DEF GovernanceInv, Gated
    <3>2. \A r \in table : r.computed_at = q.computed_at => r.period = q.period
      BY DEF GovernanceInv, AuditTimes
    <3> QED
      BY <3>1, <3>2
  <2> HIDE DEF rows
  <2>3. CASE p # gating[g].period
    <3>1. Evaluated(rows, p) = {}
      BY <2>2, <2>3 DEF Evaluated
    <3>2. \A d \in Dimension : {r \in Evaluated(rows, p) : r.dimension = d} = {}
      BY <3>1
    <3>3. \A d \in Dimension : ~Breaches({}, d)
      BY DEF Breaches
    <3>4. ~Breached(rows, p)
      BY <3>2, <3>3 DEF Breached
    <3> QED
      BY <3>4 DEF rows
  <2> QED
    BY <2>1, <2>3 DEF rows
<1> QED
  BY <1>1, GovernanceCorrect, PTL

\* The override rate of portfolio_metrics never exceeds 1, whatever is decided
\* between its statements.
THEOREM OverrideRateSoundCorrect == Spec => []OverrideRateSound
<1>1. GovernanceInv => OverrideRateSound
  BY DEF GovernanceInv, Counted
<1> QED
  BY <1>1, GovernanceCorrect, PTL

\* None of the rates of an audit exceeds 1, nor does the override rate of
\* portfolio_metrics; the approval rate of portfolio_metrics and the override
\* rate of _get_officer_charts do only if an application or a decision was
\* committed between the statements they are computed from.
THEOREM RatesSoundCorrect == Spec => []RatesSound
<1>1. GovernanceInv => OvertakenOnly
  BY DEF GovernanceInv, Counted
<1>2. RowsSound /\ OverrideRateSound /\ OvertakenOnly => RatesSound
  BY DEF RatesSound
<1> QED
  BY <1>1, <1>2, GovernanceCorrect, RowsSoundCorrect, OverrideRateSoundCorrect, PTL

\* A breach of a period stays in its rows.
THEOREM BreachNotAuditedAwayCorrect == Spec => BreachNotAuditedAway
<1>1. [Next]_vars => table \subseteq table'
  BY DEF Next, vars, DecideStart, DecideCommit, Submit, Callback, AuditStart, AuditRead,
         AuditCommit, GatePeriod, GateVerdict, BoardRead
<1>2. ASSUME table \subseteq table', NEW p \in Period, Breached(table, p)
      PROVE Breached(table', p)
  BY <1>2, BreachMonotone
<1>3. [Next]_vars => [\A p \in Period : Breached(table, p) => Breached(table', p)]_vars
  BY <1>1, <1>2
<1> QED
  BY <1>3, PTL DEF Spec, BreachNotAuditedAway
=============================================================================
