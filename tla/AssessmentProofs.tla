-------------------------- MODULE AssessmentProofs --------------------------
(***************************************************************************)
(* Proofs about Assessment, for every set of requests, of consents and of  *)
(* lists of sources, however the rails answer.                             *)
(***************************************************************************)
EXTENDS Assessment, FiniteSetTheorems, TLAPS

\* Only ingestion runs pull and only scoring requests score.
Roles ==
    /\ \A i \in Run : step[i] # "scoring"
    /\ \A s \in Scoring : step[s] # "pulling"

\* What a run asks for was covered by the consent it found.
Authorised ==
    \A i \in Run : step[i] \in {"pulling", "done"} =>
        /\ consent[i] \in granted \cup ended
        /\ ToSet(asked[i]) \subseteq terms[consent[i]].data_sources
        /\ DOMAIN answers[i] = DOMAIN Tasks(asked[i])

\* What a run leaves behind is what its answers say.
Kept ==
    \A i \in Snapshots :
        /\ pulls[i] = Rows(asked[i], answers[i])
        /\ sources_used[i] = Sources(asked[i], answers[i])
        /\ overall[i] = Overall(asked[i], answers[i])

\* A request began after the snapshots it found there.
Began ==
    /\ \A r \in Run \cup Scoring :
          /\ step[r] = "idle" => began[r] = {}
          /\ began[r] \subseteq Snapshots
    /\ \A i \in Run :
          /\ step[i] # "idle" => computed_at[i] < clock
          /\ \A j \in began[i] : computed_at[j] < computed_at[i]

\* A score uses a snapshot it found there and, if none was named, no older one
\* than the others.
Used ==
    \A s \in Scoring :
        /\ step[s] \in {"scoring", "done"} => used[s] # Null
        /\ used[s] # Null =>
              /\ used[s] \in began[s]
              /\ named[s] = Null =>
                    \A j \in began[s] : computed_at[j] <= computed_at[used[s]]
        /\ step[s] = "done" =>
              \E v \in ScoreValue : score[s] = Banded(v, NumSources(s))

AssessmentInv == TypeOK /\ Roles /\ Authorised /\ Kept /\ Began /\ Used

----------------------------------------------------------------------------
\* The rails of a run's pulls are among the sources it was asked for.
LEMMA TasksFromList ==
  ASSUME NEW ds
  PROVE /\ Tasks(ds) \in Seq(Rail)
        /\ ToSet(Tasks(ds)) \subseteq ToSet(ds)
<1>1. ASSUME NEW x \in Rail
      PROVE /\ TaskFor(x, ds) \in Seq(Rail)
            /\ \A k \in DOMAIN TaskFor(x, ds) : TaskFor(x, ds)[k] \in ToSet(ds)
  BY DEF TaskFor
<1>2. PICK a \in Seq(Rail), g \in Seq(Rail), b \in Seq(Rail) :
         /\ a = TaskFor("AA", ds)
         /\ g = TaskFor("GEOSPATIAL", ds)
         /\ b = TaskFor("BUREAU", ds)
  BY <1>1 DEF Rail
<1>3. Tasks(ds) = a \o g \o b
  BY <1>2 DEF Tasks
<1>4. /\ \A k \in DOMAIN a : a[k] \in ToSet(ds)
      /\ \A k \in DOMAIN g : g[k] \in ToSet(ds)
      /\ \A k \in DOMAIN b : b[k] \in ToSet(ds)
  BY <1>1, <1>2 DEF Rail
<1>5. \A k \in DOMAIN (a \o g) : (a \o g)[k] \in ToSet(ds)
  BY <1>4
<1>6. a \o g \in Seq(Rail)
  OBVIOUS
<1>7. \A k \in DOMAIN ((a \o g) \o b) : ((a \o g) \o b)[k] \in ToSet(ds)
  BY <1>4, <1>5, <1>6
<1>8. (a \o g) \o b \in Seq(Rail)
  BY <1>6
<1>9. QED
  BY <1>3, <1>7, <1>8 DEF ToSet

\* Every row names a rail that was asked for and a status a pull answered.
LEMMA RowsTyped ==
  ASSUME NEW ds, NEW results, \A k \in DOMAIN results : results[k] \in Answer
  PROVE /\ Rows(ds, results) \subseteq [source : Rail, status : Answer]
        /\ {p.source : p \in Rows(ds, results)} \subseteq ToSet(ds)
<1>1. Tasks(ds) \in Seq(Rail) /\ ToSet(Tasks(ds)) \subseteq ToSet(ds)
  BY TasksFromList
<1>2. \A k \in DOMAIN Tasks(ds) : Tasks(ds)[k] \in Rail /\ Tasks(ds)[k] \in ToSet(Tasks(ds))
  BY <1>1 DEF ToSet
<1>3. QED
  BY <1>1, <1>2 DEF Rows, SourceOrder

LEMMA InitAssessmentInv == Init => AssessmentInv
<1> SUFFICES ASSUME Init PROVE AssessmentInv
  OBVIOUS
<1> USE AssessmentAssumption DEF Init, C!Init
<1>1. TypeOK
  BY DEF TypeOK
<1>2. Roles /\ Authorised /\ Kept
  BY DEF Roles, Authorised, Kept, Snapshots
<1>3. Began /\ Used
  BY DEF Began, Used, Snapshots
<1>4. QED
  BY <1>1, <1>2, <1>3 DEF AssessmentInv

----------------------------------------------------------------------------
\* One more element makes a finite set larger by one at most.
LEMMA OneMore ==
  ASSUME NEW S, IsFiniteSet(S), NEW n \in Nat, Cardinality(S) <= n, NEW x
  PROVE IsFiniteSet(S \cup {x}) /\ Cardinality(S \cup {x}) <= n + 1
<1>1. Cardinality(S) \in Nat
  BY FS_CardinalityType
<1>2. Cardinality(S \cup {x}) = IF x \in S THEN Cardinality(S) ELSE Cardinality(S) + 1
  BY FS_AddElement
<1>3. IsFiniteSet(S \cup {x})
  BY FS_AddElement
<1>4. QED
  BY <1>1, <1>2, <1>3

\* There are four sources, so a snapshot has at most four.
LEMMA SourcesCounted ==
  ASSUME NEW S \in SUBSET IngestionSource
  PROVE IsFiniteSet(S) /\ Cardinality(S) \in 0..4
<1> DEFINE A == {} \cup {"AA"}
           G == A \cup {"GEOSPATIAL"}
           B == G \cup {"BUREAU"}
           P == B \cup {"SHG_FPO"}
<1>1. IngestionSource = P
  BY DEF IngestionSource, Rail
<1>2. IsFiniteSet({}) /\ Cardinality({}) <= 0
  BY FS_EmptySet
<1>3. IsFiniteSet(P) /\ Cardinality(P) <= 0 + 1 + 1 + 1 + 1
  <2>1. 0 \in Nat /\ 0 + 1 \in Nat /\ 0 + 1 + 1 \in Nat /\ 0 + 1 + 1 + 1 \in Nat
    OBVIOUS
  <2>2. IsFiniteSet(A) /\ Cardinality(A) <= 0 + 1
    BY <1>2, <2>1, OneMore, Zenon
  <2>3. IsFiniteSet(G) /\ Cardinality(G) <= 0 + 1 + 1
    BY <2>1, <2>2, OneMore, Zenon
  <2>4. IsFiniteSet(B) /\ Cardinality(B) <= 0 + 1 + 1 + 1
    BY <2>1, <2>3, OneMore, Zenon
  <2>5. QED
    BY <2>1, <2>4, OneMore, Zenon
<1>4. IsFiniteSet(P) /\ Cardinality(P) <= 4
  <2> HIDE DEF P
  <2>1. QED
    BY <1>3
<1>5. IsFiniteSet(S) /\ Cardinality(S) <= Cardinality(P)
  <2> HIDE DEF P
  <2>1. QED
    BY <1>1, <1>4, FS_Subset
<1>6. Cardinality(S) \in Nat /\ Cardinality(P) \in Nat
  <2> HIDE DEF P
  <2>1. QED
    BY <1>4, <1>5, FS_CardinalityType
<1>7. QED
  <2> HIDE DEF P
  <2>1. QED
    BY <1>4, <1>5, <1>6

\* Each number of sources has its spread.
LEMMA SpreadTyped ==
  ASSUME NEW n \in Nat
  PROVE Spread(n) \in {5, 8, 12, 18}
<1>1. n >= 4 \/ n = 3 \/ n = 2 \/ n < 2
  OBVIOUS
<1>2. QED
  BY <1>1 DEF Spread

\* The interval holds the score and is cut at the ends of the scale only.
LEMMA BandedTyped ==
  ASSUME NEW v \in ScoreValue, NEW n \in Nat
  PROVE LET b == Banded(v, n)
        IN /\ b \in Interval
           /\ b.value = v /\ b.lower <= v /\ v <= b.upper
           /\ v - b.lower <= Spread(n) /\ b.upper - v <= Spread(n)
           /\ b.lower = 0 \/ v - b.lower = Spread(n)
           /\ b.upper = 100 \/ b.upper - v = Spread(n)
<1>1. v \in 0..100
  BY AssessmentAssumption
<1>2. PICK d \in {5, 8, 12, 18} : d = Spread(n)
  BY SpreadTyped
<1>3. Banded(v, n) = [value |-> v,
                      lower |-> IF v - d < 0 THEN 0 ELSE v - d,
                      upper |-> IF v + d > 100 THEN 100 ELSE v + d]
  BY <1>2 DEF Banded
<1>4. QED
  BY <1>1, <1>2, <1>3 DEF Interval

LEMMA AssessmentTypeStep == AssessmentInv /\ [Next]_vars => TypeOK'
<1> SUFFICES ASSUME AssessmentInv, [Next]_vars PROVE TypeOK'
  OBVIOUS
<1> USE AssessmentAssumption DEF AssessmentInv, TypeOK, Goes
<1>1. CASE ConsentChanges
  <2>1. granted' \subseteq Record /\ ended' \subseteq Record
    <3>1. CASE \E c \in Record : C!Grant(c)
      BY <3>1 DEF C!Grant
    <3>2. CASE \E records \in SUBSET granted : C!End(records)
      BY <3>2 DEF C!End
    <3>3. QED
      BY <1>1, <3>1, <3>2 DEF ConsentChanges, C!Next
  <2>2. terms' \in [Record -> [purpose : Purpose, data_sources : SourceSets] \cup {Null}]
    <3>1. CASE \E c \in Record : C!Grant(c)
      BY <3>1 DEF C!Grant
    <3>2. CASE \E records \in SUBSET granted : C!End(records)
      BY <3>2 DEF C!End
    <3>3. QED
      BY <1>1, <3>1, <3>2 DEF ConsentChanges, C!Next
  <2>3. QED
    BY <1>1, <2>1, <2>2 DEF ConsentChanges, runVars, scoreVars
<1>2. ASSUME NEW i \in Run, RunStart(i) PROVE TypeOK'
  <2>1. PICK ds \in Lists, c \in granted :
           /\ asked' = [asked EXCEPT ![i] = ds]
           /\ consent' = [consent EXCEPT ![i] = c]
           /\ answers' = [answers EXCEPT ![i] = [k \in DOMAIN Tasks(ds) |-> Null]]
    BY <1>2 DEF RunStart
  <2>2. PICK n \in Nat : DOMAIN Tasks(ds) = 1..n
    BY TasksFromList
  <2>3. [k \in DOMAIN Tasks(ds) |-> Null] \in Seq(Answer \cup {Null})
    BY <2>2
  <2>4. answers' \in [Run -> Seq(Answer \cup {Null})]
    BY <2>1, <2>3
  <2>5. QED
    BY <1>2, <2>1, <2>4 DEF RunStart, consents, scoreVars, Snapshots
<1>3. ASSUME NEW i \in Run, NEW k \in DOMAIN answers[i], RailAnswers(i, k) PROVE TypeOK'
  <2>1. PICK a \in Answer : answers' = [answers EXCEPT ![i][k] = a]
    BY <1>3 DEF RailAnswers
  <2>2. answers[i] \in Seq(Answer \cup {Null})
    OBVIOUS
  <2>3. [answers[i] EXCEPT ![k] = a] \in Seq(Answer \cup {Null})
    BY <2>2
  <2>4. answers' \in [Run -> Seq(Answer \cup {Null})]
    BY <2>1, <2>3
  <2>5. QED
    BY <1>3, <2>4 DEF RailAnswers, consents, scoreVars
<1>4. ASSUME NEW i \in Run, RunCommit(i) PROVE TypeOK'
  <2>1. /\ Rows(asked[i], answers[i]) \in SUBSET [source : Rail, status : Answer]
        /\ Sources(asked[i], answers[i]) \in SUBSET IngestionSource
        /\ Overall(asked[i], answers[i]) \in {"SUCCESS", "PARTIAL", "FAILED"}
    <3>1. \A k \in DOMAIN answers[i] : answers[i][k] \in Answer
      BY <1>4 DEF RunCommit, Gathered
    <3>2. Rows(asked[i], answers[i]) \in SUBSET [source : Rail, status : Answer]
      BY <3>1, RowsTyped
    <3>3. QED
      BY <3>2 DEF Sources, Overall, IngestionSource
  <2>2. /\ pulls' \in [Run -> SUBSET [source : Rail, status : Answer]]
        /\ sources_used' \in [Run -> SUBSET IngestionSource]
        /\ overall' \in [Run -> {"SUCCESS", "PARTIAL", "FAILED", Null}]
    BY <1>4, <2>1 DEF RunCommit
  <2>3. QED
    BY <1>4, <2>2 DEF RunCommit, consents, scoreVars
<1>5. ASSUME NEW s \in Scoring, ScoreRead(s) PROVE TypeOK'
  BY <1>5 DEF ScoreRead, Requested, consents, runVars, LatestSnapshot, Snapshots
<1>6. ASSUME NEW s \in Scoring, ScoreCommit(s) PROVE TypeOK'
  <2>1. used[s] \in Run
    BY <1>6 DEF ScoreCommit, Used
  <2>2. NumSources(s) \in Nat
    <3>1. sources_used[used[s]] \in SUBSET IngestionSource
      BY <2>1
    <3>2. Cardinality(sources_used[used[s]]) \in 0..4
      BY <3>1, SourcesCounted
    <3>3. QED
      BY <3>2 DEF NumSources
  <2>3. PICK v \in ScoreValue : score' = [score EXCEPT ![s] = Banded(v, NumSources(s))]
    BY <1>6 DEF ScoreCommit
  <2>4. Banded(v, NumSources(s)) \in Interval
    BY <2>2, BandedTyped
  <2>5. score' \in [Scoring -> Interval \cup {Null}]
    BY <2>3, <2>4
  <2>6. QED
    BY <1>6, <2>5 DEF ScoreCommit, consents, runVars
<1>7. ASSUME NEW r \in Run \cup Scoring, Abort(r) PROVE TypeOK'
  BY <1>7 DEF Abort, consents, runVars, scoreVars
<1>8. CASE UNCHANGED vars
  BY <1>8 DEF vars, consents, runVars, scoreVars
<1>9. QED
  BY <1>1, <1>2, <1>3, <1>4, <1>5, <1>6, <1>7, <1>8 DEF Next

LEMMA RolesStep == AssessmentInv /\ [Next]_vars => Roles'
<1> SUFFICES ASSUME AssessmentInv, [Next]_vars PROVE Roles'
  OBVIOUS
<1> USE AssessmentAssumption DEF AssessmentInv, Roles, TypeOK, Goes
<1>1. CASE ConsentChanges \/ UNCHANGED vars
  BY <1>1 DEF ConsentChanges, vars
<1>2. CASE \E i \in Run : RunStart(i) \/ RunCommit(i) \/ \E k \in DOMAIN answers[i] : RailAnswers(i, k)
  BY <1>2 DEF RunStart, RunCommit, RailAnswers
<1>3. CASE \E s \in Scoring : ScoreRead(s) \/ ScoreCommit(s)
  BY <1>3 DEF ScoreRead, ScoreCommit
<1>4. CASE \E r \in Run \cup Scoring : Abort(r)
  BY <1>4 DEF Abort
<1>5. QED
  BY <1>1, <1>2, <1>3, <1>4 DEF Next

\* A consent that was given stays on record, on the same terms.
LEMMA ConsentsStay ==
  ASSUME AssessmentInv, [Next]_vars
  PROVE /\ granted \cup ended \subseteq granted' \cup ended'
        /\ \A c \in granted \cup ended : terms'[c] = terms[c]
<1> USE DEF AssessmentInv, TypeOK
<1>1. CASE ConsentChanges
  <2>1. CASE \E c \in Record : C!Grant(c)
    BY <2>1 DEF C!Grant
  <2>2. CASE \E records \in SUBSET granted : C!End(records)
    BY <2>2 DEF C!End
  <2>3. QED
    BY <1>1, <2>1, <2>2 DEF ConsentChanges, C!Next
<1>2. CASE UNCHANGED consents
  BY <1>2 DEF consents
<1>3. ConsentChanges \/ UNCHANGED consents
  BY DEF Next, RunStart, RunCommit, RailAnswers, ScoreRead, ScoreCommit, Abort, vars
<1>4. QED
  BY <1>1, <1>2, <1>3

LEMMA AuthorisedStep == AssessmentInv /\ [Next]_vars => Authorised'
<1> SUFFICES ASSUME AssessmentInv, [Next]_vars PROVE Authorised'
  OBVIOUS
<1> USE AssessmentAssumption DEF AssessmentInv, Authorised, TypeOK, Goes
<1>1. /\ granted \cup ended \subseteq granted' \cup ended'
      /\ \A c \in granted \cup ended : terms'[c] = terms[c]
  BY ConsentsStay
<1>2. ASSUME NEW i \in Run, RunStart(i) PROVE Authorised'
  <2>1. PICK ds \in Lists, p \in Purpose, c \in granted :
           /\ Covers(c, p, ToSet(ds))
           /\ asked' = [asked EXCEPT ![i] = ds]
           /\ consent' = [consent EXCEPT ![i] = c]
           /\ answers' = [answers EXCEPT ![i] = [k \in DOMAIN Tasks(ds) |-> Null]]
    BY <1>2 DEF RunStart
  <2>2. /\ consent'[i] \in granted' \cup ended'
        /\ ToSet(asked'[i]) \subseteq terms'[consent'[i]].data_sources
        /\ DOMAIN answers'[i] = DOMAIN Tasks(asked'[i])
    <3>1. consent'[i] = c /\ asked'[i] = ds /\ DOMAIN answers'[i] = DOMAIN Tasks(ds)
      BY <2>1
    <3>2. terms'[c] = terms[c] /\ c \in granted' \cup ended'
      BY <1>1
    <3>3. QED
      BY <2>1, <3>1, <3>2 DEF Covers
  <2>3. ASSUME NEW j \in Run, j # i, step'[j] \in {"pulling", "done"}
        PROVE /\ consent'[j] \in granted' \cup ended'
              /\ ToSet(asked'[j]) \subseteq terms'[consent'[j]].data_sources
              /\ DOMAIN answers'[j] = DOMAIN Tasks(asked'[j])
    <3>1. /\ step'[j] = step[j] /\ asked'[j] = asked[j]
          /\ consent'[j] = consent[j] /\ answers'[j] = answers[j]
      BY <1>2, <2>1, <2>3 DEF RunStart
    <3>2. QED
      BY <1>1, <2>3, <3>1
  <2>4. QED
    BY <2>2, <2>3
<1>3. ASSUME NEW i \in Run, NEW k \in DOMAIN answers[i], RailAnswers(i, k) PROVE Authorised'
  <2>1. \A j \in Run : DOMAIN answers'[j] = DOMAIN answers[j]
    BY <1>3 DEF RailAnswers
  <2>2. QED
    BY <1>1, <1>3, <2>1 DEF RailAnswers
<1>4. CASE ConsentChanges \/ UNCHANGED vars
  BY <1>1, <1>4 DEF ConsentChanges, vars, runVars
<1>5. CASE \E i \in Run : RunCommit(i)
  BY <1>1, <1>5 DEF RunCommit
<1>6. CASE \E s \in Scoring : ScoreRead(s) \/ ScoreCommit(s)
  BY <1>1, <1>6 DEF ScoreRead, ScoreCommit, runVars
<1>7. CASE \E r \in Run \cup Scoring : Abort(r)
  BY <1>1, <1>7 DEF Abort, runVars
<1>8. QED
  BY <1>2, <1>3, <1>4, <1>5, <1>6, <1>7 DEF Next

\* What a run has left behind, nothing changes.
LEMMA SnapshotsStay ==
  ASSUME AssessmentInv, [Next]_vars
  PROVE \A i \in Snapshots :
           /\ i \in Snapshots'
           /\ asked'[i] = asked[i] /\ answers'[i] = answers[i]
           /\ pulls'[i] = pulls[i] /\ sources_used'[i] = sources_used[i]
           /\ overall'[i] = overall[i] /\ computed_at'[i] = computed_at[i]
<1> USE AssessmentAssumption DEF AssessmentInv, TypeOK, Goes, Snapshots
<1>1. ASSUME NEW i \in Run, RunStart(i) \/ RunCommit(i) \/ \E k \in DOMAIN answers[i] : RailAnswers(i, k)
      PROVE \A j \in Snapshots :
               /\ j \in Snapshots'
               /\ asked'[j] = asked[j] /\ answers'[j] = answers[j]
               /\ pulls'[j] = pulls[j] /\ sources_used'[j] = sources_used[j]
               /\ overall'[j] = overall[j] /\ computed_at'[j] = computed_at[j]
  <2>1. step[i] # "done"
    BY <1>1 DEF RunStart, RunCommit, RailAnswers
  <2>2. CASE RunStart(i)
    BY <2>1, <2>2 DEF RunStart
  <2>3. CASE RunCommit(i)
    BY <2>1, <2>3 DEF RunCommit
  <2>4. CASE \E k \in DOMAIN answers[i] : RailAnswers(i, k)
    BY <2>1, <2>4 DEF RailAnswers
  <2>5. QED
    BY <1>1, <2>2, <2>3, <2>4
<1>2. CASE ConsentChanges \/ UNCHANGED vars
  BY <1>2 DEF ConsentChanges, vars, runVars
<1>3. CASE \E s \in Scoring : ScoreRead(s) \/ ScoreCommit(s)
  BY <1>3 DEF ScoreRead, ScoreCommit, runVars
<1>4. CASE \E r \in Run \cup Scoring : Abort(r)
  BY <1>4 DEF Abort, runVars
<1>5. QED
  BY <1>1, <1>2, <1>3, <1>4 DEF Next

LEMMA KeptStep == AssessmentInv /\ [Next]_vars => Kept'
<1> SUFFICES ASSUME AssessmentInv, [Next]_vars, NEW i \in Snapshots'
    PROVE /\ pulls'[i] = Rows(asked'[i], answers'[i])
          /\ sources_used'[i] = Sources(asked'[i], answers'[i])
          /\ overall'[i] = Overall(asked'[i], answers'[i])
  BY DEF Kept
<1> USE DEF AssessmentInv, TypeOK, Goes, Snapshots
<1>1. CASE i \in Snapshots
  <2>1. /\ asked'[i] = asked[i] /\ answers'[i] = answers[i]
        /\ pulls'[i] = pulls[i] /\ sources_used'[i] = sources_used[i]
        /\ overall'[i] = overall[i]
    BY <1>1, SnapshotsStay
  <2>2. QED
    BY <1>1, <2>1 DEF Kept
<1>2. CASE i \notin Snapshots
  <2>1. step[i] # "done" /\ step'[i] = "done" /\ i \in Run
    BY <1>2
  <2>2. ~ (\E s \in Scoring : ScoreRead(s) \/ ScoreCommit(s))
    BY <2>1, AssessmentAssumption DEF ScoreRead, ScoreCommit
  <2>3. ~ (\E j \in Run : RunStart(j) \/ \E k \in DOMAIN answers[j] : RailAnswers(j, k))
    BY <2>1 DEF RunStart, RailAnswers
  <2>4. ~ (\E r \in Run \cup Scoring : Abort(r))
    BY <2>1 DEF Abort
  <2>5. ~ ConsentChanges /\ ~ UNCHANGED vars
    BY <2>1 DEF ConsentChanges, vars
  <2>6. \A j \in Run : RunCommit(j) => j = i
    BY <2>1 DEF RunCommit
  <2>7. RunCommit(i)
    BY <2>2, <2>3, <2>4, <2>5, <2>6 DEF Next
  <2>8. QED
    BY <2>7 DEF RunCommit
<1>3. QED
  BY <1>1, <1>2

LEMMA BeganStep == AssessmentInv /\ [Next]_vars => Began'
<1> SUFFICES ASSUME AssessmentInv, [Next]_vars PROVE Began'
  OBVIOUS
<1> USE AssessmentAssumption DEF AssessmentInv, Began, TypeOK, Goes
<1>1. Snapshots \subseteq Snapshots' /\ \A i \in Snapshots : computed_at'[i] = computed_at[i]
  BY SnapshotsStay
<1>2. ASSUME NEW i \in Run, RunStart(i) PROVE Began'
  <2>1. /\ computed_at' = [computed_at EXCEPT ![i] = clock]
        /\ clock' = clock + 1
        /\ began' = [began EXCEPT ![i] = Snapshots]
        /\ step' = [step EXCEPT ![i] = "pulling"]
    BY <1>2 DEF RunStart
  <2>2. \A j \in Snapshots : computed_at'[j] < clock
    BY <1>1 DEF Snapshots
  <2>3. \A r \in Run \cup Scoring : began'[r] \subseteq Snapshots'
    BY <1>1, <2>1
  <2>4. \A r \in Run \cup Scoring : step'[r] = "idle" => began'[r] = {}
    BY <2>1
  <2>5. \A j \in Run : step'[j] # "idle" => computed_at'[j] < clock'
    BY <2>1
  <2>6. ASSUME NEW j \in Run, NEW h \in began'[j] PROVE computed_at'[h] < computed_at'[j]
    <3>1. CASE j = i
      BY <2>1, <2>2, <3>1
    <3>2. CASE j # i
      BY <1>1, <2>1, <3>2
    <3>3. QED
      BY <3>1, <3>2
  <2>7. QED
    BY <2>3, <2>4, <2>5, <2>6
<1>3. ASSUME NEW s \in Scoring, ScoreRead(s) PROVE Began'
  <2>1. /\ began' = [began EXCEPT ![s] = Snapshots] /\ step' = [step EXCEPT ![s] = "scoring"]
        /\ UNCHANGED <<clock, computed_at>>
    BY <1>3 DEF ScoreRead, runVars
  <2>2. \A i \in Run : began'[i] = began[i] /\ step'[i] = step[i]
    BY <2>1
  <2>3. \A r \in Run \cup Scoring : began'[r] \subseteq Snapshots'
    BY <1>1, <2>1
  <2>4. \A r \in Run \cup Scoring : step'[r] = "idle" => began'[r] = {}
    BY <2>1
  <2>5. QED
    BY <2>1, <2>2, <2>3, <2>4
<1>4. CASE ConsentChanges \/ UNCHANGED vars
  BY <1>1, <1>4 DEF ConsentChanges, vars, runVars
<1>5. CASE \E i \in Run : RunCommit(i) \/ \E k \in DOMAIN answers[i] : RailAnswers(i, k)
  <2>1. /\ UNCHANGED <<clock, computed_at, began>>
        /\ \A r \in Run \cup Scoring : step'[r] = "idle" => step[r] = "idle"
        /\ \A r \in Run : step[r] = "idle" => step'[r] = "idle"
    BY <1>5 DEF RunCommit, RailAnswers
  <2>2. QED
    BY <1>1, <2>1
<1>6. CASE \E s \in Scoring : ScoreCommit(s)
  BY <1>1, <1>6 DEF ScoreCommit, runVars
<1>7. CASE \E r \in Run \cup Scoring : Abort(r)
  BY <1>1, <1>7 DEF Abort, runVars
<1>8. QED
  BY <1>2, <1>3, <1>4, <1>5, <1>6, <1>7 DEF Next

LEMMA UsedStep == AssessmentInv /\ [Next]_vars => Used'
<1> SUFFICES ASSUME AssessmentInv, [Next]_vars PROVE Used'
  OBVIOUS
<1> USE AssessmentAssumption DEF AssessmentInv, Used, TypeOK, Goes
<1>1. /\ Snapshots \subseteq Snapshots'
      /\ \A i \in Snapshots : computed_at'[i] = computed_at[i] /\ sources_used'[i] = sources_used[i]
  BY SnapshotsStay
<1>2. \A s \in Scoring : began[s] \subseteq Snapshots
  BY DEF Began
<1>9. ASSUME UNCHANGED <<named, used, score>>,
             \A s \in Scoring : began'[s] = began[s] /\ step'[s] \in {step[s], "lost"}
      PROVE Used'
  <2>1. \A s \in Scoring : used[s] # Null => used[s] \in Snapshots
    BY <1>2
  <2>2. \A s \in Scoring : used[s] # Null => NumSources(s)' = NumSources(s)
    BY <1>1, <1>9, <2>1 DEF NumSources
  <2>3. ASSUME NEW s \in Scoring, used'[s] # Null
        PROVE /\ used'[s] \in began'[s]
              /\ named'[s] = Null => \A j \in began'[s] : computed_at'[j] <= computed_at'[used'[s]]
    BY <1>1, <1>2, <1>9, <2>1, <2>3
  <2>4. ASSUME NEW s \in Scoring, step'[s] \in {"scoring", "done"} PROVE used'[s] # Null
    BY <1>9, <2>4
  <2>5. ASSUME NEW s \in Scoring, step'[s] = "done"
        PROVE \E v \in ScoreValue : score'[s] = Banded(v, NumSources(s)')
    BY <1>9, <2>2, <2>5
  <2>6. QED
    BY <2>3, <2>4, <2>5
<1>3. ASSUME NEW s \in Scoring, ScoreRead(s) PROVE Used'
  <2>0. PICK id \in Run \cup {Null} :
          /\ named' = [named EXCEPT ![s] = id]
          /\ \E i \in Requested(id) : used' = [used EXCEPT ![s] = i]
    BY <1>3 DEF ScoreRead
  <2>1. PICK i \in Requested(id) :
          /\ named' = [named EXCEPT ![s] = id]
          /\ used' = [used EXCEPT ![s] = i]
    BY <2>0
  <2>2. /\ i \in Snapshots /\ i \in Run
        /\ id = Null => \A j \in Snapshots : computed_at[j] <= computed_at[i]
    BY DEF Requested, LatestSnapshot, Snapshots
  <2>3. /\ began' = [began EXCEPT ![s] = Snapshots]
        /\ step' = [step EXCEPT ![s] = "scoring"]
        /\ UNCHANGED <<computed_at, sources_used, score>>
    BY <1>3 DEF ScoreRead, runVars
  <2>4. used'[s] = i /\ named'[s] = id /\ began'[s] = Snapshots /\ step'[s] = "scoring"
    BY <2>1, <2>3
  <2>5. \A t \in Scoring : t # s =>
           used'[t] = used[t] /\ named'[t] = named[t] /\ began'[t] = began[t] /\ step'[t] = step[t]
    BY <2>1, <2>3
  <2>6. ASSUME NEW t \in Scoring, t # s, step'[t] = "done"
        PROVE \E v \in ScoreValue : score'[t] = Banded(v, NumSources(t)')
    <3>1. used'[t] = used[t] /\ step[t] = "done" /\ score'[t] = score[t]
      BY <2>3, <2>5, <2>6
    <3>2. NumSources(t)' = NumSources(t)
      BY <2>3, <3>1 DEF NumSources
    <3>3. QED
      BY <3>1, <3>2
  <2>7. ASSUME NEW t \in Scoring, used'[t] # Null
        PROVE /\ used'[t] \in began'[t]
              /\ named'[t] = Null => \A j \in began'[t] : computed_at'[j] <= computed_at'[used'[t]]
    BY <2>2, <2>3, <2>4, <2>5, <2>7
  <2>8. QED
    BY <2>2, <2>4, <2>5, <2>6, <2>7, AssessmentAssumption
<1>4. ASSUME NEW s \in Scoring, ScoreCommit(s) PROVE Used'
  <2>1. /\ step[s] = "scoring" /\ UNCHANGED <<computed_at, sources_used, named, used, began>>
        /\ \E v \in ScoreValue : score'[s] = Banded(v, NumSources(s)')
        /\ \A t \in Scoring : t # s => score'[t] = score[t] /\ step'[t] = step[t]
    BY <1>4 DEF ScoreCommit, runVars, NumSources
  <2>2. \A t \in Scoring : NumSources(t)' = NumSources(t)
    BY <2>1 DEF NumSources
  <2>3. ASSUME NEW t \in Scoring, step'[t] = "done"
        PROVE \E v \in ScoreValue : score'[t] = Banded(v, NumSources(t)')
    BY <2>1, <2>2, <2>3
  <2>4. ASSUME NEW t \in Scoring
        PROVE /\ step'[t] \in {"scoring", "done"} => used'[t] # Null
              /\ used'[t] # Null =>
                    /\ used'[t] \in began'[t]
                    /\ named'[t] = Null =>
                          \A j \in began'[t] : computed_at'[j] <= computed_at'[used'[t]]
    BY <2>1
  <2>5. QED
    BY <2>3, <2>4
<1>5. CASE ConsentChanges \/ UNCHANGED vars
  BY <1>5, <1>9 DEF ConsentChanges, vars, scoreVars
<1>6. ASSUME NEW i \in Run,
             RunStart(i) \/ RunCommit(i) \/ \E k \in DOMAIN answers[i] : RailAnswers(i, k)
      PROVE Used'
  <2>1. /\ UNCHANGED <<named, used, score>>
        /\ \A s \in Scoring : step'[s] = step[s] /\ began'[s] = began[s]
    BY <1>6 DEF RunStart, RunCommit, RailAnswers, scoreVars
  <2>2. QED
    BY <1>9, <2>1
<1>7. ASSUME NEW r \in Run \cup Scoring, Abort(r) PROVE Used'
  <2>1. /\ UNCHANGED <<named, used, score, began>>
        /\ \A s \in Scoring : step'[s] \in {step[s], "lost"}
    BY <1>7 DEF Abort, scoreVars
  <2>2. QED
    BY <1>9, <2>1
<1>8. QED
  BY <1>3, <1>4, <1>5, <1>6, <1>7 DEF Next

----------------------------------------------------------------------------
(***************************************************************************)
(* All the invariants of the runs and of the scores hold in every          *)
(* reachable state, together.                                              *)
(***************************************************************************)
THEOREM AssessmentCorrect == Spec => []AssessmentInv
<1>1. AssessmentInv /\ [Next]_vars => AssessmentInv'
  BY AssessmentTypeStep, RolesStep, AuthorisedStep, KeptStep, BeganStep, UsedStep
     DEF AssessmentInv
<1>2. QED
  BY <1>1, InitAssessmentInv, PTL DEF Spec

\* The variables keep their types.
THEOREM AssessmentTypeCorrect == Spec => []TypeOK
BY AssessmentCorrect, PTL DEF AssessmentInv

(***************************************************************************)
(* Nothing is pulled that the borrower had not consented to, whatever      *)
(* happens to the consent while the rails answer.                          *)
(***************************************************************************)
THEOREM PulledUnderConsentCorrect == Spec => []PulledUnderConsent
<1>1. ASSUME AssessmentInv, NEW i \in Snapshots
      PROVE /\ consent[i] \in granted \cup ended
            /\ {p.source : p \in pulls[i]} \subseteq terms[consent[i]].data_sources
  <2>1. /\ consent[i] \in granted \cup ended
        /\ ToSet(asked[i]) \subseteq terms[consent[i]].data_sources
    BY <1>1 DEF AssessmentInv, Authorised, Snapshots
  <2>2. pulls[i] = Rows(asked[i], answers[i])
    BY <1>1 DEF AssessmentInv, Kept
  <2>3. \A p \in pulls[i] : p.source \in ToSet(asked[i])
    <3>1. Tasks(asked[i]) \in Seq(Rail) /\ ToSet(Tasks(asked[i])) \subseteq ToSet(asked[i])
      BY TasksFromList
    <3>2. QED
      BY <2>2, <3>1 DEF Rows, SourceOrder, ToSet
  <2>4. QED
    BY <2>1, <2>3
<1>2. AssessmentInv => PulledUnderConsent
  BY <1>1 DEF PulledUnderConsent
<1>3. QED
  BY <1>2, AssessmentCorrect, PTL

(***************************************************************************)
(* However the rails answer, each status is kept under the rail it came    *)
(* from, and the snapshot uses exactly the rails that delivered.           *)
(***************************************************************************)
THEOREM AnswersAttributedCorrect == Spec => []AnswersAttributed
<1>1. ASSUME AssessmentInv, NEW i \in Snapshots
      PROVE /\ \A k \in DOMAIN Tasks(asked[i]) :
                  [source |-> Tasks(asked[i])[k], status |-> answers[i][k]] \in pulls[i]
            /\ sources_used[i] \ {"SHG_FPO"}
                  = {p.source : p \in {q \in pulls[i] : q.status = "SUCCESS"}}
  <2>1. /\ pulls[i] = Rows(asked[i], answers[i])
        /\ sources_used[i] = Sources(asked[i], answers[i])
        /\ DOMAIN answers[i] = DOMAIN Tasks(asked[i])
    BY <1>1 DEF AssessmentInv, Kept, Authorised, Snapshots
  <2>2. \A k \in DOMAIN Tasks(asked[i]) : Tasks(asked[i])[k] \in Rail
    BY TasksFromList
  <2>3. \A p \in pulls[i] : p.source \in Rail
    BY <2>1, <2>2 DEF Rows, SourceOrder
  <2>4. QED
    BY <2>1, <2>3 DEF Rows, SourceOrder, Sources, Rail
<1>2. AssessmentInv => AnswersAttributed
  BY <1>1 DEF AnswersAttributed
<1>3. QED
  BY <1>2, AssessmentCorrect, PTL

(***************************************************************************)
(* A score uses a snapshot that was committed when it was asked for and,   *)
(* unless the caller named it, not one that was already there when a run   *)
(* began whose own snapshot was there before the score.                    *)
(***************************************************************************)
THEOREM ScoredOnFreshDataCorrect == Spec => []ScoredOnFreshData
<1>1. ASSUME AssessmentInv, NEW s \in Scoring, used[s] # Null, named[s] = Null,
             NEW j \in began[s], used[s] \in began[j]
      PROVE FALSE
  <2>1. j \in Run /\ used[s] \in Run
    BY <1>1, AssessmentAssumption DEF AssessmentInv, TypeOK
  <2>2. computed_at[j] <= computed_at[used[s]] /\ computed_at[used[s]] < computed_at[j]
    BY <1>1, <2>1 DEF AssessmentInv, Used, Began
  <2>3. computed_at[j] \in Nat /\ computed_at[used[s]] \in Nat
    BY <1>1, <2>1 DEF AssessmentInv, TypeOK
  <2>4. QED
    BY <2>2, <2>3
<1>2. AssessmentInv => ScoredOnFreshData
  BY <1>1 DEF ScoredOnFreshData, AssessmentInv, Used
<1>3. QED
  BY <1>2, AssessmentCorrect, PTL

\* A list has at least as many entries as it has sources.
LEMMA ListCovers ==
  ASSUME NEW ds \in Seq(IngestionSource)
  PROVE IsFiniteSet(ToSet(ds)) /\ Cardinality(ToSet(ds)) <= Len(ds)
<1>1. ds \in Surjection(1..Len(ds), ToSet(ds))
  BY DEF Surjection, ToSet
<1>2. ExistsSurjection(1..Len(ds), ToSet(ds)) /\ Len(ds) \in Nat
  BY <1>1 DEF ExistsSurjection
<1>3. QED
  BY <1>2, FS_SurjCardinalityBound, FS_NatSurjection

(***************************************************************************)
(* SUCCESS is answered only where every requested source is in the         *)
(* snapshot, FAILED only where none is, though a list may name a source    *)
(* twice and the profile is in every snapshot.                             *)
(***************************************************************************)
THEOREM OverallTruthfulCorrect == Spec => []OverallTruthful
<1>1. ASSUME AssessmentInv, NEW i \in Snapshots
      PROVE /\ overall[i] = "SUCCESS" => ToSet(asked[i]) \subseteq sources_used[i]
            /\ overall[i] = "FAILED" => ToSet(asked[i]) \cap sources_used[i] = {}
  <2> DEFINE ds == asked[i]
             hit == sources_used[i] \cap ToSet(ds)
  <2>1. ds \in Seq(IngestionSource)
    <3>1. asked[i] \in Lists \cup {<< >>}
      BY <1>1 DEF AssessmentInv, TypeOK, Snapshots
    <3>2. Lists \subseteq Seq(IngestionSource) /\ << >> \in Seq(IngestionSource)
      BY AssessmentAssumption
    <3>3. QED
      BY <3>1, <3>2
  <2>2. overall[i] = Overall(ds, answers[i]) /\ RequestedSuccess(ds, answers[i]) = Cardinality(hit)
    BY <1>1 DEF AssessmentInv, Kept, RequestedSuccess
  <2>3. IsFiniteSet(ToSet(ds)) /\ Cardinality(ToSet(ds)) <= Len(ds)
    BY <2>1, ListCovers
  <2>4. /\ IsFiniteSet(hit) /\ Cardinality(hit) \in Nat /\ Cardinality(ToSet(ds)) \in Nat
        /\ Cardinality(hit) <= Cardinality(ToSet(ds))
        /\ Cardinality(hit) = Cardinality(ToSet(ds)) => hit = ToSet(ds)
    BY <2>3, FS_Subset, FS_CardinalityType
  <2>5. overall[i] = "SUCCESS" => Cardinality(hit) = Len(ds)
    BY <2>2 DEF Overall
  <2>6. overall[i] = "FAILED" => Cardinality(hit) = 0
    BY <2>2, <2>4 DEF Overall
  <2>7. Len(ds) \in Nat
    BY <2>1
  <2>8. overall[i] = "SUCCESS" => hit = ToSet(ds)
    BY <2>3, <2>4, <2>5, <2>7
  <2>9. overall[i] = "FAILED" => hit = {}
    BY <2>4, <2>6, FS_EmptySet
  <2>10. QED
    BY <2>8, <2>9
<1>2. AssessmentInv => OverallTruthful
  BY <1>1 DEF OverallTruthful
<1>3. QED
  BY <1>2, AssessmentCorrect, PTL

(***************************************************************************)
(* A snapshot says what happened, whatever order the rails answer in.      *)
(***************************************************************************)
THEOREM SnapshotTruthfulCorrect == Spec => []SnapshotTruthful
<1>1. AnswersAttributed /\ OverallTruthful => SnapshotTruthful
  BY DEF SnapshotTruthful
<1>2. QED
  BY <1>1, AnswersAttributedCorrect, OverallTruthfulCorrect, PTL

(***************************************************************************)
(* The interval of a score holds it, and of two scores the one that rests  *)
(* on fewer sources reaches further down and further up, unless it reaches *)
(* the end of the scale.                                                   *)
(***************************************************************************)
THEOREM ConfidenceHonestCorrect == Spec => []ConfidenceHonest
<1>1. ASSUME AssessmentInv, NEW s \in Scores
      PROVE /\ NumSources(s) \in 1..4
            /\ \E v \in ScoreValue : score[s] = Banded(v, NumSources(s))
  <2>1. /\ used[s] \in began[s] /\ s \in Scoring
        /\ \E v \in ScoreValue : score[s] = Banded(v, NumSources(s))
    BY <1>1 DEF AssessmentInv, Used, Scores
  <2>2. used[s] \in Snapshots
    BY <1>1, <2>1 DEF AssessmentInv, Began
  <2>3. "SHG_FPO" \in sources_used[used[s]]
    BY <1>1, <2>2 DEF AssessmentInv, Kept, Sources
  <2>4. sources_used[used[s]] \in SUBSET IngestionSource
    BY <1>1, <2>2 DEF AssessmentInv, TypeOK, Snapshots
  <2>5. NumSources(s) \in 0..4 /\ IsFiniteSet(sources_used[used[s]])
    BY <2>4, SourcesCounted DEF NumSources
  <2>6. NumSources(s) # 0
    BY <2>3, <2>5, FS_EmptySet DEF NumSources
  <2>7. QED
    BY <2>1, <2>5, <2>6
<1>2. \A n, m \in 1..4 : n < m => Spread(n) > Spread(m)
  BY DEF Spread
<1>3. ASSUME AssessmentInv, NEW s \in Scores
      PROVE /\ score[s].lower \in 0..100 /\ score[s].value \in 0..100
            /\ score[s].upper \in 0..100
            /\ score[s].lower <= score[s].value /\ score[s].value <= score[s].upper
            /\ score[s].value - score[s].lower <= Spread(NumSources(s))
            /\ score[s].upper - score[s].value <= Spread(NumSources(s))
            /\ score[s].lower = 0 \/ score[s].value - score[s].lower = Spread(NumSources(s))
            /\ score[s].upper = 100 \/ score[s].upper - score[s].value = Spread(NumSources(s))
  <2>1. PICK v \in ScoreValue : score[s] = Banded(v, NumSources(s))
    BY <1>1, <1>3
  <2>2. NumSources(s) \in Nat
    BY <1>1, <1>3
  <2>3. PICK b : b = Banded(v, NumSources(s))
    OBVIOUS
  <2>4. /\ b \in Interval
        /\ b.value = v /\ b.lower <= v /\ v <= b.upper
        /\ v - b.lower <= Spread(NumSources(s)) /\ b.upper - v <= Spread(NumSources(s))
        /\ b.lower = 0 \/ v - b.lower = Spread(NumSources(s))
        /\ b.upper = 100 \/ b.upper - v = Spread(NumSources(s))
    BY <2>2, <2>3, BandedTyped
  <2>5. QED
    BY <2>1, <2>3, <2>4, AssessmentAssumption DEF Interval
<1>4. ASSUME AssessmentInv, NEW s \in Scores, NEW t \in Scores, NumSources(s) < NumSources(t)
      PROVE /\ \/ score[s].lower = 0
               \/ score[s].value - score[s].lower > score[t].value - score[t].lower
            /\ \/ score[s].upper = 100
               \/ score[s].upper - score[s].value > score[t].upper - score[t].value
  <2>1. Spread(NumSources(s)) > Spread(NumSources(t))
    BY <1>1, <1>2, <1>4
  <2>2. Spread(NumSources(s)) \in Nat /\ Spread(NumSources(t)) \in Nat
    BY <1>1, <1>4, SpreadTyped
  <2>3. QED
    BY <1>3, <1>4, <2>1, <2>2
<1>5. AssessmentInv => ConfidenceHonest
  BY <1>3, <1>4 DEF ConfidenceHonest
<1>6. QED
  BY <1>5, AssessmentCorrect, PTL
=============================================================================
