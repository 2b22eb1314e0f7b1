CONSTANTS
    Run = {i1, i2}
    Scoring = {s1, s2}
    Record = {c1}
    Purpose = {scoring}
    SourceSets <- Grants
    Lists <- AllLists
    ScoreValue <- Values
    Null = null
SPECIFICATION Spec
CHECK_DEADLOCK FALSE
INVARIANTS
    TypeOK
    PulledUnderConsent
    SnapshotTruthful
    ScoredOnFreshData
    ConfidenceHonest
PROPERTY RunsEnd
