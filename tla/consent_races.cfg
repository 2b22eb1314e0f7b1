CONSTANTS
    Request = {r1, r2, r3, r4}
    Purpose = {scoring, sharing}
    SourceSets <- OneSourceList
    Duration <- ShortDuration
    Repayment = {l1}
    Genesis = genesis
    Null = null
    Serial = FALSE
    MaxClock = 5
SPECIFICATION Spec
SYMMETRY Symmetry
CHECK_DEADLOCK FALSE
INVARIANTS
    TypeOK
    ChainGrounded
    StatusExplained
    PurposeNotLost
PROPERTIES
    ImplementsConsent
