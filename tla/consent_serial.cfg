CONSTANTS
    Request = {r1, r2, r3, r4}
    Purpose = {scoring, sharing}
    SourceSets <- Sources
    Duration <- Durations
    Repayment = {l1}
    Genesis = genesis
    Null = null
    Serial = TRUE
    MaxClock = 5
SPECIFICATION Spec
SYMMETRY Symmetry
CHECK_DEADLOCK FALSE
INVARIANTS
    LinearChain
    AtMostOneActive
PROPERTY AnonymisesOnlyWithoutConsent
