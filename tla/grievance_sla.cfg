CONSTANTS
    Case = {c1, c2}
    Update = {u1, u2, u3}
    Sweeper = {job}
    MaxAborts = 1
    Null = null
SPECIFICATION Spec
CHECK_DEADLOCK FALSE
INVARIANTS
    TypeOK
    TrailSound
PROPERTIES
    ReopenedOnlyByStaleRead
    EscalatedIfSwept
