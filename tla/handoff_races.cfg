CONSTANTS
    Officer = {o1, o2}
    Submit = {s1, s2}
    RE = {bank, nbfc}
    MaxCalls = 2
    Null = null
SPECIFICATION Spec
SYMMETRY Symmetry
CHECK_DEADLOCK FALSE
INVARIANTS
    TypeOK
    OnlyApprovedLeaves
    GateFresh
    NoLateDuplicate
