CONSTANTS
    Api = {a1, a2}
    Script = {p1}
    Version = {champion, challenger}
    Ungated = {champion}
    Shipped <- TwoModels
    Torn = torn
SPECIFICATION Spec
SYMMETRY Symmetry
CHECK_DEADLOCK FALSE
INVARIANTS
    TypeOK
    AtMostOneActive
    ActiveWasCleared
