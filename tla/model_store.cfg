CONSTANTS
    Script = {s1}
    Admin = {a1}
    Request = {q1}
    Version = {champion, challenger, baseline, tagged}
    Champion = champion
    Challenger = challenger
    Baseline = baseline
    Named = {tagged}
    FormatOf <- MCFormatOf
    Shipped <- MCShipped
    Origin = origin
    BuiltIn = builtin
    Null = null
    Torn = torn
SPECIFICATION Spec
CHECK_DEADLOCK FALSE
INVARIANTS
    ServedNotOlder
    FallBackExplained
    FailureExplained
