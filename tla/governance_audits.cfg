CONSTANTS
    s1 = s1
    s2 = s2
    a1 = a1
    a2 = a2
    a3 = a3
    women = women
    men = men
    Score = {s1, s2}
    Application = {a1, a2, a3}
    ScoreOf <- MCScoreOf
    Seeded = {a1, a3}
    Recommendation <- MCRecommendation
    Officer = {o1}
    Choice = {"APPROVED", "REJECTED"}
    ECallback = {"REJECTED"}
    Dimensions <- MCDimensions
    Group = {women, men}
    GroupOf <- MCGroupOf
    Period = {p35, p36}
    Auditor = {w1, w2}
    Gate = {g}
    MinSample = 2
    Thresholds <- MCThresholds
    MaxDecisions = 2
    MaxAudits = 2
    Null = null
SPECIFICATION Spec
SYMMETRY Symmetry
CONSTRAINT ReadersApart
CHECK_DEADLOCK FALSE
INVARIANTS
    TypeOK
    RatesSound
    GateHonest
PROPERTIES
    BreachNotAuditedAway
