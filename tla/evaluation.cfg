CONSTANTS
    Values = {0, 1, 2, 3}
    MaxCount = 6
    MaxBins = 3
    Levels = {0, 1, 2, 3}
    Grid = {1, 3}
    SampleSize = 5
    Amounts = {0, 34490, 60005, 92000, 100000}
    Cards <- MCCards
    Target = 650
    MaxPathways = 4
    Nothing = nothing
SPECIFICATION EvaluationSpec
CHECK_DEADLOCK FALSE
INVARIANTS
    BinsPartition
    KSBracketed
    RecourseHonest
