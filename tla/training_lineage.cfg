CONSTANTS
    l1 = l1
    l2 = l2
    l3 = l3
    l4 = l4
    b1 = b1
    b2 = b2
    v1 = v1
    v2 = v2
    Pilot = {l1, l2, l3, l4}
    Borrower = {b1, b2}
    BorrowerOf <- MCBorrowerOf
    HomeOf <- MCHomeOf
    Village = {v1, v2, v3}
    HomeRows = 3
    GmscRows = 2
    Generated = 4
    Splits = 2
    Enough = 2
    Null = null
SYMMETRY Symmetric
SPECIFICATION TrainingSpec
CHECK_DEADLOCK FALSE
INVARIANTS
    SpatiallyHeldOut
    JudgedOutOfFold
PROPERTY
    WithdrawnStaysOut
