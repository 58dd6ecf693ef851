CONSTANTS
    a = a
    b = b
    Root = {a, b}
    Cycle = {c1}
    q1 = q1
    q2 = q2
    Req = {q1, q2}
    Batches <- TwoBatches
    BatchPhases <- RedGreen
    Scope = {w1}
    Trunks <- FiveTrunks
    MaxAhead = 2
    MaxRecords = 8
    None = None
SPECIFICATION MCSpec
SYMMETRY Symmetry
CHECK_DEADLOCK FALSE
INVARIANTS LateWorkKnewQuality RefusedForReason
PROPERTIES ChronologyKept NothingLost RepeatHarmless
