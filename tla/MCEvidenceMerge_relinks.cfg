CONSTANTS
    a = a
    b = b
    Root = {a, b}
    Cycle = {c1, c2}
    Req = {q1}
    Batches <- OneBatch
    BatchPhases <- RedGreen
    Scope = {w1}
    Trunks <- OneTrunk
    MaxAhead = 4
    MaxRecords = 8
    None = None
SPECIFICATION MergeSpec
SYMMETRY Symmetry
CHECK_DEADLOCK FALSE
INVARIANT RelinksRepointed
