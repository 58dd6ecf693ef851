CONSTANTS
    Req = {q1, q2}
    Other = {}
    MaxLog = 16
    Crashes = TRUE
    None = None
SPECIFICATION Spec
SYMMETRY Symmetry
CHECK_DEADLOCK FALSE
INVARIANTS OrdersPaired LineageSound QualityProven
PROPERTY AppendOnly
