CONSTANTS
    Command = {c1, c2, c3}
    Former = {}
    Recoverer = {r1, r2}
    None = None
    SerialRecovery = FALSE
    Faults = FALSE
SPECIFICATION Spec
SYMMETRY Symmetry
CHECK_DEADLOCK FALSE
INVARIANT LiveOwnerKeepsLock
