CONSTANTS
    outer = outer
    left = left
    right = right
    inner = inner
    rival = rival
    None = None
    Null = Null
    Zero = Zero
    Nonzero = Nonzero
    Task = {outer, left, right, inner, rival}
    Parent <- MCParent
    Context <- MCContext
    Tester = left
SPECIFICATION MCSpec
INVARIANTS
    WorkUnderLease
    NestedNeverRefused
    ResultTruthful
PROPERTIES
    ImplementsExclusiveLock
    LockReturned
