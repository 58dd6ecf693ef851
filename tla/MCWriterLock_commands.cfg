CONSTANTS
    Command = {c1, c2, c3}
    Former = {c3}
    Recoverer = {r1}
    None = None
    SerialRecovery = TRUE
    Faults = TRUE
SPECIFICATION FairSpec
CHECK_DEADLOCK FALSE
INVARIANT LiveOwnerKeepsLock
PROPERTIES ImplementsExclusiveLock CommandsTerminate AbandonedLockCleared
