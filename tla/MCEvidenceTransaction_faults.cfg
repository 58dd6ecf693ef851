CONSTANTS
    Target <- MCTarget
    Replaces <- MCReplaces
    Optional <- MCOptional
    MaxOps = 3
    PowerLoss = TRUE
    ReadFaults = FALSE
    Absent = Absent
    Torn = Torn
SPECIFICATION MCSpec
INVARIANT AllOrNothing
PROPERTIES ImplementsStore RecoverySparesLaterEvidence JournalResolved
