SPECIFICATION FairSpec
CONSTANTS
    repository = repository
    source = source
    skill = skill
    Constitution = Constitution
    Release = Release
    None = None
    Domain <- MCDomain
    Other <- MCOther
    Watched <- MCWatched
    Released <- MCOther
    Version <- MCVersion
    Sound <- MCSound
    Initial = 1
    Scoped = FALSE
    Required = TRUE
    Restore = FALSE
    MaxDisturbances = 2
INVARIANTS
    ReadyIsCurrent
PROPERTIES
    AdviceLeadsToReady
    GateSawOneTree
    ApprovalsAreEarned
CHECK_DEADLOCK FALSE
