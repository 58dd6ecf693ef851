SPECIFICATION FairSpec
CONSTANTS
    Mutating = TRUE
    Flawed <- MCFlawed
    MaxDisturbances = 2
    None = None
INVARIANTS
    CorrespondenceTruthful
    TestedTwice
PROPERTIES
    Settles
CHECK_DEADLOCK FALSE
