CONSTANTS
    t1 = t1
    t2 = t2
    Test = {t1, t2}
    Req = {q1, q2}
    Verifies <- AllVerify
    MaxBody = 2
    MaxSource = 3
    FirstTest <- Declared
    Renames <- OneRename
    MaxCycles = 3
    MaxLog = 5
    MaxTorn = 1
SPECIFICATION Spec
SYMMETRY Symmetry
CHECK_DEADLOCK FALSE
INVARIANTS DisorderOnlyByMigration CleanMeansPassed
PROPERTIES AppendOnly SilencedByOwnMarkerOnly
