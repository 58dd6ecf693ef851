CONSTANTS
    Skill = {k1, k2}
    OtherTool = OtherTool
    Replacement = Replacement
    s1 = s1
    s2 = s2
    Sessions <- MCSessions
    FileSets <- MCFileSets
    Modes = {"compatible", "strict"}
    MaxTime = 7
    MaxTimeDeclared = 6
    MaxTimeWaived = 4
    MaxDeclared = 2
    MaxWaivers = 2
    None = None
SPECIFICATION Spec
SYMMETRY Symmetry
CHECK_DEADLOCK FALSE
INVARIANTS BindingComplete SanitizedVerifies WaiverCoversReviewed LinkLostByCollision
PROPERTY AllWaived
