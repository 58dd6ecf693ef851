CONSTANTS
    Req = {q1}
    Other = {}
    MaxLog = 10
    Crashes = TRUE
    None = None
    Text = {x, y}
    Waived <- FewScopes
    MaxCycles = 1
    MaxWaivers = 2
SPECIFICATION WaiverSpec
CHECK_DEADLOCK FALSE
INVARIANT NothingUnseen
PROPERTIES StaleForGood
