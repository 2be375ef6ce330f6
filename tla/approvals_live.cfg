CONSTANTS
    Approvals = {a1}
    Requests = {r1, r2, r3}
    None = None
    Serial = FALSE
    CanCrash = TRUE
    StoreCanFail = TRUE
SPECIFICATION FairSpec
PROPERTIES
    RunsAreRecorded
    CallsAreAnswered
CHECK_DEADLOCK FALSE
