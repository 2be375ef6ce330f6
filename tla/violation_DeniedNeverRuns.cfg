CONSTANTS
    Approvals = {a1}
    Requests = {r1, r2, r3, r4}
    None = None
    Serial = FALSE
    CanCrash = FALSE
    StoreCanFail = FALSE
SPECIFICATION Spec
SYMMETRY Symmetry
INVARIANT DeniedNeverRuns
CHECK_DEADLOCK FALSE
