CONSTANTS
    Approvals = {a1, a2}
    Requests = {r1, r2, r3, r4, r5}
    None = None
    Serial = TRUE
    CanCrash = TRUE
    StoreCanFail = TRUE
SPECIFICATION Spec
SYMMETRY Symmetry
INVARIANTS
    DeniedNeverRuns
PROPERTIES
    ImplementsRetryLifecycle
CHECK_DEADLOCK FALSE
