\* No failures and no approval service: the calls alone suffice.
CONSTANTS
    Calls = {c1, c2}
    Earlier = {}
    Agents = {a1}
    CanFail = FALSE
    HasApprovals = TRUE
    MaxReviews = 0
SPECIFICATION Spec
INVARIANT QuarantinedNeverRuns
SYMMETRY Symmetry
CHECK_DEADLOCK FALSE
