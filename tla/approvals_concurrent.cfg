\* Five calls from any threads on one approval, with crashes and failing store operations.
CONSTANTS
    Approvals = {a1}
    Requests = {r1, r2, r3, r4, r5}
    None = None
    Serial = FALSE
    CanCrash = TRUE
    StoreCanFail = TRUE
SPECIFICATION Spec
SYMMETRY Symmetry
INVARIANTS
    TypeOK
    RunsFollowApproval
    EvidenceHasCause
    AnswersAreTrue
PROPERTIES
    ReplayBlockedAfterAnswer
    NoDecisionAfterAnswer
    ImplementsRace
\* The calls are finitely many; when all are answered nothing is left to do.
CHECK_DEADLOCK FALSE
