\* Two calls of any callers for one agent, every policy result and risk class, an
\* approval of that agent left by an earlier process, one observation of the approval
\* service, and one run of get_stats, with failures.
CONSTANTS
    Calls = {c1, c2}
    Earlier = {h1}
    Agents = {a1}
    CanFail = TRUE
    HasApprovals = TRUE
    MaxReviews = 1
SPECIFICATION Spec
\* No property below orders the calls.
SYMMETRY Symmetry
INVARIANTS
    TypeOK
    RunsOnlyIfAllowed
    CountsAddUp
    ReportAddsUp
    RejectionsLogged
    ChainMatchesAnswers
    TrustHasEvidence
    QueuedStayUntouched
    NoRewardForRisk
PROPERTIES
    RefusedAgentsNeedPolicy
\* Calls are one-shot: the system stops when all are answered.
CHECK_DEADLOCK FALSE
