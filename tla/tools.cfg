\* Four requests to one of the six tools, on two registries.
CONSTANTS
    Paths = {"p", "q"}
    Addresses = {"a", "b"}
    Endpoints = {"e"}
    Tables = {"t", "u"}
    MaxCalls = 4
    MaxLives = 1
SPECIFICATION Spec
INVARIANTS
    TypeOK
    IdsKeepTheirMeaning
PROPERTIES
    FailureChangesNothing
    RowsLeaveOnlyWhenAsked
\* The requests and the registries are finitely many.
CHECK_DEADLOCK FALSE
