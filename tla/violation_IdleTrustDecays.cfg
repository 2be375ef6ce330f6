\* One agent with at most two observations, and a clock of three half-lives.
CONSTANTS
    MaxObservations = 2
    MaxAge = 3
SPECIFICATION TrustSpec
INVARIANT IdleTrustDecays
\* The clock stops.
CHECK_DEADLOCK FALSE
