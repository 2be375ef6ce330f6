\* Two requests of one agent, three overlapping reviews, a failing store, one restart.
CONSTANTS
    Requests = {q1, q2}
    Reviews = {r1, r2, r3}
    Direct = Direct
    HasService = TRUE
    CanFail = TRUE
    MaxRestarts = 1
    MaxObservations = 2
    MaxAge = 0
SPECIFICATION Spec
SYMMETRY Symmetry
INVARIANTS
    NothingRunsUnreviewed
PROPERTIES
    ImplementsLoop
\* Everything is finite.
CHECK_DEADLOCK FALSE
