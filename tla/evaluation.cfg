\* Any part of the default policies, three edits by hand, an agent with at most two
\* observations of three ages, one request.
CONSTANTS
    Extra <- OwnRules
    MaxEdits = 3
    Served = {5, 23}
    MaxObservations = 2
    MaxAge = 2
SPECIFICATION Spec
INVARIANTS
    TypeOK
    FirstMatchingRuleWins
    PartialLoadFailsClosed
    DefaultRulesDecide
    RiskGrows
    StatsAreCurrent
    TierIsAbstracted
PROPERTIES
    EvidenceMovesScoreItsWay
\* The file, the edits and the evaluations are finitely many.
CHECK_DEADLOCK FALSE
