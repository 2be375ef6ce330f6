\* Four calls record two decisions at two times, one client pages by two, and one
\* stored entry may be damaged.
CONSTANTS
    Calls = {c1, c2, c3, c4}
    Decisions = {allow, deny}
    Times = {t1, t2}
    Keys = {k1}
    Limit = 2
    CanDamage = TRUE
SPECIFICATION Spec
SYMMETRY Symmetry
INVARIANTS
    TypeOK
    VerifyTellsDamage
    ProofsLeadToRoot
    PagesAreComplete
    ReceiptsAreFound
\* The calls are finitely many, and a client stops when it has all.
CHECK_DEADLOCK FALSE
