SPECIFICATION FairSpec
CONSTANTS
    w1 = w1
    p1 = p1
    p2 = p2
    Workers = {w1}
    Panickers = {p1, p2}
    Crashable = {p1}
    Milestones = {"TP1"}
INVARIANTS
    TypeOK
    QuantityAddsUp
    LedgerMissesNothing
PROPERTIES
    OnlyOvertakenReopens
    Settles
