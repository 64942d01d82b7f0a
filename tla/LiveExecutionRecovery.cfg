SPECIFICATION Spec
CONSTANTS
    e1 = e1
    s1 = s1
    s2 = s2
    v1 = v1
    c1 = c1
    NoExecution = NoExecution
    Executions = {e1}
    Workers = {s1, s2, v1, c1}
    Submitters = {s1, s2}
    Reconcilers = {v1}
    Recoverers = {v1}
    Cancellers = {c1}
    Crashable = {s1, v1, c1}
    Quantity = 2
    MaxAttempts = 2
    FillsBeforeRejection = {0, 1}
INVARIANTS
    AtMostOneOrder
    OrdersInSight
    LedgerIsHonest
    RecoverAsksAllowed
    TerminalIsQuiet
    PositionIsCurrent
PROPERTIES
    LedgerNeverShrinks
CHECK_DEADLOCK FALSE
