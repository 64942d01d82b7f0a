SPECIFICATION FairSpec
CONSTANTS
    k1 = k1
    w1 = w1
    w2 = w2
    NoKey = NoKey
    Keys = {k1}
    Workers = {w1, w2}
    Crashable = {w2}
    MaxAttempts = 2
    Answers = {"success", "refused", "raises"}
INVARIANTS
    TypeOK
    ExecutedIsFilled
PROPERTIES
    FilledOnce
    TerminalIsFinal
    OnlyOvertakenStrands
    KeepsJob
    LeasedClaimsEnd
CHECK_DEADLOCK FALSE
