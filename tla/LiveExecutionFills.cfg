SPECIFICATION FairWatchSpec
CONSTANTS
    e1 = e1
    s1 = s1
    r1 = r1
    NoExecution = NoExecution
    Executions = {e1}
    Workers = {s1, r1}
    Submitters = {s1}
    Reconcilers = {r1}
    Recoverers = {}
    Cancellers = {}
    Crashable = {r1}
    Quantity = 2
    MaxAttempts = 1
    FillsBeforeRejection = {0}
PROPERTIES
    FillsAreComplete
CHECK_DEADLOCK FALSE
