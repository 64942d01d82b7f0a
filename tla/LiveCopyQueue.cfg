SPECIFICATION FairQueueSpec
CONSTANTS
    NoExecution = NoExecution
    e1 = e1
    d1 = d1
    d2 = d2
    r1 = r1
    Executions = {e1}
    Workers = {d1, d2}
    Submitters = {d1, d2}
    Reconcilers = {d1, d2}
    Recoverers = {d1, d2}
    Cancellers = {}
    Crashable = {d1, d2}
    Quantity = 1
    MaxAttempts = 1
    FillsBeforeRejection = {0}
    Dispatchers = {d1, d2}
    Mortal = {d1}
    MaxTries = 2
INVARIANTS
    QueueTypeOK
    RowsAreTrue
    RetryMeansUntouched
    TriesAreBounded
PROPERTIES
    ClaimsEnd
CHECK_DEADLOCK FALSE
