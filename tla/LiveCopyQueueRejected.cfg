SPECIFICATION QueueSpec
CONSTANTS
    NoExecution = NoExecution
    e1 = e1
    d1 = d1
    d2 = d2
    r1 = r1
    Executions = {e1}
    Workers = {d1, r1}
    Submitters = {d1}
    Reconcilers = {d1, r1}
    Recoverers = {d1}
    Cancellers = {}
    Crashable = {d1}
    Quantity = 1
    MaxAttempts = 1
    FillsBeforeRejection = {0}
    Dispatchers = {d1}
    Mortal = {}
    MaxTries = 2
INVARIANTS
    RejectedIsResolved
CHECK_DEADLOCK FALSE
