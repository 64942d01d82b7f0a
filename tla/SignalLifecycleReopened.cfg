CONSTANTS
    i1 = i1
    i2 = i2
    long1 = long1
    long2 = long2
    short = short
    tracker = tracker
    tracker2 = tracker2
    user = user
    recorder = recorder
    recorder2 = recorder2
    Ids = {i1, i2}
    Plans = {long1, long2, short}
    Long = {long1, long2}
    Trackers = {tracker}
    Users = {user}
    Recorders = {recorder, recorder2}
SPECIFICATION Spec
PROPERTY ManualStopIsTerminal
CHECK_DEADLOCK FALSE
