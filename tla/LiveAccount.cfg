CONSTANTS
    demo = demo
    production = production
    call1 = call1
    call2 = call2
    worker = worker
    command = command
    NoKey = NoKey
    Keys = {demo, production}
    DemoKeys = {demo}
    Enablers = {call1}
    Watchers = {worker}
    Commands = {command}
SPECIFICATION FairSpec
INVARIANTS
    TypeOK
    LiveIsArmed
PROPERTIES
    EnablingIsEarned
    SwitchIsFinal
    DivergenceStops
CHECK_DEADLOCK FALSE
