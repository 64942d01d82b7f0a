SPECIFICATION FairSpec
CONSTANTS
    w1 = w1
    p1 = p1
    p2 = p2
    Workers = {w1}
    Panickers = {p1}
    Crashable = {}
    Milestones = {"TP1", "TP2"}
PROPERTY
    NeverReopens
