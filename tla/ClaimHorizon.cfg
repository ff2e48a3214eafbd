CONSTANTS
    b1 = b1
    demo = demo
    p1 = p1
    p2 = p2
    Book = {b1}
    DemoBook = {}
    Proc = {p1}
    Configs <- HorizonOnly
    Commands = {"refresh"}
    MortalAt = {}
    Alone = TRUE
    SameSecond = FALSE
    MaxDay = 3
    MaxLog = 1
    MaxMtime = 1
    MaxRev = 4
    MaxTaste = 0
SPECIFICATION Spec
PROPERTY EveryRefreshEnforcesTheHorizon
CHECK_DEADLOCK FALSE
