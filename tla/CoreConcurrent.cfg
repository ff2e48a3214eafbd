CONSTANTS
    b1 = b1
    b2 = b2
    demo = demo
    p1 = p1
    p2 = p2
    Book = {b1}
    DemoBook = {}
    Proc = {p1, p2}
    Configs <- WorldConfigs
    Commands = {"refresh", "forget"}
    MortalAt = {}
    Alone = FALSE
    SameSecond = FALSE
    MaxDay = 1
    MaxLog = 1
    MaxMtime = 1
    MaxRev = 4
    MaxTaste = 1
SPECIFICATION Spec
PROPERTIES
    RevisionCoversView
CHECK_DEADLOCK FALSE
