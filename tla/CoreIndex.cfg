CONSTANTS
    b1 = b1
    b2 = b2
    demo = demo
    p1 = p1
    p2 = p2
    Book = {b1, b2, demo}
    DemoBook = {b2, demo}
    Proc = {p1}
    Configs <- WorldConfigs
    Commands = {"refresh", "forget", "backup", "restore"}
    MortalAt <- AllSteps
    Alone = TRUE
    SameSecond = FALSE
    MaxDay = 1
    MaxLog = 1
    MaxMtime = 1
    MaxRev = 5
    MaxTaste = 4
SPECIFICATION Spec
INVARIANTS
    TypeOK
    IndexFaithful
    OriginIsTruthful
CHECK_DEADLOCK FALSE
