CONSTANTS
    b1 = b1
    demo = demo
    p1 = p1
    p2 = p2
    Book = {b1, demo}
    DemoBook = {demo}
    Proc = {p1, p2}
    Configs <- PlainOrDemo
    Commands = {"refresh", "forget"}
    MortalAt = {}
    Alone = FALSE
    SameSecond = FALSE
    MaxDay = 2
    MaxLog = 1
    MaxMtime = 1
    MaxRev = 6
    MaxTaste = 0
SPECIFICATION Spec
INVARIANTS
    IndexFaithful
    OriginIsTruthful
PROPERTY ForgetsAreRemembered
CHECK_DEADLOCK FALSE
