CONSTANTS
    b1 = b1
    demo = demo
    p1 = p1
    p2 = p2
    Book = {b1}
    DemoBook = {}
    Proc = {p1}
    Configs <- PlainOnly
    Commands = {"refresh", "forget"}
    MortalAt = {}
    Alone = TRUE
    SameSecond = FALSE
    MaxDay = 1
    MaxLog = 1
    MaxMtime = 2
    MaxRev = 8
    MaxTaste = 0
SPECIFICATION Spec
INVARIANT ForgottenLeaveNoRecord
CHECK_DEADLOCK FALSE
