CONSTANTS
    b1 = b1
    b2 = b2
    demo = demo
    p1 = p1
    p2 = p2
    Book = {b1}
    DemoBook = {}
    Proc = {p1}
    Configs <- HorizonConfigs
    Commands = {"refresh", "forget"}
    MortalAt <- OutsideTheRecord
    Alone = TRUE
    SameSecond = FALSE
    MaxDay = 3
    MaxLog = 1
    MaxMtime = 3
    MaxRev = 6
    MaxTaste = 0
SPECIFICATION Spec
INVARIANTS
    SkipIsSound
    ForgottenStayGone
    RecordObeysPolicy
PROPERTY CommandsAreAtomic
CHECK_DEADLOCK FALSE
