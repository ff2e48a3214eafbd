CONSTANTS
    states = states
    stamp = stamp
    policy = policy
    t1 = t1
    t2 = t2
    Row = {states, stamp, policy}
    Stamp = stamp
    ReadOrder <- ViewOrder
    Writes <- SaveOrPut
    Thread = {t1}
    Restores = "never"
    MaxSerial = 2
SPECIFICATION Spec
INVARIANTS
    BannerIsTrue
    AnswersAreWhole
CHECK_DEADLOCK FALSE
