CONSTANTS
    states = states
    stamp = stamp
    policy = policy
    t1 = t1
    t2 = t2
    Row = {states, stamp, policy}
    Stamp = stamp
    ReadOrder <- ViewOrder
    Writes <- SaveOrPut
    Thread = {t1, t2}
    Restores = "stopped"
    MaxSerial = 2
SPECIFICATION Spec
SYMMETRY Symmetry
INVARIANTS
    NoStaleAnswer
    CacheIsFresh
CHECK_DEADLOCK FALSE
