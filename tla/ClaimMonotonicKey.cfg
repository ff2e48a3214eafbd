CONSTANTS
    states = states
    stamp = stamp
    policy = policy
    t1 = t1
    t2 = t2
    Row = {states, stamp, policy}
    Stamp = stamp
    ReadOrder <- ViewOrder
    Writes <- SaveOrPut
    Thread = {t1}
    Restores = "running"
    MaxSerial = 3
SPECIFICATION Spec
INVARIANT
    CacheIsFresh
CHECK_DEADLOCK FALSE
