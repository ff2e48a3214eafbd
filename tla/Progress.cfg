CONSTANTS
    k1 = k1
    p1 = p1
    Key = {k1}
    Proc = {p1}
    Ttl = 1
    MaxElapsed = 1
    MaxStamp = 2
    MaxChanges = 3
    MortalAt <- OutsideTheSave
SPECIFICATION FairSpec
INVARIANTS
    TypeOK
    FreshnessIsHonest
    SkipShowsTheCache
PROPERTIES
    ValuesOutliveErrors
    ProgressArrives
CHECK_DEADLOCK FALSE
