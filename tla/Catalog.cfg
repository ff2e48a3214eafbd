CONSTANTS
    subject = subject
    stray = stray
    builtin = builtin
    Source <- OneOfEach
    UrlOf <- UrlsOfOneOfEach
    Demo = builtin
    Ttl = 1
    MaxElapsed = 1
    MaxVersion = 2
    MaxChanges = 2
    MortalAt <- AllSteps
SPECIFICATION FairSpec
INVARIANTS
    OnlyAllowlistedHosts
    PoolAgeIsHonest
    WorldsDoNotMix
    FreshIsTrue
PROPERTIES
    LastGoodBooksStay
    PoolCatchesUp
CHECK_DEADLOCK FALSE
