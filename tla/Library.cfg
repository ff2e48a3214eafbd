CONSTANTS
    d1 = d1
    k1 = k1
    k2 = k2
    NoDoc = NoDoc
    Me = Me
    Other = Other
    Nobody = Nobody
    Title = {1, 2}
    KeyOf <- SmallKeyOf
    Bid = {1, 2}
    Doc = {d1}
    TitleOf <- SmallTitleOf
    Shelves <- SmallShelves
    MaxTime = 2
    MaxChanges = 3
SPECIFICATION LibrarySpec
INVARIANTS
    OneReader
    FreshestWins
    EveryBookOnce
    MeterIsMeasured
CHECK_DEADLOCK FALSE
