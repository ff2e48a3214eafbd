CONSTANTS
    k = k
    o = o
    Book = {k, o}
    OnKOReader = {k}
    MaxDay = 3
    MaxLog = 1
    MaxPages = 1
    YearOf <- TwoDayYear
    Horizons = {0, 1, 2}
SPECIFICATION ActivitySpec
INVARIANTS
    StreaksAreRuns
    FullYearsAreWhole
    AbsenceIsAttributed
CHECK_DEADLOCK FALSE
