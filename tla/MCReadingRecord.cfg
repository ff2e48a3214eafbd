CONSTANTS
    b1 = b1
    b2 = b2
    Book = {b1, b2}
    MaxDay = 3
    MaxLog = 1
    Horizons = {0, 1}
SPECIFICATION Spec
SYMMETRY Symmetry
INVARIANTS
    RecordObeysPolicy
    ForgottenAreGone
    KeptHistoryHasEvidence
PROPERTIES
    ForgetsAreRemembered
    HorizonKeepsTheShelf
CHECK_DEADLOCK FALSE
