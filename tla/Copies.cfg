CONSTANTS
    b1 = b1
    b2 = b2
    Book = {b1, b2}
    MaxBackups = 2
    MaxForgets = 2
SPECIFICATION Spec
SYMMETRY Books
INVARIANTS
    LineageRemembers
PROPERTY
    ReceiptIsTrue
CHECK_DEADLOCK FALSE
