CONSTANTS
    floor = floor
    own = own
    plain = plain
    harmless = harmless
    Book = {1, 2}
    Label = {floor, own, plain, harmless}
    Tags <- SmallTags
    Builtin <- BuiltinLenses
    Own = Own
    Bold = Bold
    LensFiles = {Own, Bold}
    Grouping <- SmallGrouping
    MaxChanges = 3
SPECIFICATION Spec
INVARIANTS
    FloorHolds
    LensIsHonoured
    SearchConfirmsNothing
CHECK_DEADLOCK FALSE
