SPECIFICATION FairSpec
CONSTANTS
    a = a
    b = b
    c = c
    Adapters = {a, b, c}
    Wishes <- MCWishes
    Nil = Nil
    MaxOnVM = 2
    Upsets = {"call", "lostReply", "patch", "crash"}
    MaxUpsets = 2
INVARIANTS
    TypeOK
    NoneAddedTwice
    AddedInOrder
    BrokenBounded
PROPERTIES
    CompleteUntouched
    ImplementsConfigPart
    AdaptersSettle
CHECK_DEADLOCK FALSE
