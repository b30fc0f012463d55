SPECIFICATION FairSpec
CONSTANTS
    f = f
    g = g
    h = h
    p = p
    q = q
    Ids = {f, g, h}
    Paths = {p, q}
    Nil = Nil
    Wishes <- MCWishes
    Upsets = {"call", "lostReply", "patch", "crash"}
    MaxUpsets = 3
INVARIANT TypeOK
PROPERTIES
    WantedStays
    ImplementsConfigPart
    FoldersSettle
CHECK_DEADLOCK FALSE
