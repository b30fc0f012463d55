SPECIFICATION FairSpec
CONSTANTS
    Values = {x, y}
    Junk = Junk
    Nil = Nil
    Asked = {"enabled"}
    Generate = {"port", "password"}
    OnTemplate = {"enabled", "port", "password"}
    Upsets = {"call", "lostReply", "patch", "crash", "sameValue"}
    MaxUpsets = 3
INVARIANTS
    TypeOK
    GoesOnOnlyConfigured
PROPERTIES
    ImplementsConfigPart
    VncSettles
