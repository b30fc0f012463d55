SPECIFICATION FairSpec
CONSTANTS
    Values = {x, y}
    Junk = Junk
    Nil = Nil
    Asked = {"enabled"}
    Generate = {"port", "password"}
    OnTemplate = {"enabled"}
    Upsets = {"call"}
    MaxUpsets = 1
PROPERTY VncSettles
