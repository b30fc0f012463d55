SPECIFICATION Spec
CONSTANTS
    VMs = {v1, v2}
    Nil = Nil
    HasNetwork = TRUE
    InfraFirst = TRUE
    Upsets = {"vmGone"}
    MaxUpsets = 1
    MaxLag = 2
INVARIANT AddressesOfTheVM
CHECK_DEADLOCK FALSE
