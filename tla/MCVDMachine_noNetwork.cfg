SPECIFICATION FairSpec
CONSTANTS
    VMs = {v1, v2}
    Nil = Nil
    HasNetwork = FALSE
    InfraFirst = TRUE
    Upsets = {}
    MaxUpsets = 0
    MaxLag = 2
PROPERTY ProvisionCompletes
CHECK_DEADLOCK FALSE
