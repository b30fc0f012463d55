SPECIFICATION FairSpec
CONSTANTS
    VMs = {v1, v2}
    Nil = Nil
    HasNetwork = TRUE
    InfraFirst = TRUE
    Upsets = {"call", "lostReply", "patch", "crash", "stale", "staleCluster", "earlyDelete", "vmGone", "guestOff", "noAddress"}
    MaxUpsets = 1
    MaxLag = 2
PROPERTIES
    DeleteCompletes
    ProvisionCompletes
    PowerRestored
CHECK_DEADLOCK FALSE
