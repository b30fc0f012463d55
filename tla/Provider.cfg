SPECIFICATION WholeFairSpec
CONSTANTS
    VMs = {v1, v2}
    Nil = Nil
    HasNetwork = TRUE
    InfraFirst = FALSE
    Upsets = {"patch", "crash", "stale", "vmGone", "guestOff", "pause"}
    MaxUpsets = 1
    MaxLag = 2
INVARIANTS
    ClusterTypeOK
    NoVMBeforeCluster
PROPERTIES
    ReadyCompletes
    WholeProvisions
CHECK_DEADLOCK FALSE
