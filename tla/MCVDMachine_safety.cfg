SPECIFICATION Spec
CONSTANTS
    VMs = {v1, v2, v3}
    Nil = Nil
    HasNetwork = TRUE
    InfraFirst = FALSE
    Upsets = {"call", "lostReply", "patch", "crash", "stale", "staleCluster", "earlyDelete", "vmGone", "guestOff", "slowOff", "noAddress", "pause"}
    MaxUpsets = 2
    MaxLag = 3
SYMMETRY VMSymmetry
INVARIANTS
    TypeOK
    FinalizerHeld
    ProviderIDMatches
    NoLeak
    LeaksBounded
    PreparedBeforePowerOn
    ProviderIDAtBootstrap
PROPERTIES
    ReleasedOnlyWhenGone
    ImplementsOneVM
    ImplementsConfigParts
CHECK_DEADLOCK FALSE
