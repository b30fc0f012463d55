SPECIFICATION Spec
CONSTANTS
    VMs = {v1, v2}
    Nil = Nil
    HasNetwork = TRUE
    InfraFirst = TRUE
    Upsets = {"earlyDelete"}
    MaxUpsets = 1
    MaxLag = 2
INVARIANT FinalizerCleansUp
CHECK_DEADLOCK FALSE
