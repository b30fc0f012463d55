SPECIFICATION FairSpec
CONSTANTS
    Machines <- MCMachines
    Ethernets <- MCEthernets
    IPs = {i1, i2, i3}
    Params = {"userdata", "metadata", "metadata.encoding"}
    Nil = Nil
    Upsets = {"call", "lostReply", "patch", "crash", "withdraw"}
    MaxUpsets = 1
INVARIANTS
    TypeOK
    NoSharedAddress
    ProvidedComplete
PROPERTIES
    BootstrapDelivered
    AddressesReturned
CHECK_DEADLOCK FALSE
