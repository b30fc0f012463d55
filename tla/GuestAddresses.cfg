SPECIFICATION FairSpec
CONSTANTS
    MaxEthernets = 2
    NNics = 2
    IPv4 = {own, vip}
    IPv6 = {v6}
    Odd = Odd
    Upsets = {"call", "patch", "crash", "lose", "odd"}
    MaxUpsets = 3
INVARIANTS
    TypeOK
    EveryEthernetListed
PROPERTY AddressesRecorded
CHECK_DEADLOCK FALSE
