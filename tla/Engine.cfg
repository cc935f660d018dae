SPECIFICATION Spec
CONSTANTS
    KNI_KTHREAD = 2
    AddrBits = 2
    Files <- MCFiles
    MaxRules = 2
    LcoreChoices <- MCLcores
    MayFail = {"eal", "pool", "calloc", "kni", "lpm"}
    Sources = {2, NotIpv4}
    NotIpv4 = NotIpv4
    Missing = Missing
    Garbled = Garbled
    NULL = NULL
CHECK_DEADLOCK FALSE
INVARIANTS
    
    
    PortsWhileRunning
