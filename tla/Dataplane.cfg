SPECIFICATION Spec
CONSTANTS
    KNI_KTHREAD = 2
    PKT_BURST_SZ = 2
    RingCap = 2
    KniFifo = 2
    Mbuf = {m1, m2, m3}
    Hdr <- MCHdr
    NoHdr = NoHdr
    DISABLE_NF = FALSE
SYMMETRY MCMbufSymmetry
CHECK_DEADLOCK FALSE
INVARIANTS
    CapacityOK
    OneOwner
    NoLeak
    EgressOK
PROPERTIES
    ImplementsFifo
    ReleasedIsFinal
