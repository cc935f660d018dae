SPECIFICATION Spec
CONSTANTS
    KNI_KTHREAD = 5
    Mbuf = {m1}
    Hdr <- MCHdrUnknown
    DISABLE_NF = FALSE
    PKT_BURST_SZ = 2
    RingCap = 2
    KniFifo = 2
    NoHdr = NoHdr
CHECK_DEADLOCK FALSE
INVARIANTS
    UnroutedDropped
