SPECIFICATION FairSpec
CONSTANTS
    KNI_KTHREAD = 2
    Mbuf = {m1, m2}
    Hdr <- MCHdrLive
    DISABLE_NF = FALSE
    PKT_BURST_SZ = 2
    RingCap = 2
    KniFifo = 2
    NoHdr = NoHdr
CHECK_DEADLOCK FALSE
PROPERTIES
    EveryPacketLeaves
    
