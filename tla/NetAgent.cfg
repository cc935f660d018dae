SPECIFICATION Spec
CONSTANTS
    t1 = t1
    t2 = t2
    NoTask = NoTask
    Task = {t1, t2}
    NumCpus = 2
    EngineThread = {t1}
    Memcached = {t2}
    HomeCpu = 0
    MaxMsgs = 2
    enforce_affinity_mask_ = FALSE
    allowed_cpulist <- MCAnyCpu
    siblings <- MCSiblings
    l3_siblings <- MCL3
    numa_node <- MCNuma
    KernelEvents = {"arrive", "wake", "yield", "switchto", "refuse", "cfs", "die", "depart"}
INVARIANTS
    TypeOK
    
    PlacedOnce
    CpuExclusive
    NoThreadLost
    BoostOrPreempted
