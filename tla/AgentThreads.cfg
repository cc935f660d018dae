SPECIFICATION FairSpec
CONSTANTS
    CPU = {0, 1, 2}
    HomeCpu = 0

    
    
PROPERTIES
    GlobalSchedules
    
CHECK_DEADLOCK FALSE
