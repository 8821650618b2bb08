SPECIFICATION FairSpec
CONSTANTS
    Threshold = 2
    Handler = TRUE
    MaxDials = 1
    MaxStops = 0
    MaxFlips = 0
    MaxTalk = 1
INVARIANTS
    TypeOK
    
    HookOncePerOutage
PROPERTIES
    DeadMeansSilent
CHECK_DEADLOCK FALSE
