SPECIFICATION FairSpec
CONSTANTS
    Threshold = 2
    Handler = FALSE
    MaxDials = 1
    MaxStops = 1
    MaxFlips = 0
    MaxTalk = 1
PROPERTY
    AtUsableAfterRecovery
CHECK_DEADLOCK FALSE
