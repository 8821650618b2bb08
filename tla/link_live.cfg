SPECIFICATION FairSpec
CONSTANTS
    Threshold = 1
    Handler = FALSE
    MaxDials = 1
    MaxStops = 1
    MaxFlips = 1
    MaxTalk = 0
PROPERTIES
    
    DialingReleased
    
CHECK_DEADLOCK FALSE
