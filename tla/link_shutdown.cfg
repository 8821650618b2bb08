SPECIFICATION FairSpec
CONSTANTS
    Threshold = 2
    Handler = FALSE
    MaxDials = 1
    MaxStops = 1
    MaxFlips = 0
    MaxTalk = 1
INVARIANT
    NoRecoveryInShutdown
CHECK_DEADLOCK FALSE
