SPECIFICATION Spec
CONSTANTS
    LenBase = 8
    Flag = 13
    PppFlag = 14
    PppEsc = 10
    PppAddr = 11
    PppCtrl = 1
    Controls = {0, 1}
    Bit = 2
    N1 = 8
    Ways <- MCWays
    Packets <- MCPackets
    Texts <- MCTexts
    FcsValues = {13}
    Noise = {0, 13}
    MaxSends = 2
    MaxFaults = 1
    MaxLead = 1
    MaxSplits = 1
    MaxCommands = 1
INVARIANTS TypeOK CleanLineKeepsAll OneGapPerFault AnswersKept
PROPERTIES FramesKept 
CHECK_DEADLOCK FALSE
