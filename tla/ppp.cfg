SPECIFICATION FairSpec
CONSTANTS
    Setups <- MCSetups
    MaxDials = 2
    MaxStops = 1
    MaxFaults = 1
INVARIANTS
    TypeOK
    StoppedIsDown
    HangUpTolerates
PROPERTIES
    UpMeansAgreed
    CredentialsOnRequest
    StopReturns
    NegotiationSettles
CHECK_DEADLOCK FALSE
