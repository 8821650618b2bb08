SPECIFICATION FairSpec
CONSTANTS
    Channels = 2
    Entry = entry
    Target = target
    Setups <- MCSetups
    MaxSessions = 2
    MaxFaults = 2
INVARIANTS
    TypeOK
    UsableGranted
    CloseTolerates
PROPERTIES
    
    ReportTrue
    Reattach
    
CHECK_DEADLOCK FALSE
