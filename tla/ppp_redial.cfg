SPECIFICATION Spec
CONSTANTS
    Setups <- MCSetups
    MaxDials = 2
    MaxStops = 1
    MaxFaults = 1
PROPERTY
    RedialHears
CHECK_DEADLOCK FALSE
