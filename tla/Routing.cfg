CONSTANTS
    Operational <- TwoStates
    Types <- TwoMatrices
    FirstType = "splitter"
    FirstRouting <- Straight
    Sizes = {1}
    MaxDevices = 2
    MaxPort = 1
    MaxRequests = 3
    MaxTurns = 1
SPECIFICATION Spec
INVARIANT TypeOK
PROPERTY CheckedRouting
PROPERTY ObservedSettles
CHECK_DEADLOCK FALSE
