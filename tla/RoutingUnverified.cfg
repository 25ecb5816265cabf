CONSTANTS
    Operational <- TwoStates
    Types <- TwoMatrices
    FirstType = "splitter"
    FirstRouting <- Straight
    Sizes = {1}
    MaxDevices = 2
    MaxPort = 1
    MaxRequests = 4
    MaxTurns = 1
SPECIFICATION Spec
PROPERTY UnverifiedIsFlagged
CHECK_DEADLOCK FALSE
