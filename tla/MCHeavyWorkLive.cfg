SPECIFICATION FairSpec
CONSTANTS
    p1 = p1
    p2 = p2
    p3 = p3
    Proc <- ThreeProcs
    MaxDepth = 1
    MaxOrder = 3
    Requests = {"light"}
    Probed = {}
PROPERTIES WaitersProceed
CHECK_DEADLOCK FALSE
