SPECIFICATION ScenesSpec
CONSTANTS
    w1 = w1
    w2 = w2
    w3 = w3
    c1 = c1
    k1 = k1
    p1 = p1
    p2 = p2
    v1 = v1
    v2 = v2
    s1 = s1
    NoOwner = NoOwner
    NoSource = NoSource
    NoProc = NoProc
    Worker <- ThreeWorkers
    Client <- OneClient
    Key <- OneKey
    MaxAttempts = 2
    MaxFaults = 1
    Reserve = 1
PROPERTIES EveryRunSettles PendingCloseoutSettles
CHECK_DEADLOCK FALSE
