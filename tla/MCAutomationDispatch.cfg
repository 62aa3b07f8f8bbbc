SPECIFICATION Spec
CONSTANTS
    w1 = w1
    w2 = w2
    c1 = c1
    c2 = c2
    k1 = k1
    k2 = k2
    Worker <- Workers
    Client <- Clients
    Key <- Keys
    MaxAttempts = 2
    MaxFaults = 1
    Reserve = 0
SYMMETRY Symmetry
INVARIANTS
    OneExecutor
    CancelSurvives
    BeforeExecutionIsHonest
    ToldTheTruth
    HumanCheckpointKept
PROPERTIES
    TerminalIsFinal
CHECK_DEADLOCK FALSE
