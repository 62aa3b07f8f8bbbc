SPECIFICATION Spec
CONSTANTS
    p1 = p1
    p2 = p2
    p3 = p3
    Proc <- ThreeProcs
    MaxDepth = 2
    MaxOrder = 3
    Requests = {"heavy", "light"}
    Probed = {"heavy"}
SYMMETRY ProcSymmetry
INVARIANTS
    LaneExclusive
    GenerationStable
    OneContextPerDepth
PROPERTIES
    NoOvertaking
CHECK_DEADLOCK FALSE
