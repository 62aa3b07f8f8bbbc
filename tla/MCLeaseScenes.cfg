SPECIFICATION ScenesSpec
CONSTANTS
    main = main
    kid = kid
    other = other
    pm = pm
    pn = pn
    pk = pk
    po = po
    x = x
    anchor = anchor
    task = task
    Agents = {main, kid, other}
    AnchorOf <- MCAnchorOf
    Marked = {main}
    Procs = {pm, pn, pk, po}
    AgentOf <- MCAgentOf
    Paths = {x}
    Root = Root
    Tasks = {task}
    Ids = {i1, i2}
    Ttl = 0
    Unknown = Unknown
    None = None
    Attempts = 2
    MaxTime = 1
    MaxFaults = 1
    Requests <- AllRequests
    MaxCalls <- TwoCallsEach
SYMMETRY IdSymmetry
INVARIANTS OneHold
PROPERTIES LiveLeaseKept WriterKept NoUpdateLost
CHECK_DEADLOCK FALSE
