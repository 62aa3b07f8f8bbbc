SPECIFICATION ScenesSpec
CONSTANTS
    p1 = p1
    p2 = p2
    a = a
    b = b
    s1 = s1
    s2 = s2
    Proc = {p1, p2}
    Worker = {a, b}
    WorkerOf <- TwoWorkers
    Source = {s1}
    Landed = {s1, s2}
    NoWorker = NoWorker
    NoSource = NoSource
    NoProc = NoProc
    Required = TRUE
    MaxClaims = 3
    MaxRequests = 2
    MaxStops = 1
INVARIANTS SupersededStaysDead AcceptanceOfThisClaim
PROPERTIES RequestCompletesItsClaim CleanupSparesOpenWork
