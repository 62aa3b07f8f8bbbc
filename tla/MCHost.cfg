SPECIFICATION ScenesSpec
CONSTANTS
    lead = lead
    other = other
    support = support
    shared = shared
    facet = facet
    Key = {k1, k2, k3}
    Lasting = {k1}
    PageSize = 2
    MaxEvents = 4
    None = None
    Cli = {c1, c2}
    Launch = {l1}
    Ops = {"rebuild", "restart", "heal", "start", "stop"}
    Scopes = {"full", "backend", "frontend", "manual"}
    Inside = {None}
    HealsIn = None
    Commit = {1, 2}
    Ancestry <- CommitAncestry
    MaxBuilds = 5
    MaxSlips = 1
    Proc = {p1, p2}
    Root = {lead, other, support}
    LeadOf <- SupportOf
    Alloc <- Allocations
    MaxGen = 2
    MaxCalls = 3
    Subvol = {"home", "projects"}
    Stream = {"dump"}
    Guest = {"guest"}
    JobOrder <- Jobs
    LegacyAfter = 1
    MaxRuns = 2
    MaxCopies = 2
    MaxCommands = 1
    MaxRequests = 0
    MaxChecks = 1
    MaxFaults = 1
    Reserve = 0
SYMMETRY Symmetry
INVARIANTS OneAlivePerAllocation PruningKeepsReleases
    LastGoodRestorable ReadsOneRun
PROPERTIES NothingEntersClosed EmptyMeansQuiet ForwardOnly HealOntoMigratedOnly
    DriveKeepsCopies VerifyRecordKept
CHECK_DEADLOCK FALSE
