SPECIFICATION ScenesSpec
CONSTANTS
    Req = {q1, q2}
    Ack = {a1}
    Fyi = {}
    MaxLapses = 1
    MaxTurns = 1
    MaxFaults = 1
    Session = {s1, s2}
    Path = {x1, x2}
    Unknown = Unknown
    NoOne = NoOne
    MaxEdits = 2
    MaxCommits = 2
    MaxAccepts = 2
SYMMETRY Symmetry
INVARIANTS StrandedOnlyByRace
PROPERTIES SweepOnlyByRace HeadStillUnderAcceptance
CHECK_DEADLOCK FALSE
