SPECIFICATION Spec
CONSTANTS
    p1 = p1
    k1 = k1
    k2 = k2
    k3 = k3
    q1 = q1
    None = None
    Proc = {p1, p2}
    Thread = {t1, t2}
    MaxCalls = 6
    MaxUpsets = 2
    Client = {r1, r2}
    TTL = 2
    MaxTime = 3
PROPERTIES StreamDelivers Heard Healed WindowFollowsWriters AnsweredInTime RequestServed
CHECK_DEADLOCK FALSE
