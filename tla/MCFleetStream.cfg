SPECIFICATION StreamSpec
CONSTANTS
    Key = {k1, k2, k3}
    Lasting = {k1}
    PageSize = 1
    MaxEvents = 3
INVARIANT NothingSkipped
