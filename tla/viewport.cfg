\* One soul and two of its streams; two connections, one of them lost.
SPECIFICATION ViewportSpec
CONSTANTS
    Souls = {s1}
    Domains = {"state","identity"}
    LastPlace = 1
    MoveEpsilon = 0
    SnapJump = 0
    HighWater = 4
    MaxSlow = 2
    RingSize = 1
    Window = 1
    MaxConns = 2
    MaxChanges = 2
    MaxLosses = 1
INVARIANTS BubblesFresh ReplayExact RestShows
CHECK_DEADLOCK FALSE
