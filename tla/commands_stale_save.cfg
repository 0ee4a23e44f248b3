\* Nothing is lost and nothing crashes: two writers are enough.
SPECIFICATION SimSpec
CONSTANTS
    Calls = {c1, c2}
    Own = Own
    Free = Free
    NoSoul = NoSoul
    Starter = 2
    Price = 2
    PerDay = 1
    LastDay = 1
    MaxLost = 0
    MaxOutside = 1
    MaxCrashes = 0
SYMMETRY CallSymmetry
INVARIANT SavesKeepWallets
CHECK_DEADLOCK FALSE
