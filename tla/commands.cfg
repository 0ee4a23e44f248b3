\* Two requests, two timeouts, a wallet write from outside and a crash.
SPECIFICATION SimSpec
CONSTANTS
    Calls = {c1, c2}
    Own = Own
    Free = Free
    NoSoul = NoSoul
    Starter = 2
    Price = 2
    PerDay = 2
    LastDay = 1
    MaxLost = 2
    MaxOutside = 1
    MaxCrashes = 1
SYMMETRY CallSymmetry
INVARIANTS SlotsCovered WalletsExplained RetriesDoNotRepeat
CHECK_DEADLOCK FALSE
