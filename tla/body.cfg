\* Two souls, two gifts, one crash: needs, collapse, feeding and recovery.
SPECIFICATION BodySpec
CONSTANTS
    s1 = s1
    s2 = s2
    Souls = {s1, s2}
    Busy = {s1}
    Feeds = {k1, k2}
    Nobody = Nobody
    SatFull = 8
    Starving = 4
    RestRate = 4
    HpFull = 8
    Chip = 8
    RestNeeded = 16
    EatGain = 4
    Capacity = 1
    StartEssence <- StartEssenceDef
    Gap = 2
    Saved <- SavedDef
    MaxSpans = 5
    MaxGathers = 1
    MaxFunds = 1
    MaxSaves = 1
    MaxFaults = 1
    MaxCrashes = 1
SYMMETRY FeedSymmetry
INVARIANTS OneGiftOneRecovery DecayComposes
CHECK_DEADLOCK FALSE
