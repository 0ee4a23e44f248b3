SPECIFICATION FairSpec
CONSTANTS
    s1 = s1
    s2 = s2
    Souls = {s1, s2}
    Calls <- MCCalls
    Rates = {1, 2}
    StartEssence <- MCEssence
    NoCall = NoCall
    NoIntent = NoIntent
    QuipPrice = 1
    MaxUsage = 2
    MaxBatches = 4
    MaxPricings = 1
    MaxCrashes = 1
    MaxFaults = 2
CHECK_DEADLOCK FALSE
INVARIANTS
    ChargesAccounted
PROPERTIES
    ChargeFinal
    ShortOnlyWhenEmpty
    AllMetered
