\* An id that is taken back and used again, under the tick loop's fairness.
SPECIFICATION FairSpec
CONSTANTS
    Keys = {k1, k2, k3}
    ClientListings = {l1}
    s1 = s1
    s2 = s2
    t1 = t1
    food = food
    Souls = {s1}
    Tamers = {t1}
    Operator = Operator
    Items = {food}
    Minted = Minted
    NoRequest = NoRequest
    NoListing = NoListing
    NoLot = NoLot
    NoActor = NoActor
    StartEssence <- MCEssence
    StartItems <- MCItems
    StartMarket <- MCListed
    Custodian <- MCCustodian
    Requests <- ReusedRequests
    Gifts = {50}
    MaxGifts = 1
    PumpLimit = 2
    MaxCrashes = 1
    MaxFaults = 1
    MaxLost = 1
CHECK_DEADLOCK FALSE
INVARIANTS
    NothingCreated
PROPERTIES
    SettledWhileTicking
