\* A minted listing, a purchase or two, a gift, one crash and one failure.
SPECIFICATION AuditSpec
CONSTANTS
    Keys = {k1, k2, k3}
    ClientListings = {}
    s1 = s1
    s2 = s2
    t1 = t1
    food = food
    Souls = {s1, s2}
    Tamers = {t1}
    Operator = Operator
    Items = {food}
    Minted = Minted
    NoRequest = NoRequest
    NoListing = NoListing
    NoLot = NoLot
    NoActor = NoActor
    StartEssence <- MCEssence
    StartItems <- MCItems
    StartMarket <- MCListed
    Custodian <- MCCustodian
    Requests <- MintedRequests
    Gifts = {50}
    MaxGifts = 1
    PumpLimit = 2
    MaxCrashes = 1
    MaxFaults = 1
    MaxLost = 1
    NoBaseline = NoBaseline
    RepairModes = {FALSE}
    Watched = {s1}
SYMMETRY KeySymmetry
CHECK_DEADLOCK FALSE
INVARIANTS
    NothingOverdrawn EscrowFollowsIntent NoStrandedEscrow PostedOnce
    LedgerExplainsWallets EssenceConserved ItemsConserved OldestFirst
PROPERTIES
    OutcomeFinal SalesAreExchanges AuditBlamesHolds
