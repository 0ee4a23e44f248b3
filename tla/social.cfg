\* A thread of one message, three intents, one purse.
SPECIFICATION SocialSpec
CONSTANTS
    Keys = {k1, k2, k3}
    s1 = s1
    t1 = t1
    Souls = {s1}
    Tamers = {t1}
    Operator = Operator
    Custodian <- MCCustodian
    Legacy = {old}
    NoMessage = NoMessage
    NoParent = NoParent
    NoRequest = NoRequest
    Requests <- MCRequests
    PostCost = 2
    ReplyCost = 1
    MaxDepth = 1
    StartEssence <- MCStart
    MaxDrained = 1
    PumpLimit = 2
    MaxCrashes = 1
    MaxFaults = 1
    MaxLost = 1
SYMMETRY KeySymmetry
INVARIANTS BoardFollowsIntents PurseExplained
PROPERTIES NoReplyUnderTombstone
CHECK_DEADLOCK FALSE
