SPECIFICATION RecoverySpec
CONSTANTS
    Souls = {s1}
    RoadEnd = 2
    Goals = {0, 2}
    Plot = {1}
    NoGoal = NoGoal
    Clean = Clean
    FlushEvery = 2
    SnapshotEvery = 3
    SnapshotKeep = 2
    BiologyEvery = 2
    FastForward = 2
    CatchUpMax = 3
    MaxNow = 6
    MaxMoves = 2
    MaxTrouble = 1
    MaxDeaths = 2
CHECK_DEADLOCK FALSE
INVARIANTS
    NeedsFollowTheClock

    
