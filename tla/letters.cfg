SPECIFICATION LettersFairSpec
CONSTANTS
    Questions = {q1}
    NoQuestion = NoQuestion
    MaxPending = 1
    Ttl = 1
    MinAge = 1
    DefaultWindow = 1
    MaxLines = 2
    Retention = 2
    SnapshotKeep = 2
    Nudge = 2
    Decay = 1
    MaxLoyalty = 2
    FoldAge = 1
    RawRetention = 2
    WeekDays = 2
    LastDay = 4
    MaxCrashes = 1
    LastAsk = 1
    MaxUnlocks = 1
INVARIANTS ToldOnce TailIsGapless Remembered
PROPERTIES LettersSettle
CHECK_DEADLOCK FALSE
