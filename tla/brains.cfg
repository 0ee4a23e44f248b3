\* One soul between the pool and the worker.
SPECIFICATION BrainsFairSpec
CONSTANTS
    Souls = {s1}
    NoSoul = NoSoul
    MaxPerTick = 1
    Failures = 1
    MaxLegs = 2
    MaxNotes = 1
INVARIANTS OneBrain
PROPERTIES PacedThinks EventsAnswered
