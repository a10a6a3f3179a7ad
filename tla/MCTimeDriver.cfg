SPECIFICATION FairSpec
CONSTANTS
    Tasks = {a, b}
    Sleeps = {s1, s2}
    MaxTime = 2
    Messages = {0}
    None = None
INVARIANTS
    SleepsCovered
PROPERTIES
    EverySleepFires
CHECK_DEADLOCK FALSE
