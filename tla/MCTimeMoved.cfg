SPECIFICATION Spec
CONSTANTS
    Tasks = {a, b}
    Sleeps = {s1, s2}
    MaxTime = 2
    Messages = {0}
    None = None
INVARIANT
    LastPollerRegistered
CHECK_DEADLOCK FALSE
