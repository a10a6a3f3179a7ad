CONSTANTS
    Empty = noWaker
    Senders = {s1, s2}
    Addr = {a, b, c, d}
    Attempts = 2
    Null = Null
    BLOCK_CAP = 1
    MaxPush = 3
    Tasks = {t1, t2}
SPECIFICATION MCSpec
INVARIANTS BlocksHeld PopIsTrue EndsSound
PROPERTIES AllReceived EndIsHeard
CHECK_DEADLOCK FALSE
