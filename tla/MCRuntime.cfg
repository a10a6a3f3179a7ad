CONSTANTS
    Tasks = {a, b, c}
    BatchLimit = 10
    GlobalInterval = 5
    Runtimes = {r1, r2}
    None = None
    MaxDepth = 3
    MaxGuards = 1
    Unparkers = {u1, u2}
    MaxWakes = 2
    Periods = {2, 7}
    Starts = {0, 3}
    Slack = 5
    MaxTime = 16
    Limits = {0, 2, 4}
    EndTime = 5
    Accepting = {t1, t2}
    Sources = {s1, s2}
SPECIFICATION MCSpec
INVARIANTS LoopSound ThreadSound NothingForgotten
PROPERTIES DeadlockIsReal EveryoneServed ContractsKept TimersTrue AllServed
CHECK_DEADLOCK FALSE
