CONSTANTS
    Futures = {f1, f2}
    Notifiers = {n1}
    Tasks = {t1, t2}
    NoTask = t0
    MaxCalls = 1
SPECIFICATION FairSpec
INVARIANTS NoPanic
PROPERTIES Contract ToldCompletes
