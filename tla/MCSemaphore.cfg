CONSTANTS
    Clients = {c1, c2, c3}
    MaxReaders = {1, 2, 4}
    MaxTotal = 2
    None = None
    Wakers = {v, w}
    NoWaker = NoWaker
    Sizes = {0, 1, 2}
    MAX_PERMIT = 8
    MinTotal = 2
    MaxPermits = 3
    Cap = 2
    MaxSent = 3
SPECIFICATION MCSpec
INVARIANTS PermitsSafe CellSafe CapacitySafe ReceiverWoken
PROPERTIES Contract WaitsEnd
