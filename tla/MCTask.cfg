SPECIFICATION MCSpec
CONSTANTS
    MaxWakers = 2
    JoinWakers = {w1, w2}
    NoWaker = NoWaker
    Receivers = {r1, r2}
    Writers = {w1}
    MaxVersion = 2
    MaxEmpty = 1
    Waiters = {b1, b2, b3}
    BarrierN = 3
    MaxGen = 3
INVARIANTS
    TypeOK
    RefCountExact
    CellSound
    JoinNotLost
    MarkedWasShown
    OpensFull
PROPERTIES
    Contract
    TaskProgress
    WaitsEnd
    Released
