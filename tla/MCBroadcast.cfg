CONSTANTS
    Senders = {s1, s2}
    Consumers = {r1, r2}
    Cap = 2
    MaxPos = 3
    MaxRem = 255
SPECIFICATION FairRingSpec
INVARIANTS SlotsSound
PROPERTIES LagIsHonest Heard
