CONSTANTS
    Senders = {s1}
    Consumers = {r1, r2}
    Cap = 1
    MaxPos = 2
    MaxRem = 255
SPECIFICATION RingSpec
INVARIANT EveryValueSeen
