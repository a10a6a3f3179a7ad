\* Two senders and two messages, so that slots fill out of order; two wakers.
SPECIFICATION FairSpec
CONSTANTS
    Senders = {s1, s2}
    Rx = rx
    Wakers = {w1, w2}
    None = None
    MaxSlots = 2
    MaxCloses = 1
INVARIANTS ChannelSound NobodyMissesClose
PROPERTY Delivered
CHECK_DEADLOCK FALSE
