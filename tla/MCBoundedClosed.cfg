CONSTANTS
    Senders = {s1, s2, s3}
    Cap = 2
    MaxSent = 3
SPECIFICATION FairSpec
INVARIANTS ReceiverAlwaysWoken
