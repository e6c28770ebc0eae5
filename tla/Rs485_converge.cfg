SPECIFICATION FairSpec
CONSTANTS
    Node = {n1, n2}
    Short = {s1, s2}
    COORDINATOR_ADDR = COORDINATOR_ADDR
    NoShort = NoShort
    BROADCAST_ADDR = BROADCAST_ADDR
    Dev = {Zero, Factory}
    Broadcast = FA
    Factory = Factory
    Zero = Zero
    Relay = {}
    MaxAir = 1
PROPERTY TableConverges
