SPECIFICATION Spec
CONSTANTS
    Node = {n1, n2}
    Short = {s1}
    COORDINATOR_ADDR = COORDINATOR_ADDR
    NoShort = NoShort
    BROADCAST_ADDR = BROADCAST_ADDR
    Dev = {FA, Factory, Zero}
    Broadcast = FA
    Factory = Factory
    Zero = Zero
    Relay = {0, 1}
    MaxAir = 2
SYMMETRY Symmetry
INVARIANTS TypeOK AddressIsDurable
PROPERTY CommandsObeyedByOwner
