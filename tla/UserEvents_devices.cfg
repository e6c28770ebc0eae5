SPECIFICATION FairSpec
CONSTANTS
    Roles = {"coordinator", "router", "enddevice"}
    Board = {"rfid", "sensor"}
    Block <- MCBlock
INVARIANTS TypeOK ListSound EndDeviceGoesOn
PROPERTIES HeartBeatGoesOn
CHECK_DEADLOCK FALSE
