SPECIFICATION FairSpec
CONSTANTS
    Roles = {"ROUTER", "DEVICE"}
    NUM_DISC_ATTEMPTS = 1
    POWERSETTING_COUNT = 1
    MaxCuts = 2
    MaxTrouble = 2
INVARIANTS TypeOK AppKnowsSteadyState ComesBackAlone NoKeylessResume
PROPERTIES GivesUpLate Settles
CHECK_DEADLOCK FALSE
