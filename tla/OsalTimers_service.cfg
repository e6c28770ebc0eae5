SPECIFICATION Spec
CONSTANTS
    Timer = {t1, t2}
    IsrTimer = {t2}
    ReloadTimer = {t1}
    NoTimer = NoTimer
    Block = {b1, b2, b3}
    NULL = NULL
    Timeout = {3}
    MaxElapsed = 2
SYMMETRY Symmetry
INVARIANTS TypeOK ListSound CountsRealTime
PROPERTIES ExpiresOnTime TimersServe
