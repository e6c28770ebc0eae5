SPECIFICATION Spec
CONSTANTS
    Roles = {"coordinator"}
    Board = {"none"}
    Block <- MCBlock
INVARIANT ProcessEventReturns
CHECK_DEADLOCK FALSE
