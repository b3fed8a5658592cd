SPECIFICATION Spec
CONSTANTS
    NumWorkers = 2
    MaxWorkers = 3
    MaxRequests = 2
    None = None
INVARIANTS MutualExclusion ExitedHoldNothing AtMostOneLeader
CHECK_DEADLOCK FALSE
PROPERTIES LockMovesOn ImplementsLock
