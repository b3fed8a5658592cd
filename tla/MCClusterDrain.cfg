SPECIFICATION Spec
CONSTANTS
    NumWorkers = 2
    MaxWorkers = 3
    MaxRequests = 2
    None = None
INVARIANT DrainLeavesNothing
CHECK_DEADLOCK FALSE
