SPECIFICATION GuardSpec
CONSTANTS
    RpcCall = {c1, c2, c3, c4}
    FailureThreshold = 2
    MaxConcurrent = 1
    MaxQueueSize = 2
INVARIANTS SlotsAccounted FlagHasOwner
PROPERTY WaitersAreServed
