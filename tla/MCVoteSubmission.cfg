SPECIFICATION Spec
CONSTANTS
    Nullifier = {n1}
    ExtraKey = {}
    MaxRequests = 3
INVARIANTS RecordsAreTrue ClashOnlyAfterAbandon OneSubmitterPerKey
PROPERTY EveryRequestEnds
CHECK_DEADLOCK FALSE
