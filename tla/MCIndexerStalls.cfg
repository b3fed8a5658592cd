SPECIFICATION Spec
CONSTANTS
    NumContracts = 2
    Listed = {vote}
    Unlisted = {batch}
    NoDao = {admin}
    Window = 2
    PageLimit = 1
    MaxLedger = 3
    MaxEvents = 2
PROPERTY PollingReachesEveryLedger
