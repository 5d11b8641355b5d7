SPECIFICATION ScopedLiveSpec
CONSTANTS
    Scopes <- Retried
    Requests <- AllRequests
    Handoffs <- MCHandoffs
    AutoApply = {TRUE, FALSE}
    MaxPushes = 3
    MaxFaults = 1
    MaxPasses = 3
    Exits = {"retry", "abandon", "force"}
    MaxExits = 1
PROPERTIES
    RetryEnds
CHECK_DEADLOCK FALSE
