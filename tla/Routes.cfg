SPECIFICATION ScopedLiveSpec
CONSTANTS
    Scopes <- Explored
    Requests <- AllRequests
    Handoffs <- MCHandoffs
    AutoApply = {TRUE, FALSE}
    MaxPushes = 3
    MaxFaults = 1
    MaxPasses = 3
    Exits = {"retry", "abandon", "force"}
    MaxExits = 1
INVARIANTS
    UniqueIdentity
    CarrierNotStranded
PROPERTIES
    DischargedIsGone
    UnownedStays
    ReplacementCloses
    ClearIsProven
    SettlesInScope
CHECK_DEADLOCK FALSE
