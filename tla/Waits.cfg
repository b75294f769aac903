SPECIFICATION FairSpec
CONSTANTS
    Forced = {"AUTO"}
    Bandwidths = {1}
    Heartbeats = {TRUE}
    SessionRecovery = TRUE
    MaxRecoveryAttempts = 2
    Slowing = FALSE
    Reachability = FALSE
    PageLifecycle = FALSE
    Refusals = FALSE
    AddressChanges = FALSE
PROPERTIES
    EveryWaitEnds
