SPECIFICATION Spec
CONSTANTS
    Forced = {"AUTO", "WS_POLLING", "HTTP"}
    Bandwidths = {1}
    Heartbeats = {FALSE, TRUE}
    SessionRecovery = TRUE
    MaxRecoveryAttempts = 2
    Slowing = FALSE
    Reachability = FALSE
    PageLifecycle = FALSE
    Refusals = TRUE
    AddressChanges = FALSE
INVARIANTS
    LeavesNothingBehind
    SettledTransportIsBest
    PendingIsSent
PROPERTIES
    StatusTransitions
