SPECIFICATION Spec
CONSTANTS
    Forced = {"AUTO", "WS"}
    Bandwidths = {1, 2}
    Heartbeats = {FALSE}
    SessionRecovery = FALSE
    MaxRecoveryAttempts = 1
    Slowing = TRUE
    Reachability = TRUE
    PageLifecycle = TRUE
    Refusals = FALSE
    AddressChanges = TRUE
INVARIANTS
    LeavesNothingBehind
    BandwidthConverges
