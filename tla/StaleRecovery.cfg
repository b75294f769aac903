SPECIFICATION Spec
CONSTANTS
    Forced = {"AUTO"}
    Bandwidths = {1}
    Heartbeats = {FALSE}
    SessionRecovery = TRUE
    MaxRecoveryAttempts = 2
    Slowing = FALSE
    Reachability = TRUE
    PageLifecycle = FALSE
    Refusals = FALSE
    AddressChanges = FALSE
INVARIANTS
    NoFailedAssertion
