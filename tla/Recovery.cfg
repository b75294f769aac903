SPECIFICATION FairSpec
CONSTANTS
    MaxLines = 5
    MaxLosses = 4
    RecoveryEnabled = TRUE
INVARIANTS
    TypeOK
    ExactlyOnce
    ServerProgBehind
    CounterAgrees
PROPERTIES
    DeliverySpec
    EventuallyDelivered
