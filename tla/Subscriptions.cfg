SPECIFICATION Spec
CONSTANTS
    Frequencies = {1, 2}
    RefusedFrequencies = {2}
    MaxSubId = 2
    MaxLosses = 1
    MaxStream = 1
INVARIANTS
    SubscriptionAgrees
    NothingIsForgotten
    FrequencyAgrees
CHECK_DEADLOCK FALSE
