SPECIFICATION FairSpec
CONSTANTS
    Frequencies = {1}
    RefusedFrequencies = {}
    MaxSubId = 2
    MaxLosses = 1
    MaxStream = 2
PROPERTIES
    UnwantedIsDeleted
    WantedIsSubscribed
CHECK_DEADLOCK FALSE
