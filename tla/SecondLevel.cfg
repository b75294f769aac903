SPECIFICATION Spec
CONSTANTS
    Keys = {k1, k2}
    IllegalKeys = {k2}
    Values = {1, 2}
    Frequencies = {1}
    MaxCalls = 2
INVARIANTS
    TableAgrees
    KeysAreFollowed
    FrequenciesFit
PROPERTIES
    CommandsFit
CHECK_DEADLOCK FALSE
