SPECIFICATION FairSpec
CONSTANTS
    Kinds = {"ordered", "ordered_silent", "unordered", "fire_and_forget"}
    MaxMessages = 2
    MaxLosses = 1
INVARIANTS
    ArriveInOrder
    OutcomeIsTrue
PROPERTIES
    MessagesAreTaken
    OutcomeIsTold
CHECK_DEADLOCK FALSE
