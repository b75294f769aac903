SPECIFICATION Spec
CONSTANTS
    MaxDevices = 3
    Existing = {9}
    MaxSubscribes = 1
    MaxManagers = 3
    MaxEvents = 2
    Avoided = {"stale_registration", "late_id", "device_lost", "unlisted"}
INVARIANTS
    NothingForgotten
    RequestsCanBeEncoded
    DeviceAgrees
    PushSubscriptionsAgree
CHECK_DEADLOCK FALSE
