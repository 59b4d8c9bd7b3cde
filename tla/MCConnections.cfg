\* Three devices: one sets up its connection, two queue for the lock.
CONSTANTS
    Devices = {battery_1, battery_2, regulator}
    battery_1 = battery_1
    battery_2 = battery_2
    regulator = regulator
    Polled = {regulator}
    MaxAttempt = 2
    None = None
SPECIFICATION Spec
INVARIANTS
    TypeOK
    OneEstablishment
    LockAccounted
    AvailabilityFollowsClient
    BackoffCountsFailures
    StopIsFinal
PROPERTIES
    Retried
    LostLinkNoticed
