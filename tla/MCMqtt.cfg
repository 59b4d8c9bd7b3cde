CONSTANTS
    Devices = {battery_1, regulator}
    MaxPending = 3
    MaxFaults = 2
    MaxMsgs = 3
    Entities = {e1, e2}
    None = None
SPECIFICATION PartsSpec
INVARIANTS
    PartsTypeOK
    LastWordIsTrue
    NoLostWakeup
PROPERTIES
    AvailabilityConverges
    ImplementsQueue
    SwitchesStaySubscribed
    ConfigComesBack
CHECK_DEADLOCK FALSE
