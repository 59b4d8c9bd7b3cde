CONSTANTS
    Names = {battery_1, regulator}
    battery_1 = battery_1
    regulator = regulator
    MaxMsgs = 3
SPECIFICATION Spec
INVARIANT NoCommandLost
