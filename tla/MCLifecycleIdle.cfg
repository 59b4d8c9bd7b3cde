CONSTANTS
    battery_1 = battery_1
    regulator = regulator
    inverter = inverter
    Sections = {battery_1, regulator}
    Broken = {}
    MaxSignals = 0
    None = None
SPECIFICATION Spec
INVARIANT NoAliveButIdle
