CONSTANTS
    battery_1 = battery_1
    regulator = regulator
    inverter = inverter
    Sections = {battery_1, regulator, inverter}
    Broken = {inverter}
    MaxSignals = 2
    None = None
SPECIFICATION Spec
INVARIANTS
    TypeOK
PROPERTIES
    NoRestartWhileHealthy
    StopLeadsToExit
    SilenceLeadsToExit
    ExpectedIsMaintained
    MissingIsRegistered
