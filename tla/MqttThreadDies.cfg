SPECIFICATION Spec
CONSTANTS
    None = None
    Entities = {"e1", "e2"}
    MaxFaults = 2
PROPERTY SwitchesNeverGoDead
CHECK_DEADLOCK FALSE
