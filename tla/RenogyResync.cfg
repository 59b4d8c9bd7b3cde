SPECIFICATION Spec
CONSTANTS
    Capacity = 12
    EstimateMax = 14
    EstimateDiff = 1
    ResyncAfter = 3
    MaxConsecutiveRejects = 2
    Voltages = {120, 130, 132, 135}
    None = None
PROPERTY EstimateResyncs
CHECK_DEADLOCK FALSE
