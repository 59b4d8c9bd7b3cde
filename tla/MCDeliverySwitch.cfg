\* The switch alone, and nothing fails but the connection.
CONSTANTS
    switch = switch
    sensor = sensor
    Items = {switch}
    Qos1 = {switch}
    Values = {0, 1}
    QueueMax = 1
    MaxChanges = 2
    MaxDrops = 1
    MaxFailures = 0
    MaxPackets = 2
    None = None
SPECIFICATION Spec
INVARIANT UndeliveredWillBeResent
