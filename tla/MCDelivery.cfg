\* Either configuration: MQTT alone, or MQTT and an HTTP server.
CONSTANTS
    switch = switch
    sensor = sensor
    Items = {switch, sensor}
    Qos1 = {switch}
    Values = {0, 1}
    QueueMax = 1
    MaxChanges = 1
    MaxDrops = 1
    MaxFailures = 1
    MaxPackets = 2
    None = None
SPECIFICATION Spec
INVARIANTS
    TypeOK
    RememberedIsPublished
PROPERTIES
    RememberedOnlyIfAccepted
    BrokerConverges
