CONSTANTS
    MaxPayloads = 3
    MaxConns = 2
    Attempts = 2
    Poll = Poll
    None = None
SPECIFICATION Spec
INVARIANTS
    WritesSerialised
    OvertakenOnlyByRetry
PROPERTY CommandsSettle
