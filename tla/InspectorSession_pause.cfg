CONSTANTS
    MaxSessions = 1
    MaxReceived = 3
    MaxSent = 0
    MaxScripts = 0
SPECIFICATION Spec
PROPERTIES
    DisconnectEndsPause
CHECK_DEADLOCK FALSE
