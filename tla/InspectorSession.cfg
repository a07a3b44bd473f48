CONSTANTS
    MaxSessions = 2
    MaxReceived = 6
    MaxSent = 3
    MaxScripts = 1
SPECIFICATION Spec
INVARIANTS
    TypeOK
    NothingLost
PROPERTIES
    ArrivalsHandled
CHECK_DEADLOCK FALSE
