CONSTANTS
    Calls = {c1}
    Signals = {s1}
    ExitMsg = ExitMsg
    NoCall = NoCall
SPECIFICATION Spec
PROPERTY NullMessageEndsLoop
CHECK_DEADLOCK FALSE
