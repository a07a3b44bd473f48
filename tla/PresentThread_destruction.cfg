CONSTANTS
    Calls = {c1}
    Signals = {s1}
    ExitMsg = ExitMsg
    NoCall = NoCall
SPECIFICATION Spec
PROPERTY RepliesLeaveByDrain
CHECK_DEADLOCK FALSE
