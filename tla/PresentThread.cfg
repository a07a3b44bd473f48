CONSTANTS
    Calls = {c1, c2}
    Signals = {s1, s2}
    ExitMsg = ExitMsg
    NoCall = NoCall
SPECIFICATION Spec
INVARIANTS
    TypeOK
    NoLostWakeup
    PresentFIFO
    ExitIsLast
    HostOrder
    SettledWasHandled
PROPERTIES
    RefinesContract
    EveryCallExecuted
    EveryCallSettled
    ExitAfterOwnReset
CHECK_DEADLOCK FALSE
