CONSTANTS
    Runtimes = {main, js}
    Main = main
    Workers = {w1, w2}
    Tasks = {t1, t2}
    Reused = {}
    NoTask = NoTask
    NoRuntime = NoRuntime
SPECIFICATION Spec
INVARIANTS
    TypeOK
    OutstandingExact
    OwnedOnce
PROPERTIES
    DrainComplete
    ShutdownEnds
CHECK_DEADLOCK FALSE
