CONSTANTS
    Runtimes = {main, js}
    Main = main
    Workers = {w1}
    Tasks = {t1, t2}
    Reused = {t2}
    NoTask = NoTask
    NoRuntime = NoRuntime
SPECIFICATION Spec
PROPERTY DrainReturns
CHECK_DEADLOCK FALSE
