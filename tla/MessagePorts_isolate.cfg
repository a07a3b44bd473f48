CONSTANTS
    Main = main
    Worker = worker
    a = a
    b = b
    c = c
    d = d
    Ports = {a, b, c, d}
    Peer <- TwoPairs
    ParentPort = a
    WorkerPort = b
    MaxPosts = 3
    MaxChanges = 3
    None = None
SPECIFICATION Spec
PROPERTIES
    ListenerOnOwnIsolate
CHECK_DEADLOCK FALSE
