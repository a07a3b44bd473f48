CONSTANTS
    Main = main
    Worker = worker
    a = a
    b = b
    c = c
    d = d
    Ports = {a, b, c, d}
    Peer <- TwoPairs
    ParentPort = a
    WorkerPort = b
    MaxPosts = 2
    MaxChanges = 3
    None = None
SPECIFICATION Spec
INVARIANTS
    TypeOK
    InOrder
    CarriedOnce
    JoinedOnce
PROPERTIES
    AcceptedDelivered
CHECK_DEADLOCK FALSE
