CONSTANTS
    MaxBuffers = 5
    MaxDeferred = 3
    MaxResized = 2
    MaxRequested = 1
SPECIFICATION Spec
INVARIANTS
    TypeOK
    FramePaired
    DrawingNotHeld
    CommitAwaited
    DeferredHeld
PROPERTIES
    UpdateReachesScreen
    PendingPresented
CHECK_DEADLOCK FALSE
