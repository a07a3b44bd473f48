CONSTANTS
    MaxBuffers = 3
    MaxDeferred = 1
    MaxResized = 2
    MaxRequested = 1
SPECIFICATION Spec
INVARIANT ResizeFinishes
CHECK_DEADLOCK FALSE
