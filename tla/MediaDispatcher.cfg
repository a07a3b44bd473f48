CONSTANTS
    Media <- LongerMedia
    AudioMax = 2
    VideoMax = 1
    PresentMax = 0
    MaxSeeks = 2
SPECIFICATION Spec
INVARIANTS
    TypeOK
    QueueBounds
    NoStaleFrame
    AudioGapless
    VideoNotLate
    BlockedWhileFull
PROPERTIES
    CommandAnswered
    DisposeReturns
    PlaysToEnd
CHECK_DEADLOCK FALSE
