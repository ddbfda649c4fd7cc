CONSTANTS
    MaxFrame = 3
    MaxCalls = 4
SPECIFICATION Spec
INVARIANTS
    TypeOK
    FramesAreReadWhole
    NoFrameIsSkipped
PROPERTIES
    QueuedFramesAreShown
    PlaysToTheEnd
CHECK_DEADLOCK FALSE
