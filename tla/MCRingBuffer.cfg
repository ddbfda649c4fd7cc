CONSTANTS
    f1 = f1
    f2 = f2
    f3 = f3
    NoFrame = NoFrame
    Frames <- MCFrames
    DataLen <- MCDataLen
    NodeLen = 2
    HeaderLen = 1
    BufferSize = 8
SPECIFICATION Spec
INVARIANTS
    TypeOK
    PointersAgree
    WholeFrames
    PopIsOneFrame
PROPERTIES
    ImplementsFrameQueue
    EveryPushCompletes
