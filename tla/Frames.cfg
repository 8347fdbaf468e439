SPECIFICATION FairSpec
CONSTANTS
    Streams <- SomeStreams
    BUFSIZE = 50
    MallocMax = 200
    Null = Null
INVARIANTS Delivered AnswersWellFormed FrameByFrame
PROPERTIES MessagesArrive
CHECK_DEADLOCK FALSE
