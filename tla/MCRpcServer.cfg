SPECIFICATION Spec
CONSTANTS
    kCheapPrepend = 1
    kInitialSize = 3
    ExtraSize = 2
    Zero = zero
    kHeaderSize = 2
    MaxFrameSize = 5
    kMaxBodyLen = 4
    InputLimits = {0, 3}
    BodyLens = {0, 3}
    MaxFrames = 3
INVARIANTS
    FramesInOrder
    Answered
    ParsedAsFarAsPossible
    InputBounded
CHECK_DEADLOCK FALSE
