SPECIFICATION Spec

CONSTANTS
    maxDepth_ = 2
    Int64Max = 1100
    MaxExponent = 9
    ByteBase = 4
    kMagic = 14
    kMaxBodyLen = 22
    Dot_ = 2
    MaxTokens = 5
    MaxPieces = 4
    MaxNumber = 5
    MaxUtf8 = 4
    MaxBody = 6
    Names <- MCNames

INVARIANTS
    JsonRoundTrip
    JsonAccepts
    Utf8Exact
    WireExact
    DispatchExact

\* An input is examined in one state; a frozen registry stays as it is.
CHECK_DEADLOCK FALSE
