SPECIFICATION Spec

CONSTANTS
    Streams <- MCStreams
    Files <- MCFiles
    MimeTypes <- MCMimeTypes
    IndexPath <- MCIndexPath
    MaxRequests = 2
    MaxNoise = 7

INVARIANTS
    AnswersExact

\* The peer stops sending.
CHECK_DEADLOCK FALSE
