\* Frames in any order, with a buffer smaller than the stream.
SPECIFICATION Spec
CONSTANTS
    Limit = 13
    MaxFrame = 4
    cryptoBufferSize = 6
INVARIANTS
    TypeOK
    StoredAhead
    BufferBounded
    NothingLost
PROPERTY ImplementsInOrderStream
CHECK_DEADLOCK FALSE
