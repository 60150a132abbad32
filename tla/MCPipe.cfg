SPECIFICATION MCSpec
CONSTANTS
    r1 = r1
    w1 = w1
    w2 = w2
    NoProc = NoProc
    Readers = {r1}
    Writers = {w1, w2}
    NonBlock = {r1}
    ReadSizes = {3}
    WriteSizes = {2, 3}
    PIPE_BUFFERS = 2
    PAGE_SIZE = 2
    Polling = {w2}
    Signalled = {w1}
    ByteMod = 1
CHECK_DEADLOCK FALSE
INVARIANTS
    RingIsSound
    StreamsInOrder
    SmallWritesAreWhole
    NoWakeupIsLost
