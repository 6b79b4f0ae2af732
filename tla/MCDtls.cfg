SPECIFICATION MCSpec
CONSTANTS
    WordBits = 2
    Words = 3
    SeqLimit = 8
    MaxSeq = 9
    Trusted = {"client", "server"}
    MaxRetries = 2
    MaxData = 2
    MaxNet = 3
    MaxFaults = 2
    MayFail = {"lose", "duplicate", "reorder", "early"}
INVARIANTS Agreement RecordsOnce ReplayExact
PROPERTIES Settles
CHECK_DEADLOCK FALSE
