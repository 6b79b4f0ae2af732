SPECIFICATION MCSpec
CONSTANTS
    WordBits = 2
    Words = 3
    SeqLimit = 8
    MaxSeq = 9
    Trusted = {"client", "server"}
    MaxRetries = 1
    MaxData = 1
    MaxNet = 2
    MaxFaults = 0
    MayFail = {}
PROPERTIES FreshKept
CHECK_DEADLOCK FALSE
