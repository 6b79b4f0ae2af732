SPECIFICATION LiveSpec
CONSTANTS
    a = a
    b = b
    Peers = {a, b}
    Passive = {b}
    DemandMode = {}
    DesiredMinTx <- Unit
    RequiredMinRx <- Unit
    DetectMult <- Three
    SlowTx = 2
    Auth <- NoAuth
    Key <- SameKey
    SeqMod = 1
    MaxAge = 6
    Seeds = {0}
    MaxNet = 2
    MaxFaults = 1
    FaultCost = 1
    MayFail = {"lose", "crash", "admin"}
    MaxPolls = 1
    Urgent = TRUE
INVARIANTS DetectionMeansLoss
PROPERTIES FailureDetected Recovers PollsEnd
