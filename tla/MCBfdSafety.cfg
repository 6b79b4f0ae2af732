SPECIFICATION Spec
CONSTANTS
    a = a
    b = b
    Peers = {a, b}
    Passive = {}
    DemandMode = {}
    DesiredMinTx <- Unit
    RequiredMinRx <- Unit
    DetectMult <- Unit
    SlowTx = 1
    Auth <- Keyed
    Key <- SameKey
    SeqMod = 2
    MaxAge = 1
    Seeds = {0}
    MaxNet = 1
    MaxFaults = 1
    FaultCost = 0
    MayFail = {"lose", "duplicate", "crash"}
    MaxPolls = 0
    Urgent = FALSE
SYMMETRY Symmetry
INVARIANTS TypeOK NeverRefused UpMeansHeard
