SPECIFICATION MCSpec
CONSTANTS
    Parts = {"dhcp"}
    c1 = c1
    c2 = c2
    Clients = {c1, c2}
    Pool = {1}
    LeaseDuration = 2
    Foreign = FALSE
    ClientLeaseTime = 3
    MaxXid = 3
    MaxTime = 4
    MaxNet = 3
    MayFail = {}
INVARIANTS AddressExclusive
CHECK_DEADLOCK FALSE
