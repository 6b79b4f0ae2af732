SPECIFICATION MCSpec
CONSTANTS
    Parts = {"dhcp", "dhcpv6"}
    c1 = c1
    c2 = c2
    Clients = {c1, c2}
    Pool = {1, 2}
    LeaseDuration = 2
    Foreign = TRUE
    ClientLeaseTime = 2
    MaxXid = 3
    MaxTime = 3
    MaxNet = 3
    MayFail = {"lose"}
INVARIANTS ServerAgrees BoundIsConfirmed LeasedToItsUser
PROPERTIES LeaseKept Implements
SYMMETRY ClientSymmetry
CHECK_DEADLOCK FALSE
