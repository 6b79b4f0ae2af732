SPECIFICATION MCSpec
CONSTANTS
    Destinations = {d}
    Offers <- MCOffers
    PolicyPref = 50
    Speakers = {1, 2}
    MaxEvents = 8
    Routers = {1, 2, 3}
    Neighbours <- Triangle
    Origin = 1
    SeqSpan = 8
    FirstSeqs = {7, 9}
    Checksums = {0, 1}
    MaxSerial = 1
    MaxRestarts = 1
    MaxPackets = 3
    Root = 1
    Areas <- MCAreas
    Unreachable = 1000
    Peers = {r1, r2}
    MaxExchanges = 2
    Parts = {"rib", "peering", "flood", "neighbor", "spf"}
INVARIANTS BestIsElected EstablishedAgrees  FloodConverges ShortestPaths
PROPERTIES NeverBackwards
CHECK_DEADLOCK FALSE
