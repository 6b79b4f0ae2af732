SPECIFICATION MCSpec
CONSTANTS
    Threads = {t1, t2}
    DohQueries = {"q1", "q2"}
    DohMaxTime = 2
    Window = 2
    HotpMax = 7
    HotpDigits = 6
    Parts = {"doh", "otp", "kerberos", "radius", "cache", "rtp", "samples"}
    Clients = {"alice", "bob"}
    Services = {"host"}
    KrbPasswords = {"p", "q"}
    Drift <- Drifts
    DEFAULT_LIFETIME = 2
    CLOCK_SKEW = 1
    MaxTime = 4
    MaxKeys = 3
    MaxRekey = 1
    RadUsers = {"u"}
    Secrets = {"s", "t"}
    ServerSecret = "s"
    IdModulus = 2
    Block = 2
    MaxRequests = 3
    MaxChanges = 1
    Heuristic = 2
    MinTtl = 2
    CacheMaxTime = 5
    MaxVersions = 2
    MaxAsked = 2
    RTP_SEQ_MOD = 8
    MAX_DROPOUT = 3
    U32 = 30
    Starts = {6}
    Transits <- MCTransits
    Spread = 20
    SenderReports <- MCSenderReports
    MaxPackets = 5
    MaxFlight = 3
INVARIANTS  Authentic    
CHECK_DEADLOCK FALSE
