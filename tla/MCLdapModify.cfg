SPECIFICATION MCSpec
CONSTANTS
    Users = {alice}
    Conns = {p1, p2}
    PopMessages <- ThreeMails
    MaxCommands = 4
    Links = {l1}
    Senders = {a, b}
    Rcpts = {r1, r2, r3}
    Allowed = {r1, r2}
    SmtpMessages <- Submissions
    MaxMessage = 12
    MaxSmtp = 7
    Names = {inbox, other}
    Inbox = inbox
    Sess = {s1, s2}
    StoreArgs <- DeletedOrSeen
    AppendFlags = {{}}
    MaxUidNext = 3
    MaxStored = 4
    MaxImap = 5
    Clients = {"c1", "c2"}
    Keepers = {"c1"}
    Follows <- FollowsTypes
    Vals = {1, 2}
    Limit = 1
    MaxNext = 4
    MaxRevision = 3
    Superiors <- TwoLevels
    LdapValues = {"a", "b"}
    Others = {"sn"}
    MaxOps = 4
    CHUNK_SIZE = 3
    Texts <- Elements
    MaxSent = 2
    Nodes = {"m", "n"}
    Contents = {1, 2}
    MaxRpcs = 4
    Parts = {"ldap"}
PROPERTY OthersKept
CHECK_DEADLOCK FALSE
