\* The scopes that a MaskinportenClient consumes, and the cache its runs share.
SPECIFICATION FairSpec
CONSTANTS
    None = None
    Clients = {m1}
    Scopes = {a, b}
    ClientScope = a
    TTL = 2
    Events = {"decide", "open", "close", "edit", "fail", "lostReply", "crash"}
    MaxEdits = 3
    MaxFaults = 1
INVARIANTS
    TypeOK
    CacheInv
PROPERTIES
    GrantsFresh
    DenialsFresh
    ScopesFollowAccess
CHECK_DEADLOCK FALSE
