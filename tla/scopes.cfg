\* The exposed scopes of a MaskinportenClient and their consumers.
SPECIFICATION FairSpec
CONSTANTS
    None = None
    Subscopes = {a, b}
    Orgs = {o1, bad}
    Unknown = {bad}
    Events = {"expose", "delete", "request", "other", "fail", "lostReply", "crash"}
    MaxEdits = 1
    MaxFaults = 1
INVARIANTS
    TypeOK
    AccessAsSpecified
    RunInv
PROPERTIES
    GrantedAccessKept
    DisabledWhenGone
    Settles
    Restored
CHECK_DEADLOCK FALSE
