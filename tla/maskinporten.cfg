\* Liveness for a MaskinportenClient, with repeated and late requests.
SPECIFICATION FairSpec
CONSTANTS
    None = None
    ClientIDs = {c1, c2, c3}
    SecretNames = {s1}
    IntegrationTypes = {maskinporten}
    Keys = {k1, k2, k3}
    Pods = {}
    Maskinporten = TRUE
    UserOps = {"edit", "rotate", "delete"}
    Faults = {"fail", "lostReply", "crash", "repeat", "repeatRegister", "late", "clientDrift", "keyDrift", "secretDrift"}
    MaxEdits = 1
    MaxFaults = 1
PROPERTIES
    Converges
    DeletionCompletes
CHECK_DEADLOCK FALSE
