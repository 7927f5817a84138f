\* Liveness for an IDPortenClient with lost replies, crashes and drift.
SPECIFICATION FairSpec
CONSTANTS
    None = None
    ClientIDs = {c1, c2, c3, c4}
    SecretNames = {s1}
    IntegrationTypes = {idporten}
    Keys = {k1, k2, k3, k4}
    Pods = {}
    Maskinporten = FALSE
    UserOps = {"create", "edit", "resync", "rotate", "unannotate", "delete"}
    Faults = {"fail", "lostReply", "crash", "clientDrift", "keyDrift", "secretDrift"}
    MaxEdits = 2
    MaxFaults = 1
PROPERTIES
    Converges
    DeletionCompletes
CHECK_DEADLOCK FALSE
