\* Renamed secrets, changed integration types and rotated keys, with a pod.
SPECIFICATION Spec
CONSTANTS
    None = None
    ClientIDs = {c1, c2}
    SecretNames = {s1, s2}
    IntegrationTypes = {idporten, api_klient}
    Keys = {k1, k2, k3, k4, k5}
    Pods = {p1}
    Maskinporten = FALSE
    UserOps = {"rename", "retype", "rotate", "resync"}
    Faults = {"fail", "lostReply", "crash", "repeat"}
    MaxEdits = 2
    MaxFaults = 1
SYMMETRY Identifiers
INVARIANTS
    SkippedIsUsable
    UsableInv
    ListedInv
PROPERTIES
    PublishedKeysRegistered
    UsedKeysKept
