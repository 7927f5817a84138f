\* One resource created, edited, rotated, preserved, deleted and created again.
SPECIFICATION Spec
CONSTANTS
    None = None
    ClientIDs = {c1, c2, c3}
    SecretNames = {s1}
    IntegrationTypes = {idporten}
    Keys = {k1, k2, k3, k4}
    Pods = {}
    Maskinporten = FALSE
    UserOps = {"create", "edit", "rotate", "preserve", "delete"}
    Faults = {"fail", "lostReply", "crash", "repeat"}
    MaxEdits = 4
    MaxFaults = 2
SYMMETRY Identifiers
INVARIANTS
    TypeOK
    AtMostOneRegistration
    RegistrationInv
    SkippedIsUsable
PROPERTIES
    RegisteredUnderFinalizer
    NothingLeftBehind
    PublishedKeysRegistered
    ImplementsManagedClient
CHECK_DEADLOCK FALSE
