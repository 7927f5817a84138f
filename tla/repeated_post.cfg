\* Violated: a registration that is sent again registers a second client.
SPECIFICATION Spec
CONSTANTS
    None = None
    ClientIDs = {c1, c2}
    SecretNames = {s1}
    IntegrationTypes = {idporten}
    Keys = {k1, k2, k3}
    Pods = {}
    Maskinporten = FALSE
    UserOps = {}
    Faults = {"repeatRegister"}
    MaxEdits = 0
    MaxFaults = 1
PROPERTIES
    RegistersOnlyIfNone
CHECK_DEADLOCK FALSE
