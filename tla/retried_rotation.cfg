\* Violated: the retry of a rotation drops the key of a running pod.
SPECIFICATION Spec
CONSTANTS
    None = None
    ClientIDs = {c1, c2}
    SecretNames = {s1}
    IntegrationTypes = {idporten}
    Keys = {k1, k2, k3}
    Pods = {p1}
    Maskinporten = FALSE
    UserOps = {"rotate"}
    Faults = {"fail"}
    MaxEdits = 1
    MaxFaults = 1
PROPERTIES
    PodKeysKept
