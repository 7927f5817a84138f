\* Violated: a secret is deleted after a pod has started to use it.
SPECIFICATION Spec
CONSTANTS
    None = None
    ClientIDs = {c1, c2}
    SecretNames = {s1, s2}
    IntegrationTypes = {idporten}
    Keys = {k1, k2, k3}
    Pods = {p1}
    Maskinporten = FALSE
    UserOps = {"rename"}
    Faults = {}
    MaxEdits = 1
    MaxFaults = 0
PROPERTIES
    ReferencedSecretsKept
