\* Violated: skipped as up to date, but not Ready.
SPECIFICATION Spec
CONSTANTS
    None = None
    ClientIDs = {c1, c2}
    SecretNames = {s1}
    IntegrationTypes = {idporten}
    Keys = {k1, k2, k3}
    Pods = {}
    Maskinporten = FALSE
    UserOps = {"resync"}
    Faults = {"crash"}
    MaxEdits = 1
    MaxFaults = 1
INVARIANTS
    SkippedIsReady
