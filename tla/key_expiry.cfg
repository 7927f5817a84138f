\* Keys that are valid for a year, and looked at once a week.
SPECIFICATION Spec
CONSTANTS
    Keys = {k1, k2, k3}
    Validity = 365
    Threshold = 30
    StaleAfter = 7
    MaxDelay = 22
INVARIANTS
    CredentialsValid
    TermInv
