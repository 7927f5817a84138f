\* Violated: the last scope's condition hides an invalid consumer.
SPECIFICATION Spec
CONSTANTS
    None = None
    Subscopes = {a, b}
    Orgs = {o1, bad}
    Unknown = {bad}
    Events = {}
    MaxEdits = 0
    MaxFaults = 0
INVARIANTS
    InvalidReported
