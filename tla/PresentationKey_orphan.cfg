SPECIFICATION Spec
CONSTANTS
    Sessions = {s1}
    Presentations = {p1}
    MaxEpoch = 2
    MaxGen = 2
    MaxReq = 2
    InstallMayTimeOut = TRUE
    None = None
INVARIANTS KeyEndsWithSession
