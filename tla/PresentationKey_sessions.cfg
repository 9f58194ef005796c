SPECIFICATION Spec
CONSTANTS
    Sessions = {s1, s2}
    Presentations = {p1}
    MaxEpoch = 2
    MaxGen = 1
    MaxReq = 2
    InstallMayTimeOut = FALSE
    None = None
INVARIANTS TypeOK ReceiverMatchesKey LeaseIsWorkerKey KeyEndsWithSession
SYMMETRY Symmetry
