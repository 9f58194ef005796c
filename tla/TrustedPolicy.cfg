SPECIFICATION Spec
CONSTANTS
    Procs = {p1, p2}
    Policies = {a, b}
    MaxEpoch = 2
SYMMETRY Symmetry
INVARIANTS
    TypeOK
    SessionIsCurrent
    NoRollback
    CommittedIsLoadable
    EpochBindsOnePolicy
    EarlierStaysInert
