CONSTANTS
    WinSessions = {s1, s2}
    Caps = {dxgi}
    H264 = h264
    MaxFailures = 1
    FailureLimit = 3
    MaxEvents = 4
    None = None
SPECIFICATION FairSpec
INVARIANTS TypeOK SupervisorAgrees OneWorker ReadyIsRunning AdvertisedIsManaged MediaFollowsSupervisor RestartWithinBudget
PROPERTIES StartingResolves DeathNoticed
CHECK_DEADLOCK FALSE
