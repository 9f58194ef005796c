CONSTANTS
    WinSessions = {s1}
    Caps = {}
    H264 = h264
    MaxFailures = 1
    FailureLimit = 3
    MaxEvents = 4
    None = None
SPECIFICATION Spec
PROPERTIES LogoffRearms
CHECK_DEADLOCK FALSE
