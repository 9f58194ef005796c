SPECIFICATION FairSpec
CONSTANTS
    Sessions = {s1, s2}
    Kinds = {"lock", "interact", "read"}
    MaxCommands = 2
    MaxGen = 1
    ResultCap = 1
    SessionEvents = FALSE
    None = None
PROPERTY EveryCommandAnswered
