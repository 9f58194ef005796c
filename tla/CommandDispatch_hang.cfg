SPECIFICATION FairSpec
CONSTANTS
    Sessions = {s1}
    Kinds = {"interact"}
    MaxCommands = 1
    MaxGen = 1
    ResultCap = 1
    SessionEvents = TRUE
    None = None
PROPERTY WorkerChangeAnswers
