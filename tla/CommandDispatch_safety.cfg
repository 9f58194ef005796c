SPECIFICATION Spec
CONSTANTS
    Sessions = {s1, s2}
    Kinds = {"lock", "power", "interact", "read"}
    MaxCommands = 2
    MaxGen = 2
    ResultCap = 1
    SessionEvents = TRUE
    None = None
INVARIANTS TypeOK NobodyForgotten ResultIsOwn CorrelationIsOutstanding
PROPERTY ImplementsContract
SYMMETRY Symmetry
