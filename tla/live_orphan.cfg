SPECIFICATION SpeakSpec
CONSTANTS
    None = None
    Attempts = {"a1"}
    Sockets = {"s1", "s2"}
    Completions = {"p1"}
    MaxTurns = 2
    MaxAsked = 1
CHECK_DEADLOCK FALSE
INVARIANTS NobodyTalksAlone
