SPECIFICATION MCSpec
CONSTANTS
    None = None   New = New
    x1 = x1   x2 = x2   x3 = x3   y1 = y1   y2 = y2
    Reporters = {"r1", "r2", "r3"}
    Reports <- MCReports
    Authored = 0
    Beats = {y1, y2}
    Numbers = {x1, x2, x3}
    MaxFlush = 2
    DaySeconds = 3
    Days = 2
    Attempts = {"a1"}
    Sockets = {y1, y2}
    Completions = {"p1", "p2"}
    MaxTurns = 1
    MaxAsked = 2
    Requests = {y1, y2}
    Keys = {x1, x2, x3}
    Editors = {x1, x2, x3}
    Documents <- MCDocuments
    MaxSentence = 6
    Scores = {80, 100}
    Calls = {y1, y2}
    MaxAttempts = 2
    MaxRight = 1
    MaxGenerations = 2
    MaxWords = 3
SYMMETRY Alike
CHECK_DEADLOCK FALSE
INVARIANTS DayHoldsItsSeconds EveryTurnCounted ListeningSound RoadmapSound AlgorithmsSound
PROPERTIES SetBackOnlyByStaleReport
