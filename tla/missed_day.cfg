SPECIFICATION RulesSpec
CONSTANTS
    Lessons = {}
    Tasks = {}
    Questions = {}
    Words = {}
    Reviews = {}
    MaxXp = 2750
    Window = 4
    MaxDay = 10
    MaxInterval = 60
    MaxRecalls = 10
    MaxLapses = 3
    i1 = i1   i2 = i2
    Requests = {"r1"}
    Invites = {i1, i2}
    SlotsPerDay = 2
    ZoneShift = 1
    MaxInstant = 6
    MaxRows = 2
    BoardPairs = {"p1", "p2", "p3"}
    MaxStreak = 2
    MIN_PAIRS_FOR_PERCENTILE = 2
    LEADERBOARD_LIMIT = 2
    Pasts <- MCPasts
    Scenes = {"abroad"}
CHECK_DEADLOCK FALSE
INVARIANTS MissedDayBreaks
