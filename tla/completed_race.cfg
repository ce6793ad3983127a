SPECIFICATION MCSpec
CONSTANTS
    None = None   Refused = Refused   Failed = Failed   NoDeck = NoDeck
    x1 = x1   x2 = x2   x3 = x3   y1 = y1   y2 = y2
    q1 = q1   q2 = q2   m0 = m0   m1 = m1   m2 = m2   r1 = r1   r2 = r2   r3 = r3
    Tasks = {"QUIZ", "PRACTICE"}
    Immediate = {"QUIZ"}
    Questions = {q1, q2}
    PassingPercent = 50
    Ids = {m0, m1, m2}
    Requests = {r1, r2}
    MaxHint = 2
    Calls <- MCCalls
    Scenes = {"practice"}
    Rows <- MCRows
    Attempts <- MCAttempts
    Dataset <- MCDataset
    OnDisk = {"go"}
    Orders <- MCOrders
    MaxDeckWords = 2   MaxConcurrent = 2   MaxRetries = 1
    MaxOrders = 4   MaxCrashes = 1   MaxEdits = 1
    Decks = {"d1", "d2", "d3"}
    Words = {"w1", "w2", "w3", "w4"}
    DeskCalls <- MCDeskCalls
    DeckRequests = {x1, x2}
    MaxDeckSize = 2   FreeDecks = 1
    FirstDecks <- MCFirstDecks   FirstWords <- MCFirstWords
    Saved = {"p1", "p2", "p3", "p4"}
    SavedCalls <- MCSavedCalls
    SavedRequests = {x1, x2, x3}
    FreeLimit = 3   FirstSaved <- MCFirstSaved
    Lessons = {"l1", "l2", "l3"}
    Authors = {y1, y2}
    AuthorCalls <- MCAuthorCalls
    FreeLessons = 1   PassAt = 50   Minute = 4   ShortestVideo = 2
    FirstLessons <- MCFirstLessons   FirstTasks <- MCFirstTasks
    MaxRows = 2   MaxTries = 2
    Posts = {y1, y2, "p3"}
    messageOf <- MCMessageOf
    Tickets = {"t1"}   MaxLive = 1   PageSize = 1
    CursorCalls = {x1, x2, x3}
    MaxNow = 2   MaxRestarts = 1
    Models <- MCModels   ModelOrder <- MCModelOrder   DOMAIN_ORDER <- MCDomainOrder
    RowIds <- MCRowIds   Runs = {y1, y2}
    Arguments <- MCArguments   Targets <- MCTargets
    FirstSource <- MCFirstSource   FirstProduction <- MCFirstProduction
    MaxChanges = 1
    Cards <- MCCards   Shelves <- MCShelves   LibraryOf <- MCLibraryOf   Offsets <- MCOffsets
    DayLength = 3   Queries <- MCQueries   NewLimit = 2   QueueLimit = 9   ScanMultiplier = 3
    Noon <- MCNoon
    Terms = {"go"}   Lookups = {x1, x2, x3}
    MaxPerWindow = 2   AiQuota = 2   MaxDesk = 2   MAX_MEANINGS = 2   MAX_SYNONYMS = 2
    Topics = {"s1", "s2", "s3", "s4"}   Pieces = {"i1", "i2", "i3"}
    Hands = {y1, y2, r1}   HandCalls <- MCHandCalls
    Families = {"speaking", "listening", "vocabulary"}
    FirstTopics <- MCFirstTopics   FirstPieces <- MCFirstPieces
    MaxBreath = 1
    Patchers = {y1, y2, r1}   Patches <- MCPatches   FirstQuestion <- MCFirstQuestion
CHECK_DEADLOCK FALSE
INVARIANTS CompletedStays
