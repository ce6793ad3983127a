SPECIFICATION MCSpec
CONSTANTS
    u1 = u1   l1 = l1   quiz = quiz   practice = practice   old = old
    w1 = w1   r1 = r1   r2 = r2   q1 = q1
    Users = {u1}
    Txs = {t1, t2}
    Lessons = {l1}
    Tasks <- MCTasks
    Questions = {q1}
    Words = {w1}
    Reviews = {r1, r2}
    Calls <- MCCalls
    Pasts <- MCPasts
    Scenes = {"veteran", "newcomer", "week", "traveller"}
    Start = 4
    MaxInstant = 5
    SlotsPerDay = 2
    ZoneShift = 1
INVARIANTS
    TotalIsLedgerSum
    BadgesMatchHistory
    Xp500Earned
    HooksOncePerDay
PROPERTIES
    EveryCallEnds
