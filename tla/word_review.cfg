SPECIFICATION MCSpec
CONSTANTS
    fresh = fresh   old = old   r1 = r1   r2 = r2
    Lessons = {}
    Tasks = {}
    Questions = {}
    Words <- MCWords
    Reviews <- MCReviews
    Requests = {q1, q2}
    Answers = {"EASY", "AGAIN"}
    Histories <- MCHistories
INVARIANTS
    ProgressIsLastLog
    RetriesPaidAndAnsweredOnce
PROPERTIES
    ImplementsReviewHistory
