SPECIFICATION MCSpec
CONSTANTS
    None = None
    s1 = s1   s2 = s2   s3 = s3   s4 = s4   m1 = m1   m2 = m2   m3 = m3
    Sends = {s1, s2, s3, s4}
    Ids = {m1, m2, m3}
    FREE = 1
    PRO = 3
    CLAIM_POLL_ATTEMPTS = 2
    MODELS = 4
    ATTEMPT_TIMEOUT = 1
    STREAM_TIME = 1
    PENDING_TTL = 4
    MAX_EXCHANGES = 2
    Scenes = {"retry", "session", "full", "quota"}
CHECK_DEADLOCK FALSE
INVARIANTS OneOwner OneReplyPerMessage QuotaHolds
PROPERTIES EverySendEnds
