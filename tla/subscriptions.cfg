CONSTANTS
  u1 = u1
  u2 = u2
  PRO = PRO
  PREMIUM = PREMIUM
  c1 = c1
  c2 = c2
  t1 = t1
  t2 = t2
  t3 = t3
  t4 = t4
  j1 = j1
  r3 = r3
  None = None
  Users = {u1, u2}
  Plans = {PRO, PREMIUM}
  Codes = {c1, c2, c3}
  Transfers = {t1, t2, t3, t4}
  Requests = {r1, r2, r3}
  Jobs = {j1, j2}
  LOCK_POLL_ATTEMPTS = 2
  REFERRAL_REWARD_DAYS = 3
  REWARD_DAYS = 7
  GrantDays = 10
  Dates = {0, 31}
  Scenes = {"checkout", "crowd", "settling", "rewards"}
  PastOrders <- MCPast
  CodeOf <- MCCodeOf
  AmountOf <- MCAmountOf
  DURATION_DAYS <- MCDuration
SPECIFICATION MCSpec
CHECK_DEADLOCK FALSE
INVARIANTS OneLiveOrder EntitlementAccounted
PROPERTIES ImplementsOrders EveryRequestAnswered
