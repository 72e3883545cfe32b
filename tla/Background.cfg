SPECIFICATION Spec
CONSTANTS
  i = i
  j = j
  Initial = 1
  MaxBackoff = 4
  IdleDelay = 1
  RateLimited = 3
  RetryAfters = {0, 2, 9}
  InsightIds = {i, j}
  MaxChanges = 3
  MaxAnswers = 2
  e1 = e1
  e2 = e2
  Events = {e1, e2}
  MaxTime = 4
  MaxTroubles = 1
  MaxRestarts = 1
  RawTtl = 1
  SentKeep = 3
  RejectedKeep = 0
  RunKeep = 3
  CacheGrace = 1
  IntentionDays = 2
  BatchSize = 1
  r1 = r1
  r2 = r2
  r3 = r3
  Requests = {r1, r2, r3}
  ClockMax = 3
  Keep = 1
  MaxEntries = 2
  PruneBatch = 2
INVARIANTS  ChainVerifies
PROPERTIES EverythingExpires PollKeepsPace LedgerImplementsLog
CHECK_DEADLOCK FALSE
