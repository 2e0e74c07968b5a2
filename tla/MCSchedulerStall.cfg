CONSTANTS
  MaxAttempts = 3
  s1 = s1  s2 = s2  t1 = t1  t2 = t2  t3 = t3
  Session = {s1}
  Turn = {t1, t2}
  SessionOf <- OneTurnEach
  Quota = 1
  QueueLimit = 1
  Responder = {r1}
  MayAsk = {t1}
  MayInterrupt = {}
  MayNotSpawn = {}
  MayNotQueue = {}
  NoTurn = NoTurn
  NoJob = NoJob
  MaxAsks = 1
  MaxAged = 0
  MaxCrashes = 0
SPECIFICATION FairSpec
CHECK_DEADLOCK FALSE
PROPERTY QueuedStartsWhenIdle
