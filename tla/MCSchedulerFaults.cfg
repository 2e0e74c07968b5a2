CONSTANTS
  MaxAttempts = 3
  s1 = s1  s2 = s2  t1 = t1  t2 = t2  t3 = t3
  Session = {s1, s2}
  Turn = {t1, t2, t3}
  SessionOf <- TwoSessions
  Quota = 2
  QueueLimit = 2
  Responder = {r1}
  MayAsk = {t1}
  MayInterrupt = {t1}
  MayNotSpawn = {t2}
  MayNotQueue = {t3}
  NoTurn = NoTurn
  NoJob = NoJob
  MaxAsks = 2
  MaxAged = 0
  MaxCrashes = 1
SPECIFICATION Spec
CHECK_DEADLOCK FALSE
INVARIANTS TurnsKeepApart QueuedTurnsSurvive
