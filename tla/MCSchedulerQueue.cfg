CONSTANTS
  MaxAttempts = 3
  s1 = s1  s2 = s2  t1 = t1  t2 = t2  t3 = t3
  Session = {s1, s2}
  Turn = {t1, t2, t3}
  SessionOf <- TwoSessions
  Quota = 1
  QueueLimit = 2
  Responder = {}
  MayAsk = {}
  MayInterrupt = {}
  MayNotSpawn = {}
  MayNotQueue = {t3}
  NoTurn = NoTurn
  NoJob = NoJob
  MaxAsks = 0
  MaxAged = 1
  MaxCrashes = 1
SPECIFICATION FairSpec
CHECK_DEADLOCK FALSE
INVARIANTS TypeOK RegistryServes
PROPERTIES QueueOrder TerminalIsFinal QueuedLeaves
