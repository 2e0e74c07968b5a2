\* The worker thread of a turn and its heartbeat thread update one execution.
CONSTANTS
  t1 = t1  t2 = t2  m1 = m1  m2 = m2  e1 = e1  e2 = e2
  k1 = k1  k2 = k2
  Thread = {t1, t2}
  Process = {m1}
  ProcessOf <- SameProcess
  Exec = {e1}
  Key = {k1}
  Drives <- SharedDrives
  Makes <- WorkerAndHeartbeat
  UsedStatuses = {"running", "completed", "failed"}
  UsedPhases = {"provider"}
  NoThread = NoThread
  NoLease = NoLease
  NoJob = NoJob
  MaxAttempts = 2
  LeaseTtl = 1
  MaxEvents = 5
  MaxNow = 1
  AttemptCap = 3
SPECIFICATION Spec
PROPERTY CompletedIsImmutable
\* After a torn line every call of the session fails: the ledger really stops.
CHECK_DEADLOCK FALSE
