\* Two processes share one ledger; each drives an execution of its own.
CONSTANTS
  t1 = t1  t2 = t2  m1 = m1  m2 = m2  e1 = e1  e2 = e2
  k1 = k1  k2 = k2
  Thread = {t1, t2}
  Process = {m1, m2}
  ProcessOf <- OneThreadEach
  Exec = {e1, e2}
  Key = {k1, k2}
  Drives <- OwnDrives
  Makes <- StoreAndTurn
  UsedStatuses = {"running", "completed"}
  UsedPhases = {"provider"}
  NoThread = NoThread
  NoLease = NoLease
  NoJob = NoJob
  MaxAttempts = 2
  LeaseTtl = 1
  MaxEvents = 4
  MaxNow = 1
  AttemptCap = 3
SPECIFICATION Spec
INVARIANTS TypeOK LedgerIsOneStory KeyMeansOneExecution HistoryIsOrderly
PROPERTY CompletedIsImmutable
\* After a torn line every call of the session fails: the ledger really stops.
CHECK_DEADLOCK FALSE
