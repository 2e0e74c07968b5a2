CONSTANTS
  r1 = r1  r2 = r2  b1 = b1  k1 = k1  k2 = k2  v1 = v1  v2 = v2
  Runner = {r1, r2}
  Beater = {b1}
  Effect = {k1, k2}
  Value = {v1, v2}
  NoValue = NoValue
  NoEffect = NoEffect
  MaxAttempts = 2
  StoredFiles <- SessionFiles
  Derived <- Creatable
  Migrations <- TwoMigrations
  MaxCrashes = 2
  MaxErrors = 1
  MaxEdits = 1
  Worker <- TheWorker
  Clients <- OneClient
  MaxCalls = 2
  MaxRunIds = 8
  MaxTaskCrashes = 1
  MaxTaskErrors = 1
SPECIFICATION StoresSpec
INVARIANTS StoresTypeOK RetryMeansNotRunAlone ReceiptsTellTheTruth FilesAreWhole OneRunUnlessRobbed
PROPERTIES ImplementsAtMostOnce StartsWhole RecoveryEnds TasksAreServedThere
CHECK_DEADLOCK FALSE
