------------------------------ MODULE MCStores ------------------------------
(***************************************************************************)
(* What the runtime promises about files that several threads or several   *)
(* lives of the process share: effect receipts, the storage root and the   *)
(* task files.  The parts do not interact, so a behaviour runs one of them *)
(* and leaves the others at rest.                                          *)
(***************************************************************************)
EXTENDS EffectReceipts, StorageMigration, SubagentTasks

CONSTANTS r1, r2, b1, k1, k2, v1, v2

(* A session's state and its record, which an old root may lack.           *)
SessionFiles == {"state", "record"}
Creatable == {"record"}
TwoMigrations == 1..2

TheWorker == "w"
OneClient == {"c1"}

VARIABLE part             \* which of the parts this behaviour is about

storeVars == <<vars, migrationVars, taskVars, part>>

StoresInit ==
  /\ part \in {"race", "alone", "migration", "tasks"}
  /\ Init /\ MigrationInit /\ TaskInit
  /\ part # "migration" => \A f \in StoredFiles : file[f].schema = "legacy"
-----------------------------------------------------------------------------
(* Two threads and a heartbeat reach the same tool call; or one thread     *)
(* makes the two tool calls of its turn, dying and starting over.          *)
Effects(A) == A /\ UNCHANGED <<migrationVars, taskVars, part>>
Race == part = "race" /\ Effects(Next) /\ \A r \in Runner : at'[r] # k2
Alone == part = "alone" /\ Effects(Next) /\ pc'[r2] = "idle" /\ pc'[b1] = "idle"

Migration(A) == part = "migration" /\ A /\ UNCHANGED <<vars, taskVars, part>>

Tasks(A) == part = "tasks" /\ A /\ UNCHANGED <<vars, migrationVars, part>>

StoresNext == Race \/ Alone \/ Migration(MigrationNext) \/ Tasks(TaskNext)

(* The fairness of MigrationFairSpec and TaskFairSpec, each for its part.  *)
StoresSpec ==
  /\ StoresInit /\ [][StoresNext]_storeVars
  /\ WF_storeVars(Migration(MigrationStep))
  /\ WF_storeVars(Migration(BeginCall("start")))
  /\ \A t \in Threads : WF_storeVars(Tasks(TaskSteps(t)))
  /\ WF_storeVars(Tasks(RunRequested(Worker)))
  /\ WF_storeVars(Tasks(Expire))
-----------------------------------------------------------------------------
(* Every variable of the three models holds a value of its type.           *)
StoresTypeOK == TypeOK /\ MigrationTypeOK /\ TaskTypeOK

(* "would retry" is judged where one thread makes the calls: with a        *)
(* heartbeat beside it the record itself may be stale.                     *)
RetryMeansNotRunAlone == part = "alone" => RetryMeansNotRun

(* The queued task of a behaviour about something else waits for nobody.   *)
TasksAreServedThere == part = "tasks" => TasksAreServed
=============================================================================
