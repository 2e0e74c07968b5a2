------------------------- MODULE MCExecutionLedger -------------------------
(* Instances of ExecutionLedger for TLC.                                   *)
EXTENDS ExecutionLedger

CONSTANTS t1, t2, m1, m2, e1, e2, k1, k2

\* Two processes; the first has a worker and a heartbeat thread.
OneThreadEach == [t \in Thread |-> IF t = t1 THEN m1 ELSE m2]
SameProcess == [t \in Thread |-> m1]

\* Every thread updates every execution, or each its own.
SharedDrives == [t \in Thread |-> Exec]
OwnDrives == [t \in Thread |-> IF t = t1 THEN {e1} ELSE Exec \ {e1}]

\* t1 drives an execution with no job in memory (a session, a task, an
\* interaction) through the store; t2 creates executions and drives a turn
\* that has a job.
StoreAndTurn ==
  [t \in Thread |->
     IF t = t1 THEN CallName \ {"mark_state"} ELSE {"create", "mark_state"}]

\* t1 is the worker of a turn and t2 the heartbeat thread that
\* spawn_turn_heartbeat gave it.
WorkerAndHeartbeat ==
  [t \in Thread |-> IF t = t1 THEN {"create", "mark_state"} ELSE {"heartbeat"}]
=============================================================================
