---------------------------- MODULE SubagentTasks ----------------------------
(***************************************************************************)
(* One background subagent task: a child session on disk that the worker   *)
(* of the runtime and the requests of its clients run, start, promote,     *)
(* cancel and resume (run_session_task_payload and its neighbours).        *)
(*                                                                         *)
(* Nothing but files joins these threads: the child's state.latest.json,   *)
(* rewritten whole from the copy a thread loaded, the run lock             *)
(* task.run.lock, and the cancel marker task.cancel.json.  A step below is *)
(* what a thread does between two accesses of those files.                 *)
(***************************************************************************)
EXTENDS Integers, FiniteSets

CONSTANTS Worker,         \* the thread of start_background_task_worker
          Clients,        \* request threads, each serving one request at a time
          MaxCalls,       \* bound: requests of the clients
          MaxRunIds,      \* bound: run ids handed out by new_id
          MaxTaskCrashes, \* bound: kills of the runtime
          MaxTaskErrors   \* bound: failed reads and writes

ASSUME TaskAssumption ==
  /\ Worker \notin Clients
  /\ MaxCalls \in Nat /\ MaxRunIds \in Nat \ {0}
  /\ MaxTaskCrashes \in Nat /\ MaxTaskErrors \in Nat

Threads == Clients \cup {Worker}
ASSUME ThreadAssumption == {"none", "dead"} \cap Threads = {}

RunIds == 1..MaxRunIds
NoRun == 0                \* no run_id in the state

VARIABLES task,           \* state.latest.json: status, background flag and run id
          lock,           \* task.run.lock
          marker,         \* the run id in task.cancel.json, or NoMarker
          thread,         \* what each thread does next, its copy of the child
                          \* session and the run id it goes by
          calls, ids, taskCrashes, taskErrors,
          robbed          \* ghost: the lock of a live thread was removed

taskVars == <<task, lock, marker, thread, calls, ids, taskCrashes, taskErrors, robbed>>

TaskOver == {"completed", "failed", "canceled"}
TaskStatuses == {"queued", "running", "waiting"} \cup TaskOver
Child == [status : TaskStatuses, background : BOOLEAN, run : RunIds \cup {NoRun}]

(* The task tool has queued the task under its first run id.               *)
Created == [status |-> "queued", background |-> TRUE, run |-> 1]

NoMarker == -1
NoLock == [by |-> "none", dated |-> FALSE, stale |-> FALSE]
IdleThread == [at |-> "idle", copy |-> Created, run |-> NoRun]

Running == {"loop", "settle"}
Stops == Running \cup
  {"idle", "claim", "claim_stale", "claim_again", "date", "reload", "start", "clear", "drop",
   "dispatch_lock", "dispatch_stale", "dispatch_save",
   "cancel_lock", "cancel_held", "cancel_stale", "cancel_mark", "cancel_save",
   "close_mark", "close_save",
   "resume_lock", "resume_stale", "resume_clear", "resume_save"}

TaskTypeOK ==
  /\ task \in Child
  /\ lock = NoLock \/ lock \in [by : Threads \cup {"dead"}, dated : BOOLEAN, stale : BOOLEAN]
  /\ marker \in RunIds \cup {NoMarker}
  /\ thread \in [Threads -> [at : Stops, copy : Child, run : RunIds \cup {NoRun}]]
  /\ calls \in 0..MaxCalls /\ ids \in 0..MaxRunIds /\ taskCrashes \in 0..MaxTaskCrashes
  /\ taskErrors \in 0..MaxTaskErrors
  /\ robbed \in BOOLEAN

TaskInit ==
  /\ task = Created /\ lock = NoLock /\ marker = NoMarker
  /\ thread = [t \in Threads |-> IdleThread]
  /\ calls = 0 /\ ids = 1 /\ taskCrashes = 0 /\ taskErrors = 0 /\ robbed = FALSE

-----------------------------------------------------------------------------
At(t, stop) == thread[t].at = stop
Copy(t) == thread[t].copy
Becomes(t, record) == thread' = [thread EXCEPT ![t] = record]
Goto(t, stop) == Becomes(t, [thread[t] EXCEPT !.at = stop])
Returns(t) == Becomes(t, IdleThread)
KeepBounds == UNCHANGED <<calls, ids, taskCrashes, taskErrors>>

(* A request arrives and loads the child.                                  *)
Arrives(t) ==
  /\ t \in Clients /\ At(t, "idle")
  /\ calls < MaxCalls
  /\ calls' = calls + 1

(* The run id of the state, or a new one.                                  *)
FreshId == IF task.run = NoRun THEN ids + 1 ELSE ids
TakenRun == IF task.run = NoRun THEN ids + 1 ELSE task.run
TakeId == FreshId <= MaxRunIds /\ ids' = FreshId

(* remove_stale_task_run_lock looks at the date, which a lock that was     *)
(* created a moment ago, or left so by a dead process, does not have, and  *)
(* removes in a later step whatever lock is there by then.                 *)
SeenStale == lock # NoLock /\ lock.dated /\ lock.stale

Remove(t) ==
  /\ lock' = NoLock
  /\ robbed' = (robbed \/ lock.by \in Threads \ {t})

(* run_session_task_payload, for a client or for the next round of the     *)
(* worker, which looks for background tasks only.                          *)
RunRequested(t) ==
  /\ IF t = Worker THEN At(t, "idle") /\ task.background /\ UNCHANGED calls ELSE Arrives(t)
  /\ task.status = "queued"
  /\ Goto(t, "claim")
  /\ UNCHANGED <<task, lock, marker, ids, taskCrashes, taskErrors, robbed>>

(* The lock file is created or truncated, without create_new.              *)
ClaimShared(t) ==
  /\ At(t, "claim") \/ At(t, "claim_again")
  /\ lock' = [by |-> t, dated |-> FALSE, stale |-> FALSE]
  /\ Goto(t, "date")
  /\ UNCHANGED <<task, marker, robbed>> /\ KeepBounds

(* A lock left by a dead process is never taken over.                      *)
ClaimUnlessLocked(t) ==
  /\ At(t, "claim") \/ At(t, "claim_again")
  /\ IF lock = NoLock
     THEN /\ lock' = [by |-> t, dated |-> FALSE, stale |-> FALSE]
          /\ Goto(t, "date")
     ELSE Returns(t) /\ UNCHANGED lock
  /\ UNCHANGED <<task, marker, robbed>> /\ KeepBounds

(* claim_session_task_run_lock: create it, or remove a stale one and try   *)
(* once more.                                                              *)
Claim(t) ==
  /\ At(t, "claim") \/ At(t, "claim_again")
  /\ IF lock = NoLock
     THEN /\ lock' = [by |-> t, dated |-> FALSE, stale |-> FALSE]
          /\ Goto(t, "date")
     ELSE /\ IF At(t, "claim") /\ SeenStale THEN Goto(t, "claim_stale") ELSE Returns(t)
          /\ UNCHANGED lock
  /\ UNCHANGED <<task, marker, robbed>> /\ KeepBounds

DateLock(t) ==
  /\ At(t, "date")
  /\ lock' = IF lock.by = t THEN [lock EXCEPT !.dated = TRUE] ELSE lock
  /\ Goto(t, "reload")
  /\ UNCHANGED <<task, marker, robbed>> /\ KeepBounds

(* The state is read again under the lock; a task that is no longer queued *)
(* is left alone.                                                          *)
Reload(t) ==
  /\ At(t, "reload")
  /\ IF task.status = "queued"
     THEN TakeId /\ Becomes(t, [at |-> "start", copy |-> task, run |-> TakenRun])
     ELSE Goto(t, "drop") /\ UNCHANGED ids
  /\ UNCHANGED <<task, lock, marker, calls, taskCrashes, taskErrors, robbed>>

StartRun(t) ==
  /\ At(t, "start")
  /\ LET child == [Copy(t) EXCEPT !.status = "running", !.run = thread[t].run]
     IN task' = child /\ Becomes(t, [thread[t] EXCEPT !.at = "loop", !.copy = child])
  /\ UNCHANGED <<lock, marker, robbed>> /\ KeepBounds

(* run_provider_loop saves the child as it goes.                           *)
SaveInLoop(t) ==
  /\ At(t, "loop")
  /\ task' = Copy(t)
  /\ UNCHANGED <<lock, marker, thread, robbed>> /\ KeepBounds

(* The loop is over, stopped by a cancel of the task or of its parent, or  *)
(* by itself; the marker is looked at once more and has the last word.     *)
LoopEnds(t) ==
  /\ At(t, "loop")
  /\ \E s \in {"waiting"} \cup TaskOver :
       Becomes(t, [thread[t] EXCEPT !.at = "settle",
                     !.copy.status = IF marker = thread[t].run THEN "canceled" ELSE s])
  /\ UNCHANGED <<task, lock, marker, robbed>> /\ KeepBounds

Settle(t) ==
  /\ At(t, "settle")
  /\ task' = Copy(t)
  /\ Becomes(t, [IdleThread EXCEPT !.at = "clear"])
  /\ UNCHANGED <<lock, marker, robbed>> /\ KeepBounds

ClearMarker(t) ==
  /\ At(t, "clear")
  /\ marker' = NoMarker
  /\ Goto(t, "drop")
  /\ UNCHANGED <<task, lock, robbed>> /\ KeepBounds

(* Dropping the guard removes whatever file is at its path.                *)
DropLock(t) ==
  /\ At(t, "drop")
  /\ Remove(t)
  /\ Returns(t)
  /\ UNCHANGED <<task, marker>> /\ KeepBounds

-----------------------------------------------------------------------------
(* What dispatching and resuming do about a lock: give up, or remove it    *)
(* when it is stale.                                                       *)
LooksAtLock(t, look, free, stale) ==
  /\ At(t, look)
  /\ IF lock = NoLock THEN Goto(t, free)
     ELSE IF SeenStale THEN Goto(t, stale) ELSE Returns(t)
  /\ UNCHANGED <<task, lock, marker, robbed>> /\ KeepBounds

RemovesStale(t, stale, free) ==
  /\ At(t, stale)
  /\ Remove(t)
  /\ Goto(t, free)
  /\ UNCHANGED <<task, marker>> /\ KeepBounds

(* dispatch_session_task_payload: start a queued task, or promote it to    *)
(* the foreground; the new thread, here the one of the request, goes on as *)
(* a run.                                                                  *)
Dispatch(t, promoted) ==
  /\ Arrives(t)
  /\ task.status = "queued"
  /\ Becomes(t, [IdleThread EXCEPT !.at = "dispatch_lock",
                 !.copy = [task EXCEPT !.background = ~promoted, !.run = NoRun]])
  /\ UNCHANGED <<task, lock, marker, ids, taskCrashes, taskErrors, robbed>>

DispatchSave(t) ==
  /\ At(t, "dispatch_save")
  /\ task' = Copy(t)
  /\ Becomes(t, [IdleThread EXCEPT !.at = "claim"])
  /\ UNCHANGED <<lock, marker, robbed>> /\ KeepBounds

(* cancel_session_task_payload: the child is loaded, then the lock decides *)
(* whether a run is told to stop or the task is closed on the spot.  A     *)
(* lock that goes away between the two looks counts as held.               *)
Cancel(t) ==
  /\ Arrives(t)
  /\ task.status \notin TaskOver
  /\ Becomes(t, [IdleThread EXCEPT !.at = "cancel_lock", !.copy = task])
  /\ UNCHANGED <<task, lock, marker, ids, taskCrashes, taskErrors, robbed>>

CancelLooks(t) ==
  /\ At(t, "cancel_lock")
  /\ TakeId
  /\ Becomes(t, [thread[t] EXCEPT !.run = TakenRun,
                                  !.at = IF lock = NoLock THEN "close_mark" ELSE "cancel_held"])
  /\ UNCHANGED <<task, lock, marker, calls, taskCrashes, taskErrors, robbed>>

CancelDates(t) ==
  /\ At(t, "cancel_held")
  /\ Goto(t, IF SeenStale THEN "cancel_stale" ELSE "cancel_mark")
  /\ UNCHANGED <<task, lock, marker, robbed>> /\ KeepBounds

CancelMarks(t) ==
  /\ At(t, "cancel_mark") \/ At(t, "close_mark")
  /\ marker' = thread[t].run
  /\ Goto(t, IF At(t, "cancel_mark") THEN "cancel_save" ELSE "close_save")
  /\ UNCHANGED <<task, lock, robbed>> /\ KeepBounds

CancelSaves(t) ==
  /\ At(t, "cancel_save") \/ At(t, "close_save")
  /\ task' = [Copy(t) EXCEPT !.run = thread[t].run,
                             !.status = IF At(t, "close_save") THEN "canceled" ELSE @]
  /\ Returns(t)
  /\ UNCHANGED <<lock, marker, robbed>> /\ KeepBounds

(* resume_session_task_payload: a failed or canceled task is queued again. *)
Resume(t) ==
  /\ Arrives(t)
  /\ task.status \in {"failed", "canceled"}
  /\ Becomes(t, [IdleThread EXCEPT !.at = "resume_lock", !.copy = [Created EXCEPT !.run = NoRun]])
  /\ UNCHANGED <<task, lock, marker, ids, taskCrashes, taskErrors, robbed>>

ResumeClears(t) ==
  /\ At(t, "resume_clear")
  /\ marker' = NoMarker
  /\ Goto(t, "resume_save")
  /\ UNCHANGED <<task, lock, robbed>> /\ KeepBounds

ResumeSaves(t) ==
  /\ At(t, "resume_save")
  /\ task' = Copy(t)
  /\ Returns(t)
  /\ UNCHANGED <<lock, marker, robbed>> /\ KeepBounds

-----------------------------------------------------------------------------
(* The runtime is killed and started again: its threads are gone, the      *)
(* files are not.                                                          *)
TaskCrash ==
  /\ taskCrashes < MaxTaskCrashes
  /\ taskCrashes' = taskCrashes + 1
  /\ thread' = [t \in Threads |-> IdleThread]
  /\ lock' = IF lock = NoLock THEN NoLock ELSE [lock EXCEPT !.by = "dead"]
  /\ UNCHANGED <<task, marker, calls, ids, taskErrors, robbed>>

(* A read or a write fails.  A lock that cannot be dated is removed again, *)
(* a run whose start cannot be recorded gives its lock up with the child   *)
(* saved as running or not, a request ends with an error; a result that    *)
(* cannot be saved, a marker that cannot be removed, are not noticed.      *)
(* (The loop's own errors are a way LoopEnds ends it; that the lock file   *)
(* itself cannot be removed is left out.)                                  *)
GivesUp == {"claim", "claim_again", "claim_stale", "dispatch_stale", "cancel_stale",
            "resume_stale", "dispatch_save", "cancel_mark", "close_mark",
            "cancel_save", "close_save", "resume_save"}

TaskFails(t) ==
  /\ taskErrors < MaxTaskErrors
  /\ taskErrors' = taskErrors + 1
  /\ \/ /\ At(t, "date")
        /\ Remove(t) /\ Returns(t) /\ UNCHANGED task
     \/ /\ At(t, "start")
        /\ task' \in {task, [Copy(t) EXCEPT !.status = "running", !.run = thread[t].run]}
        /\ Goto(t, "drop") /\ UNCHANGED <<lock, robbed>>
     \/ /\ \/ At(t, "settle") /\ Becomes(t, [IdleThread EXCEPT !.at = "clear"])
           \/ At(t, "clear") /\ Goto(t, "drop")
           \/ At(t, "resume_clear") /\ Goto(t, "resume_save")
           \/ thread[t].at \in GivesUp /\ Returns(t)
        /\ UNCHANGED <<task, lock, robbed>>
  /\ UNCHANGED <<marker, calls, ids, taskCrashes>>

(* A quarter of an hour has gone by since the lock was claimed.  Nothing   *)
(* renews the date, whether its owner is dead or still in a run, which may *)
(* take 45 minutes or four hours.                                          *)
Expire ==
  /\ lock.by # "none" /\ lock.dated /\ ~lock.stale
  /\ lock' = [lock EXCEPT !.stale = TRUE]
  /\ UNCHANGED <<task, marker, thread, robbed>> /\ KeepBounds

TaskSteps(t) ==
  \/ Claim(t) \/ DateLock(t) \/ Reload(t) \/ StartRun(t)
  \/ LoopEnds(t) \/ Settle(t) \/ ClearMarker(t) \/ DropLock(t)
  \/ RemovesStale(t, "claim_stale", "claim_again")
  \/ LooksAtLock(t, "dispatch_lock", "dispatch_save", "dispatch_stale")
  \/ RemovesStale(t, "dispatch_stale", "dispatch_save")
  \/ DispatchSave(t)
  \/ CancelLooks(t) \/ CancelDates(t) \/ RemovesStale(t, "cancel_stale", "close_mark")
  \/ CancelMarks(t) \/ CancelSaves(t)
  \/ LooksAtLock(t, "resume_lock", "resume_clear", "resume_stale")
  \/ RemovesStale(t, "resume_stale", "resume_clear")
  \/ ResumeClears(t) \/ ResumeSaves(t)

Requests(t) ==
  \/ RunRequested(t) \/ Cancel(t) \/ Resume(t)
  \/ \E promoted \in BOOLEAN : Dispatch(t, promoted)

TaskNext ==
  \/ \E t \in Threads : TaskSteps(t) \/ Requests(t) \/ SaveInLoop(t) \/ TaskFails(t)
  \/ TaskCrash \/ Expire

TaskSpec == TaskInit /\ [][TaskNext]_taskVars

(* The worker polls for ever, a request that was accepted and a provider   *)
(* loop that was entered go on to their end, and time passes.              *)
TaskFairSpec == /\ TaskSpec
            /\ \A t \in Threads : WF_taskVars(TaskSteps(t))
            /\ WF_taskVars(RunRequested(Worker))
            /\ WF_taskVars(Expire)

-----------------------------------------------------------------------------
(* "task is already running": however run, start, promote, cancel, resume, *)
(* crashes and errors interleave, the task runs in one thread at a time,   *)
(* unless a live thread lost its lock to the removal of a stale one.  That *)
(* happens in the code: to every run that outlives the quarter of an hour  *)
(* while somebody asks for the lock, and to one that claims it between the *)
(* look at an older lock and its removal.  No other order of events gives  *)
(* the task a second runner.                                               *)
OneRunUnlessRobbed ==
  ~robbed => Cardinality({t \in Threads : thread[t].at \in Running}) <= 1

(* A queued background task is picked up, even when the process that had   *)
(* claimed it died, unless that left a lock without a date.                *)
Undated == lock.by = "dead" /\ ~lock.dated
Waiting == task.status = "queued" /\ task.background
QueuedIsPickedUp == Waiting ~> (~Waiting \/ Undated)

(* "task is still stopping" does not last: a thread that claimed the lock  *)
(* lets go of it on every way out of the run, so a resume or another run   *)
(* gets through.                                                           *)
LockIsReleased == lock.by \in Threads ~> lock.by \notin Threads

(* Nobody waits for a task for ever: not its queue, and not its lock.      *)
TasksAreServed == QueuedIsPickedUp /\ LockIsReleased
=============================================================================
