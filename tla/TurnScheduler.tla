--------------------------- MODULE TurnScheduler ---------------------------
(***************************************************************************)
(* The turn scheduler of one HTTP runtime: the requests that register a    *)
(* turn, the bounded worker threads that drive turns, the per-session      *)
(* queues, the responses to approvals and questions, interrupts, status    *)
(* polls, and the restart that rebuilds the queues from disk.              *)
(*                                                                         *)
(* register_turn_job and pop_next_schedulable_queued_turn hold the         *)
(* scheduler lock; marking a job, interrupting it and driving it do not.   *)
(* A turn's snapshot reaches the ledger and the job index in the step that *)
(* changes the job, except inside the two locked operations, which are     *)
(* split where a crash or an interrupt can fall.                           *)
(***************************************************************************)
EXTENDS ExecutionModel, FiniteSets, Sequences, Orders

CONSTANTS
  Session, Turn,
  SessionOf,      \* the session each request names
  Quota,          \* max_running_turn_workers
  QueueLimit,     \* max_queued_turns_per_session
  Responder,      \* HTTP threads that may answer approvals and questions
  MayAsk,         \* turns that reach an approval or a question
  MayInterrupt,   \* turns a client may interrupt
  MayNotSpawn,    \* turns whose worker thread may fail to start
  MayNotQueue,    \* turns whose lease or payload may fail to be written
  NoTurn, NoJob,
  MaxAsks,        \* bound: approvals and questions of one turn
  MaxAged,        \* bound: how many queued turns the clock may time out
  MaxCrashes      \* bound: crashes of the runtime

ASSUME SchedulerAssumption ==
  /\ SessionOf \in [Turn -> Session] /\ IsFiniteSet(Turn)
  /\ Quota \in Nat \ {0} /\ QueueLimit \in Nat
  /\ MayAsk \subseteq Turn /\ MayInterrupt \subseteq Turn
  /\ MayNotSpawn \subseteq Turn /\ MayNotQueue \subseteq Turn
  /\ NoTurn \notin Turn /\ NoJob \notin Status
  /\ MaxAsks \in Nat /\ MaxAged \in Nat /\ MaxCrashes \in Nat

VARIABLES
  \* memory of the runtime
  up,        \* "serving", "starting" (recovery starts turns) or "down"
  job,       \* turn_jobs: the status of each registered turn
  cancelled, \* the cancel flag of each job
  queue,     \* queued_turns: one FIFO queue per session
  sched,     \* what the holder of the scheduler lock is doing
  thread,    \* the worker of each turn
  outcome,   \* the result that worker will mark
  resp,      \* the HTTP threads answering approvals and questions
  intr,      \* the interrupt request of each turn
  \* files under the session root
  index,     \* the job index, turn_jobs.json
  record,    \* the status of each turn in the lifecycle ledger
  payload,   \* turns with a queued payload file
  leased,    \* turns with a queue lease file
  pending,   \* the turn each session's pending approval or question is for
  event,     \* the last terminal event of each turn
  stamp,     \* queued_at_ms, as the rank of the turn among the queued ones
  \* bounds and history
  aged,      \* turns up to this stamp have waited turn_queue_timeout_ms
  asks, crashes,
  starts,    \* ghost: the workers ever started for each turn
  contested  \* ghost: turns answered while another answer of them was carried out

memory == <<up, job, cancelled, queue, sched, thread, outcome, resp, intr>>
files == <<index, record, payload, leased, pending, event, stamp>>
ghosts == <<starts, contested>>
vars == <<memory, files, aged, asks, crashes, ghosts>>

JobStatus == Status \cup {NoJob}
Outcome == {"none", "completed", "failed", "interrupted", "waiting"}
LockFree == [pc |-> "free", turn |-> NoTurn, queued |-> FALSE]
Idle == [pc |-> "idle", turn |-> NoTurn, outcome |-> "none"]
-----------------------------------------------------------------------------
\* Mutant: a waiting job gives its session and its slot away.
IsActiveRunning(s) == s = "running"

\* A job that is neither queued nor terminal holds its session and a worker
\* slot, a waiting one included.
IsActive(s) == s # NoJob /\ s # "queued" /\ ~IsTerminal(s)

SessionHasRunningTurn(jobs, s) == \E t \in Turn : SessionOf[t] = s /\ IsActive(jobs[t])

RunningCount(jobs) == Cardinality({t \in Turn : IsActive(jobs[t])})

InQueue(t) == \E i \in DOMAIN queue[SessionOf[t]] : queue[SessionOf[t]][i] = t

TimedOut(t) == stamp[t] # 0 /\ stamp[t] <= aged

\* persist_turn_job_snapshot for every turn of the domain of `changes`: the
\* index takes the snapshot, the ledger only a legal transition.
Save(changes) ==
  /\ index' = [t \in Turn |-> IF t \in DOMAIN changes THEN changes[t] ELSE index[t]]
  /\ record' = [t \in Turn |->
                  IF t \in DOMAIN changes /\ CanTransition(record[t], changes[t])
                  THEN changes[t] ELSE record[t]]

\* remove_queued_turn_payload and remove_queued_turn_from_memory.
Forget(t) ==
  /\ queue' = [s \in Session |-> Retain(queue[s], Turn \ {t})]
  /\ payload' = payload \ {t}
  /\ leased' = leased \ {t}

\* mark_turn_job_status_at_root: sets the status whatever it was, in memory
\* or, for a turn this process has no job for, in the index.
MarkStatus(t, s) ==
  /\ job' = IF job[t] = NoJob THEN job ELSE [job EXCEPT ![t] = s]
  /\ Save([u \in {t} |-> s])
  /\ IF IsTerminal(s) THEN Forget(t) ELSE UNCHANGED <<queue, payload, leased>>

\* mark_turn_job_state: sets the status only along a legal transition.
MarkState(t, s) ==
  LET known == IF job[t] = NoJob THEN index[t] ELSE job[t]
      new   == IF CanTransition(known, s) THEN s ELSE known
  IN /\ job' = IF job[t] = NoJob THEN job ELSE [job EXCEPT ![t] = new]
     /\ Save([u \in {t} |-> new])
     /\ UNCHANGED <<queue, payload, leased>>
-----------------------------------------------------------------------------
Init ==
  /\ up = "serving"
  /\ job = [t \in Turn |-> NoJob]
  /\ cancelled = [t \in Turn |-> FALSE]
  /\ queue = [s \in Session |-> <<>>]
  /\ sched = LockFree
  /\ thread = [t \in Turn |-> "none"]
  /\ outcome = [t \in Turn |-> "none"]
  /\ resp = [r \in Responder |-> Idle]
  /\ intr = [t \in Turn |-> "none"]
  /\ index = [t \in Turn |-> NoJob]
  /\ record = [t \in Turn |-> NoJob]
  /\ payload = {} /\ leased = {}
  /\ pending = [s \in Session |-> NoTurn]
  /\ event = [t \in Turn |-> "none"]
  /\ stamp = [t \in Turn |-> 0]
  /\ aged = 0 /\ crashes = 0
  /\ asks = [t \in Turn |-> 0]
  /\ starts = [t \in Turn |-> 0] /\ contested = {}

(***************************************************************************)
(* register_turn_job, under the scheduler lock.                            *)
(***************************************************************************)

MustQueue(s) == SessionHasRunningTurn(job, s) \/ RunningCount(job) >= Quota

\* Takes the lock, decides and creates the ledger record.  A full queue refuses
\* the request, and a turn that has a record is answered with it: neither
\* changes anything.
Admit(t) ==
  LET s == SessionOf[t]
      queued == MustQueue(s)
  IN /\ up = "serving" /\ sched = LockFree
     /\ record[t] = NoJob
     /\ queued => Len(queue[s]) < QueueLimit
     /\ sched' = [pc |-> IF queued THEN "created" ELSE "admitted", turn |-> t,
                  queued |-> queued]
     /\ record' = [record EXCEPT ![t] = IF queued THEN "queued" ELSE "running"]
     /\ UNCHANGED <<up, job, cancelled, queue, thread, outcome, resp, intr, index,
                    payload, leased, pending, event, stamp, aged, asks, crashes, ghosts>>

\* A turn that has to wait claims its lease ...
ClaimLease ==
  /\ sched.pc = "created"
  /\ sched' = [sched EXCEPT !.pc = "leased"]
  /\ leased' = leased \cup {sched.turn}
  /\ UNCHANGED <<up, job, cancelled, queue, thread, outcome, resp, intr, index, record,
                 payload, pending, event, stamp, aged, asks, crashes, ghosts>>

\* ... and writes its payload, behind the turns that were queued before.
PersistPayload ==
  LET ahead == Cardinality({u \in Turn : stamp[u] # 0}) IN
  /\ sched.pc = "leased"
  /\ sched' = [sched EXCEPT !.pc = "admitted"]
  /\ payload' = payload \cup {sched.turn}
  /\ stamp' = [stamp EXCEPT ![sched.turn] = ahead + 1]
  /\ UNCHANGED <<up, job, cancelled, queue, thread, outcome, resp, intr, index, record,
                 leased, pending, event, aged, asks, crashes, ghosts>>

\* The request answers an error: the lease file cannot be written, which leaves
\* the record queued for good and maybe an empty file; or the lease is another
\* process's, or the payload cannot be written, and the record has failed.
AdmitFails ==
  LET t == sched.turn IN
  /\ sched.pc \in {"created", "leased"} /\ t \in MayNotQueue
  /\ sched' = LockFree
  /\ \/ /\ sched.pc = "created"
        /\ leased' \in {leased, leased \cup {t}}
        /\ UNCHANGED record
     \/ /\ leased' = IF sched.pc = "leased" THEN leased \ {t} ELSE leased
        /\ record' = [record EXCEPT ![t] = "failed"]
  /\ UNCHANGED <<up, job, cancelled, queue, thread, outcome, resp, intr, index, payload,
                 pending, event, stamp, aged, asks, crashes, ghosts>>

\* The job becomes visible in turn_jobs.
Enter ==
  /\ sched.pc = "admitted"
  /\ sched' = [sched EXCEPT !.pc = "entered"]
  /\ job' = [job EXCEPT ![sched.turn] = IF sched.queued THEN "queued" ELSE "running"]
  /\ UNCHANGED <<up, cancelled, queue, thread, outcome, resp, intr, files, aged,
                 asks, crashes, ghosts>>

\* Mutant: the request spawns a worker for a queued turn too.
PushSpawnsAll ==
  LET t == sched.turn IN
  /\ sched.pc = "entered"
  /\ sched' = LockFree
  /\ queue' = IF sched.queued
              THEN [queue EXCEPT ![SessionOf[t]] = Append(@, t)] ELSE queue
  /\ Save([u \in {t} |-> IF sched.queued THEN "queued" ELSE "running"])
  /\ thread' = [thread EXCEPT ![t] = "due"]
  /\ UNCHANGED <<up, job, cancelled, outcome, resp, intr, payload, leased, pending,
                 event, stamp, aged, asks, crashes, ghosts>>

\* The turn joins its queue, the snapshot taken at Enter is persisted, the
\* lock is released; a turn that need not wait gets a worker next.
Push ==
  LET t == sched.turn IN
  /\ sched.pc = "entered"
  /\ sched' = LockFree
  /\ queue' = IF sched.queued
              THEN [queue EXCEPT ![SessionOf[t]] = Append(@, t)] ELSE queue
  /\ Save([u \in {t} |-> IF sched.queued THEN "queued" ELSE "running"])
  /\ thread' = IF sched.queued THEN thread ELSE [thread EXCEPT ![t] = "due"]
  /\ UNCHANGED <<up, job, cancelled, outcome, resp, intr, payload, leased, pending,
                 event, stamp, aged, asks, crashes, ghosts>>

\* start_turn_async_payload: the request spawns the worker ...
SpawnWorker(t) ==
  /\ thread[t] = "due"
  /\ thread' = [thread EXCEPT ![t] = "run"]
  /\ starts' = [starts EXCEPT ![t] = @ + 1]
  /\ UNCHANGED <<up, job, cancelled, queue, sched, outcome, resp, intr, files, aged,
                 asks, crashes, contested>>

\* ... or answers an error and leaves the job as it is.
SpawnFails(t) ==
  /\ thread[t] = "due" /\ t \in MayNotSpawn
  /\ thread' = [thread EXCEPT ![t] = "none"]
  /\ UNCHANGED <<up, job, cancelled, queue, sched, outcome, resp, intr, files, aged,
                 asks, crashes, ghosts>>

(***************************************************************************)
(* pop_next_schedulable_queued_turn and start_next_queued_turns: a worker  *)
(* that has marked its turn, or the restarted runtime, starts what it can. *)
(***************************************************************************)

\* expire_queued_turns_locked: the turns it takes out of the queues, and
\* queues and jobs after it.
Expired == {t \in Turn : InQueue(t) /\ TimedOut(t)}

Unexpired == [s \in Session |-> Retain(queue[s], {t \in Turn : ~TimedOut(t)})]

\* Mutant: the status text "expired" is stored as it is.
JobsExpiredRaw == [t \in Turn |-> IF t \in Expired THEN "expired" ELSE job[t]]

\* Mutant: whatever has waited too long is cancelled, queued or not.
JobsAllExpired == [t \in Turn |-> IF TimedOut(t) THEN "cancelled" ELSE job[t]]

JobsUnexpired == [t \in Turn |-> IF t \in Expired THEN "cancelled" ELSE job[t]]

\* The front of each queue whose session is idle.
Candidates(jobs, q) ==
  {q[s][1] : s \in {r \in Session : q[r] # <<>> /\ ~SessionHasRunningTurn(jobs, r)}}

\* Mutant: the last slot is never used.
SchedulableTimid(jobs, q) ==
  IF RunningCount(jobs) + 1 >= Quota THEN {}
  ELSE {t \in Candidates(jobs, q) : \A u \in Candidates(jobs, q) : stamp[t] <= stamp[u]}

\* The turns the loop may take: none when every slot is used, else the one
\* queued first.
Schedulable(jobs, q) ==
  IF RunningCount(jobs) >= Quota THEN {}
  ELSE {t \in Candidates(jobs, q) : \A u \in Candidates(jobs, q) : stamp[t] <= stamp[u]}

MayPop == sched = LockFree /\ (up = "starting" \/ \E t \in Turn : thread[t] = "next")

\* Expires, takes the first schedulable turn off its queue and, if its job
\* is still queued, makes it running.
PopSelect ==
  LET jobs == JobsUnexpired
      q == Unexpired
  IN /\ MayPop
     /\ \E t \in Schedulable(jobs, q) :
          LET new == IF jobs[t] = "queued" THEN "running" ELSE jobs[t] IN
          /\ job' = [jobs EXCEPT ![t] = new]
          /\ queue' = [q EXCEPT ![SessionOf[t]] = Tail(@)]
          /\ sched' = [pc |-> "popped", turn |-> t, queued |-> jobs[t] = "queued"]
     /\ Save([u \in Expired |-> "cancelled"])
     /\ payload' = payload \ Expired
     /\ leased' = leased \ Expired
     /\ UNCHANGED <<up, cancelled, thread, outcome, resp, intr, pending, event, stamp,
                    aged, asks, crashes, ghosts>>

\* The snapshot of the popped job reaches the disk.
PopPersist ==
  /\ sched.pc = "popped"
  /\ sched' = [sched EXCEPT !.pc = "persisted"]
  /\ IF sched.queued THEN Save([u \in {sched.turn} |-> "running"])
     ELSE UNCHANGED <<index, record>>
  /\ UNCHANGED <<up, job, cancelled, queue, thread, outcome, resp, intr, payload,
                 leased, pending, event, stamp, aged, asks, crashes, ghosts>>

\* Payload and lease are removed, the lock is released and the worker is
\* spawned; when that fails the turn has failed.
PopDone ==
  LET t == sched.turn IN
  /\ sched.pc = "persisted"
  /\ sched' = LockFree
  /\ payload' = payload \ {t} /\ leased' = leased \ {t}
  /\ \/ /\ sched.queued
        /\ thread' = [thread EXCEPT ![t] = "run"]
        /\ starts' = [starts EXCEPT ![t] = @ + 1]
        /\ UNCHANGED <<job, index, record, event>>
     \/ /\ sched.queued /\ t \in MayNotSpawn
        /\ event' = [event EXCEPT ![t] = "failed"]
        /\ job' = [job EXCEPT ![t] = "failed"]
        /\ Save([u \in {t} |-> "failed"])
        /\ UNCHANGED <<thread, starts>>
     \/ /\ ~sched.queued
        /\ UNCHANGED <<job, thread, starts, index, record, event>>
  /\ UNCHANGED <<up, cancelled, queue, outcome, resp, intr, pending, stamp, aged,
                 asks, crashes, contested>>

\* Nothing (more) to start: what expired is cancelled, the worker thread
\* ends, the restarted runtime begins to serve.
PopNothing ==
  /\ MayPop
  /\ Schedulable(JobsUnexpired, Unexpired) = {}
  /\ job' = JobsUnexpired /\ queue' = Unexpired
  /\ Save([u \in Expired |-> "cancelled"])
  /\ payload' = payload \ Expired /\ leased' = leased \ Expired
  /\ \/ up = "starting" /\ up' = "serving" /\ UNCHANGED thread
     \/ \E t \in Turn : /\ thread[t] = "next"
                        /\ thread' = [thread EXCEPT ![t] = "none"]
                        /\ UNCHANGED up
  /\ UNCHANGED <<cancelled, sched, outcome, resp, intr, pending, event, stamp, aged,
                 asks, crashes, ghosts>>

(***************************************************************************)
(* The worker of a turn: spawn_async_turn_worker.                          *)
(***************************************************************************)

\* run_http_tool_turn needs an approval (or an answer): the job waits, the
\* request is saved with the session, the worker returns "waiting_approval".
Ask(t) ==
  /\ thread[t] = "run" /\ t \in MayAsk /\ asks[t] < MaxAsks
  /\ asks' = [asks EXCEPT ![t] = @ + 1]
  /\ MarkState(t, "waiting")
  /\ pending' = [pending EXCEPT ![SessionOf[t]] = t]
  /\ thread' = [thread EXCEPT ![t] = "stop"]
  /\ outcome' = [outcome EXCEPT ![t] = "waiting"]
  /\ UNCHANGED <<up, cancelled, sched, resp, intr, event, stamp, aged, crashes, ghosts>>

\* Ways the provider loop ends; it sees the cancel flag or finishes first.
Results(t) == {"completed", "failed"} \cup (IF cancelled[t] THEN {"interrupted"} ELSE {})

\* The provider loop is over and its terminal event is in the event ledger.
Finish(t) ==
  /\ thread[t] = "run"
  /\ \E o \in Results(t) :
       /\ outcome' = [outcome EXCEPT ![t] = o]
       /\ event' = [event EXCEPT ![t] = o]
  /\ thread' = [thread EXCEPT ![t] = "stop"]
  /\ UNCHANGED <<up, job, cancelled, queue, sched, resp, intr, index, record, payload,
                 leased, pending, stamp, aged, asks, crashes, ghosts>>

\* Mutant: the worker ends without starting the next turn.
MarkAndEnd(t) ==
  /\ thread[t] = "stop"
  /\ thread' = [thread EXCEPT ![t] = "none"]
  /\ outcome' = [outcome EXCEPT ![t] = "none"]
  /\ MarkStatus(t, outcome[t])
  /\ UNCHANGED <<up, cancelled, sched, resp, intr, pending, event, stamp, aged, asks,
                 crashes, ghosts>>

\* mark_turn_job_status with the result; the worker goes on to start_next.
Mark(t) ==
  /\ thread[t] = "stop"
  /\ thread' = [thread EXCEPT ![t] = "next"]
  /\ outcome' = [outcome EXCEPT ![t] = "none"]
  /\ MarkStatus(t, outcome[t])
  /\ UNCHANGED <<up, cancelled, sched, resp, intr, pending, event, stamp, aged, asks,
                 crashes, ghosts>>

(***************************************************************************)
(* respond_approval_payload and respond_question_payload: the request      *)
(* thread itself runs the tool and the rest of the turn.                   *)
(***************************************************************************)

\* Nothing keeps two requests from finding, and answering, the same pending one.
Contested(r, t) ==
  IF \E o \in Responder \ {r} : resp[o].turn = t /\ resp[o].pc \in {"tool", "loop"}
  THEN contested \cup {t} ELSE contested

\* The pending request is found in the saved session state; "allow" marks
\* the job running.
Respond(r, t) ==
  /\ up = "serving" /\ resp[r] = Idle
  /\ pending[SessionOf[t]] = t
  /\ resp' = [resp EXCEPT ![r] = [pc |-> "tool", turn |-> t, outcome |-> "none"]]
  /\ contested' = Contested(r, t)
  /\ MarkState(t, "running")
  /\ UNCHANGED <<up, cancelled, sched, thread, outcome, intr, pending, event, stamp,
                 aged, asks, crashes, starts>>

\* "deny": the turn fails; the state without the request is saved.
Deny(r, t) ==
  /\ up = "serving" /\ resp[r] = Idle
  /\ pending[SessionOf[t]] = t
  /\ resp' = [resp EXCEPT ![r] = [pc |-> "stop", turn |-> t, outcome |-> "failed"]]
  /\ pending' = [pending EXCEPT ![SessionOf[t]] = NoTurn]
  /\ event' = [event EXCEPT ![t] = "failed"]
  /\ contested' = Contested(r, t)
  /\ UNCHANGED <<up, job, cancelled, queue, sched, thread, outcome, intr, index, record,
                 payload, leased, stamp, aged, asks, crashes, starts>>

\* append_completed_tool_result: only now is the request gone from the disk.
ToolDone(r) ==
  /\ resp[r].pc = "tool"
  /\ resp' = [resp EXCEPT ![r].pc = "loop"]
  /\ pending' = [pending EXCEPT ![SessionOf[resp[r].turn]] = NoTurn]
  /\ UNCHANGED <<up, job, cancelled, queue, sched, thread, outcome, intr, index, record,
                 payload, leased, event, stamp, aged, asks, crashes, ghosts>>

\* The resumed loop asks again ...
AskAgain(r) ==
  LET t == resp[r].turn IN
  /\ resp[r].pc = "loop" /\ asks[t] < MaxAsks
  /\ asks' = [asks EXCEPT ![t] = @ + 1]
  /\ MarkState(t, "waiting")
  /\ pending' = [pending EXCEPT ![SessionOf[t]] = t]
  /\ resp' = [resp EXCEPT ![r] = [@ EXCEPT !.pc = "stop", !.outcome = "waiting"]]
  /\ UNCHANGED <<up, cancelled, sched, thread, outcome, intr, event, stamp, aged,
                 crashes, ghosts>>

\* ... or ends.
FinishLoop(r) ==
  LET t == resp[r].turn IN
  /\ resp[r].pc = "loop"
  /\ \E o \in Results(t) :
       /\ resp' = [resp EXCEPT ![r] = [@ EXCEPT !.pc = "stop", !.outcome = o]]
       /\ event' = [event EXCEPT ![t] = o]
  /\ UNCHANGED <<up, job, cancelled, queue, sched, thread, outcome, intr, index, record,
                 payload, leased, pending, stamp, aged, asks, crashes, ghosts>>

\* The result is marked and the response sent; nothing is started.
MarkResponse(r) ==
  /\ resp[r].pc = "stop"
  /\ resp' = [resp EXCEPT ![r] = Idle]
  /\ MarkStatus(resp[r].turn, resp[r].outcome)
  /\ UNCHANGED <<up, cancelled, sched, thread, outcome, intr, pending, event, stamp,
                 aged, asks, crashes, ghosts>>

(***************************************************************************)
(* Interrupts: interrupt_turn_payload.                                     *)
(***************************************************************************)

Known(t) == IF job[t] = NoJob THEN index[t] ELSE job[t]

\* request_turn_job_cancel: a queued turn is taken out of its queue, any
\* other waits for its worker to see the flag.
RequestCancel(t) ==
  LET new == IF Known(t) = "queued" THEN "interrupted" ELSE "waiting" IN
  /\ up = "serving" /\ t \in MayInterrupt /\ intr[t] = "none"
  /\ Known(t) # NoJob
  /\ intr' = [intr EXCEPT ![t] = "requested"]
  /\ cancelled' = [cancelled EXCEPT ![t] = job[t] # NoJob]
  /\ MarkStatus(t, new)
  /\ UNCHANGED <<up, sched, thread, outcome, resp, pending, event, stamp, aged, asks,
                 crashes, ghosts>>

\* record_turn_interrupted: at once, whether or not a worker still runs.
RecordInterrupt(t) ==
  /\ intr[t] = "requested"
  /\ intr' = [intr EXCEPT ![t] = "recorded"]
  /\ event' = [event EXCEPT ![t] = "interrupted"]
  /\ MarkStatus(t, "interrupted")
  /\ UNCHANGED <<up, cancelled, sched, thread, outcome, resp, pending, stamp, aged,
                 asks, crashes, ghosts>>

(***************************************************************************)
(* Polls: the turn list and the turn status change what they report.       *)
(***************************************************************************)

\* expire_queued_turns, the first thing either poll does.
Expire ==
  /\ up = "serving" /\ sched = LockFree /\ Expired # {}
  /\ job' = JobsUnexpired /\ queue' = Unexpired
  /\ Save([u \in Expired |-> "cancelled"])
  /\ payload' = payload \ Expired /\ leased' = leased \ Expired
  /\ UNCHANGED <<up, cancelled, sched, thread, outcome, resp, intr, pending, event,
                 stamp, aged, asks, crashes, ghosts>>

\* reconcile_turn_job_status_from_events: a job that is not terminal although
\* its turn has a terminal event takes the status of the event.
ReconcileFromEvents(t) ==
  /\ up = "serving"
  /\ Known(t) # NoJob /\ ~IsTerminal(Known(t)) /\ event[t] # "none"
  /\ MarkStatus(t, event[t])
  /\ UNCHANGED <<up, cancelled, sched, thread, outcome, resp, intr, pending, event,
                 stamp, aged, asks, crashes, ghosts>>

\* A turn of the index that this process does not run and nobody can resume.
Orphan(t) ==
  /\ job[t] = NoJob /\ index[t] # NoJob /\ ~IsTerminal(index[t])
  /\ ~(index[t] = "queued" /\ t \in payload)
  /\ ~(index[t] = "waiting" /\ pending[SessionOf[t]] = t)

\* list_turn_jobs_payload, once the lease of the dead process has run out.
ListReconciles(t) ==
  /\ up = "serving" /\ Orphan(t)
  /\ Save([u \in {t} |-> "interrupted"])
  /\ UNCHANGED <<memory, payload, leased, pending, event, stamp, aged, asks, crashes,
                 ghosts>>

\* persisted_turn_job_payload does the same to the index alone.
StatusReconciles(t) ==
  /\ up = "serving" /\ Orphan(t)
  /\ index' = [index EXCEPT ![t] = "interrupted"]
  /\ UNCHANGED <<memory, record, payload, leased, pending, event, stamp, aged, asks,
                 crashes, ghosts>>

\* turn_queue_timeout_ms passes for the turn that has waited longest.
Age ==
  /\ aged < MaxAged /\ \E t \in Turn : stamp[t] > aged
  /\ aged' = aged + 1
  /\ UNCHANGED <<memory, files, asks, crashes, ghosts>>

(***************************************************************************)
(* Crash and restart: recover_persisted_queued_turns.                      *)
(***************************************************************************)

Crash ==
  /\ up # "down" /\ crashes < MaxCrashes
  /\ crashes' = crashes + 1
  /\ up' = "down"
  /\ job' = [t \in Turn |-> NoJob]
  /\ cancelled' = [t \in Turn |-> FALSE]
  /\ queue' = [s \in Session |-> <<>>]
  /\ sched' = LockFree
  /\ thread' = [t \in Turn |-> "none"]
  /\ outcome' = [t \in Turn |-> "none"]
  /\ resp' = [r \in Responder |-> Idle]
  /\ intr' = [t \in Turn |-> IF intr[t] = "requested" THEN "recorded" ELSE intr[t]]
  /\ UNCHANGED <<files, aged, asks, ghosts>>

\* Payloads of turns the index does not show queued are thrown away.
Unwanted == {t \in payload : index[t] # "queued"}

Late == {t \in payload \ Unwanted : TimedOut(t)}

\* What the restarted process queues: only payloads whose lease has expired
\* (or is gone) by the time it starts.
Recoverable(stale) == (payload \ (Unwanted \cup Late)) \cap (stale \cup (Turn \ leased))

\* Turns that a recovered turn's session was running; a durable wait stays.
Abandoned(recovered) ==
  {t \in Turn : /\ index[t] # "queued" /\ IsActive(index[t])
                /\ ~(index[t] = "waiting" /\ pending[SessionOf[t]] = t)
                /\ \E u \in recovered : SessionOf[u] = SessionOf[t]}

\* Mutant: newest first.
ByStampDown(S) == InOrder(S, [t \in S |-> Cardinality(Turn) - stamp[t]])

ByStamp(S) == InOrder(S, stamp)

\* The queues rebuilt from the payload files, oldest first.
Requeued(recovered) ==
  [s \in Session |-> ByStamp({t \in recovered : SessionOf[t] = s})]

\* claim_queued_turn_lease for what is recovered; what is dropped is released.
Claimed(recovered) == (leased \ (Unwanted \cup Late)) \cup recovered

Restart ==
  /\ up = "down"
  /\ \E stale \in SUBSET leased :
       LET recovered == Recoverable(stale)
           lost == Abandoned(recovered)
           new == [t \in Turn |-> CASE t \in Late -> "cancelled"
                                    [] t \in lost -> "interrupted"
                                    [] OTHER      -> index[t]]
       IN /\ job' = [t \in Turn |-> IF t \in recovered THEN "queued" ELSE NoJob]
          /\ queue' = Requeued(recovered)
          /\ IF new = index THEN UNCHANGED <<index, record>>
             ELSE Save([t \in {u \in Turn : new[u] # NoJob} |-> new[t]])
          /\ up' = IF recovered = {} THEN "serving" ELSE "starting"
          /\ leased' = Claimed(recovered)
  /\ payload' = payload \ (Unwanted \cup Late)
  /\ UNCHANGED <<cancelled, sched, thread, outcome, resp, intr, pending, event, stamp,
                 aged, asks, crashes, ghosts>>
-----------------------------------------------------------------------------
Scheduler ==
  \/ ClaimLease \/ PersistPayload \/ AdmitFails \/ Enter \/ Push
  \/ PopSelect \/ PopPersist \/ PopDone \/ PopNothing

Worker(t) == SpawnWorker(t) \/ SpawnFails(t) \/ Ask(t) \/ Finish(t) \/ Mark(t)

Response(r) ==
  \/ \E t \in Turn : Respond(r, t) \/ Deny(r, t)
  \/ ToolDone(r) \/ AskAgain(r) \/ FinishLoop(r) \/ MarkResponse(r)

Client(t) ==
  \/ Admit(t) \/ RequestCancel(t) \/ RecordInterrupt(t)
  \/ ReconcileFromEvents(t) \/ ListReconciles(t) \/ StatusReconciles(t)

Next ==
  \/ Scheduler \/ Expire \/ Age \/ Crash \/ Restart
  \/ \E t \in Turn : Worker(t) \/ Client(t)
  \/ \E r \in Responder : Response(r)

Spec == Init /\ [][Next]_vars

\* Threads run: the lock holder, every worker and every response go on, and a
\* provider loop ends (its requests have deadlines).  Clients, polls, the
\* clock and crashes promise nothing.
Running ==
  /\ WF_vars(Scheduler)
  /\ \A t \in Turn : WF_vars(SpawnWorker(t)) /\ WF_vars(Finish(t)) /\ WF_vars(Mark(t))
  /\ \A r \in Responder :
       WF_vars(ToolDone(r) \/ FinishLoop(r)) /\ WF_vars(MarkResponse(r))

FairSpec == Spec /\ Running
-----------------------------------------------------------------------------
TypeOK ==
  /\ up \in {"serving", "starting", "down"}
  /\ job \in [Turn -> JobStatus] /\ index \in [Turn -> JobStatus]
  /\ record \in [Turn -> JobStatus]
  /\ cancelled \in [Turn -> BOOLEAN]
  /\ queue \in [Session -> Seq(Turn)]
  /\ sched \in [pc : {"free", "created", "leased", "admitted", "entered", "popped", "persisted"},
                turn : Turn \cup {NoTurn}, queued : BOOLEAN]
  /\ thread \in [Turn -> {"none", "due", "run", "stop", "next"}]
  /\ outcome \in [Turn -> Outcome]
  /\ resp \in [Responder -> [pc : {"idle", "tool", "loop", "stop"},
                             turn : Turn \cup {NoTurn}, outcome : Outcome]]
  /\ intr \in [Turn -> {"none", "requested", "recorded"}]
  /\ payload \subseteq Turn /\ leased \subseteq Turn
  /\ pending \in [Session -> Turn \cup {NoTurn}]
  /\ event \in [Turn -> Outcome] /\ stamp \in [Turn -> Nat]
  /\ aged \in Nat /\ crashes \in Nat
  /\ asks \in [Turn -> Nat] /\ starts \in [Turn -> Nat] /\ contested \subseteq Turn

\* A queued job is in the queue of its session exactly once and in no other,
\* whatever interrupts, expiry and restarts did between the steps of the
\* locked operations: no accepted turn is lost or queued twice.
QueuedOnce ==
  \A t \in Turn :
    job[t] = "queued" =>
      \/ sched.pc = "entered" /\ sched.turn = t /\ ~InQueue(t)
      \/ Cardinality({i \in DOMAIN queue[SessionOf[t]] : queue[SessionOf[t]][i] = t}) = 1

\* A queued job can be rebuilt after a crash: its payload and lease are on the
\* disk, and once it is in its queue the index shows it queued.
QueueIsDurable ==
  \A t \in Turn :
    job[t] = "queued" => /\ t \in payload /\ t \in leased
                         /\ InQueue(t) => index[t] = "queued"

\* No turn is given two workers, by two pops, by a pop racing an interrupt, or
\* by the recovery of a payload whose turn had already been started.
StartedOnce == \A t \in Turn : starts[t] <= 1

\* The turns somebody is driving: their worker, or a response that runs the
\* rest of the turn.
Driven ==
  {t \in Turn : thread[t] = "run"} \cup
  {resp[r].turn : r \in {x \in Responder : resp[x].pc \in {"tool", "loop"}}}

\* The turns driven that nobody has called off.  The thread of an interrupted
\* turn runs on to where it looks at the flag, and an approval of it can still
\* be answered, while the session's next turn has started; a turn that was
\* waiting when the process died is not registered again by a restart; and of
\* two answers to one request the first to end finishes the turn under the
\* other, which runs on.
StillDriven ==
  {t \in Driven : intr[t] = "none" /\ job[t] # NoJob /\ t \notin contested}

\* However turns are queued, asked about, interrupted and rebuilt after a crash,
\* each one that was accepted is kept until it starts, and starts once.
QueuedTurnsSurvive == QueuedOnce /\ QueueIsDurable /\ StartedOnce

\* Never more turns driven than max_running_turn_workers.
WorkersBounded == Cardinality(StillDriven) <= Quota

\* Never two turns of one session driven at once: they would both rewrite the
\* session's state.
OneTurnPerSession ==
  \A t, u \in StillDriven : SessionOf[t] = SessionOf[u] => t = u

\* What the registry is for: worker slots and sessions are not overrun.
TurnsKeepApart == WorkersBounded /\ OneTurnPerSession

\* If a queued turn could start, somebody is about to look: the lock is held,
\* or a worker has yet to mark its result or to call start_next_queued_turns.
NoLostWakeup ==
  Schedulable(JobsUnexpired, Unexpired) # {} =>
    \/ sched # LockFree \/ up = "starting"
    \/ \E t \in Turn : thread[t] \in {"stop", "next"}

\* Between two locked operations memory, job index and ledger tell one story
\* of every turn this process knows.
RegistryAgrees ==
  sched = LockFree =>
    \A t \in Turn : job[t] # NoJob => index[t] = job[t] /\ record[t] = job[t]

\* The registry never misleads: what it shows is so, and what it shows to be
\* startable is about to be started.
RegistryServes == NoLostWakeup /\ RegistryAgrees

\* Turns of one session are taken from its queue in the order they were queued,
\* also after a restart has rebuilt the queue.
QueueOrder ==
  [][\A t \in Turn :
       job[t] = "queued" /\ job'[t] = "running" =>
         \A u \in Turn : SessionOf[u] = SessionOf[t] /\ InQueue(u)' => stamp[t] < stamp[u]
    ]_vars

\* A job that is completed, failed, cancelled or interrupted stays so while the
\* process lives.
TerminalIsFinal ==
  [][\A t \in Turn : IsTerminal(job[t]) /\ up' # "down" => job'[t] = job[t]]_vars

\* Every queued turn leaves the queue, with no client polling.
QueuedLeaves == \A t \in Turn : (job[t] = "queued") ~> (job[t] # "queued")

\* A queued turn starts once no turn is running or waiting any more.
QueuedStartsWhenIdle ==
  \A t \in Turn : (job[t] = "queued" /\ RunningCount(job) = 0) ~> (job[t] # "queued")
=============================================================================
