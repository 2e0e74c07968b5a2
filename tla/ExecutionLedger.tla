-------------------------- MODULE ExecutionLedger --------------------------
(***************************************************************************)
(* The lifecycle ledger of ONE session (lifecycle.jsonl) and the calls of  *)
(* DurableExecutionStore that write it, made by several threads of several *)
(* runtime processes.  `create` reads and appends under one hold of the    *)
(* ledger lock; every other call reads the projection under the lock,      *)
(* releases it, and takes it again to append the record it computed.  A    *)
(* turn also has a job in the memory of the process that registered it;    *)
(* mark_turn_job_state changes the job and appends a snapshot of it.       *)
(* Effect receipts have a module of their own, EffectReceipts.             *)
(***************************************************************************)
EXTENDS ExecutionModel, Integers, Sequences, FiniteSetsExt

CONSTANTS
  Process,      \* runtime processes sharing the session root
  Thread,       \* the threads that call the store
  ProcessOf,    \* the process of each thread
  Exec,         \* execution ids
  Key,          \* (kind, idempotency key) pairs
  Drives,       \* the executions each thread updates
  Makes,        \* the calls each thread makes: a heartbeat thread only beats
  UsedStatuses, \* bound: the statuses callers pass
  UsedPhases,   \* bound: the phases callers pass
  NoThread, NoLease, NoJob,
  LeaseTtl,     \* lease time to live, in clock ticks
  MaxEvents,    \* bound: length of the ledger
  MaxNow,       \* bound: the clock
  AttemptCap    \* bound: attempts that `retry` (which has no limit) may reach

CallName == {"create", "transition", "state_change", "mark_state", "retry",
             "heartbeat", "recover"}

ASSUME LedgerAssumption ==
  /\ ProcessOf \in [Thread -> Process]
  /\ Drives \in [Thread -> SUBSET Exec]
  /\ Makes \in [Thread -> SUBSET CallName]
  /\ UsedStatuses \subseteq Status /\ UsedPhases \subseteq Phase
  /\ NoThread \notin Thread
  /\ LeaseTtl \in Nat \ {0}
  /\ MaxEvents \in Nat /\ MaxNow \in Nat /\ AttemptCap \in Nat

VARIABLES
  ledger,    \* the events of the file, in file order
  torn,      \* a process died inside append_json_line and left half a line
  lock,      \* holder of the ledger lock (process mutex and lifecycle.lock)
  pc,        \* "idle", "append" (has records to append) or "write" (locked)
  jobs,      \* turn_jobs: each process' own records of the turns it registered
  call,      \* what each thread's call still has to write
  answered,  \* ghost: the executions `create` has answered for each key
  now

vars == <<ledger, torn, lock, pc, jobs, call, answered, now>>

Lease == [owner : Process, expires : Nat]

\* The fields of DurableExecutionRecord that the calls read or write.
Record == [key : Key, status : Status, phase : Phase, attempt : Nat \ {0},
           lease : Lease \cup {NoLease}]

EventType == {"created", "transitioned", "retried", "heartbeat", "recovered",
              "state_changed", "snapshot"}

Event == [seq : Nat, type : EventType, id : Exec, rec : Record, at : Nat]

NoCall == [type |-> "none", todo |-> <<>>, cur |-> "none", seq |-> 0]
-----------------------------------------------------------------------------
\* project_session: the last record of each execution wins.
Known == {ledger[i].id : i \in DOMAIN ledger}

LastOf(e) ==
  CHOOSE i \in DOMAIN ledger :
    /\ ledger[i].id = e
    /\ \A j \in DOMAIN ledger : ledger[j].id = e => j <= i

Get(e) == ledger[LastOf(e)].rec

\* next_event_seq: one more than the largest sequence number in the file.
NextSeq == IF ledger = <<>> THEN 1 ELSE 1 + Max({ledger[i].seq : i \in DOMAIN ledger})

NewLease(t) == [owner |-> ProcessOf[t], expires |-> now + LeaseTtl]

LeaseLive(r) == r.lease # NoLease /\ r.lease.expires > now
-----------------------------------------------------------------------------
Init ==
  /\ ledger = <<>>
  /\ torn = FALSE
  /\ lock = NoThread
  /\ pc = [t \in Thread |-> "idle"]
  /\ jobs = [m \in Process |-> [e \in Exec |-> NoJob]]
  /\ call = [t \in Thread |-> NoCall]
  /\ answered = [k \in Key |-> {}]
  /\ now = 0

\* Bound on the ledger: the calls in flight find room to append.
Pending(t) == IF pc[t] = "idle" THEN 0 ELSE Cardinality(DOMAIN call[t].todo)

HasRoom ==
  /\ Len(ledger) < MaxEvents
  /\ \A t \in Thread : Len(ledger) + Pending(t) < MaxEvents

\* Mutant: the projection is read without the ledger lock.
CanReadUnlocked(t) == pc[t] = "idle" /\ ~torn

\* A thread may read the file: the lock is free and every line parses.
CanRead(t) == pc[t] = "idle" /\ lock = NoThread /\ ~torn

\* Mutant: lock_session_ledger returns while another thread holds the lock.
AcquiresAnyway(t) == lock' = t

\* lock_session_ledger: the process mutex, then the file lock.
Acquires(t) == lock = NoThread /\ lock' = t

\* Mutant: attempts counted from zero.
NewRecordFromZero(k, s, ph, l) ==
  [key |-> k, status |-> s, phase |-> ph, attempt |-> 0, lease |-> l]

NewRecord(k, s, ph, l) ==
  [key |-> k, status |-> s, phase |-> ph, attempt |-> 1, lease |-> l]

\* create, key already taken: the record it belongs to is the answer.
CreateDeduplicated(t, k) ==
  /\ CanRead(t)
  /\ \E e \in Known : /\ Get(e).key = k
                      /\ answered' = [answered EXCEPT ![k] = @ \cup {e}]
  /\ UNCHANGED <<ledger, torn, lock, pc, jobs, call, now>>

\* Mutants: create looks for the key only, or for the id only.
CreatableByKey(e, k) == \A x \in Known : Get(x).key # k
CreatableById(e, k) == e \notin Known

Creatable(e, k) == e \notin Known /\ \A x \in Known : Get(x).key # k

\* create, key free: the lock stays held from the projection to the append.
\* Only register_turn_job passes a lease, and it creates queued or running.
CreateNew(t, e, k, s, ph) ==
  /\ CanRead(t) /\ HasRoom
  /\ Creatable(e, k)
  /\ \E l \in {NoLease} \cup (IF s \in {"queued", "running"} THEN {NewLease(t)} ELSE {}) :
       call' = [call EXCEPT ![t] =
                  [type |-> "created", todo |-> [x \in {e} |-> NewRecord(k, s, ph, l)],
                   cur |-> e, seq |-> NextSeq]]
  /\ lock' = t
  /\ pc' = [pc EXCEPT ![t] = "write"]
  /\ UNCHANGED <<ledger, torn, jobs, answered, now>>

\* Read-modify-write: the record was read, the lock is free again, the
\* append is still to come.
Prepare(t, type, updates) ==
  /\ call' = [call EXCEPT ![t] = [type |-> type, todo |-> updates,
                                  cur |-> "none", seq |-> 0]]
  /\ pc' = [pc EXCEPT ![t] = "append"]
  /\ UNCHANGED <<ledger, torn, lock, answered, now>>

Submit(t, type, updates) == Prepare(t, type, updates) /\ UNCHANGED jobs

One(e, r) == [x \in {e} |-> r]

Reads(t, e) == CanRead(t) /\ HasRoom /\ e \in Known \cap Drives[t]

\* Mutant: a finished execution keeps its lease.
KeptLease(r, s) == r.lease

ClearedLease(r, s) == IF IsTerminal(s) THEN NoLease ELSE r.lease

\* transition: refused unless the table allows it.
Transition(t, e, s, ph) ==
  /\ Reads(t, e)
  /\ CanTransition(Get(e).status, s)
  /\ Submit(t, "transitioned",
            One(e, [Get(e) EXCEPT !.status = s, !.phase = ph,
                                  !.lease = ClearedLease(Get(e), s)]))

\* Mutant: the status is written without asking the table.
StateChangeUnchecked(t, e, s, ph) ==
  /\ Reads(t, e)
  /\ Submit(t, "state_changed",
            One(e, [Get(e) EXCEPT !.status = s, !.phase = ph,
                                  !.lease = ClearedLease(Get(e), s)]))

\* persist_session/task/interaction_execution: an illegal status is dropped,
\* the phase is written all the same.
StateChange(t, e, s, ph) ==
  /\ Reads(t, e)
  /\ Submit(t, "state_changed",
            One(e, [Get(e) EXCEPT
                      !.status = IF CanTransition(@, s) THEN s ELSE @,
                      !.phase = ph,
                      !.lease = ClearedLease(Get(e), s)]))

\* mark_turn_job_state: the job in memory decides what the snapshot says; the
\* ledger is not asked (persist_turn_job_snapshot keeps only its effect).
MarkState(t, e, s, ph) ==
  LET m == ProcessOf[t]
      j == [key     |-> jobs[m][e].key,
            status  |-> IF CanTransition(jobs[m][e].status, s) THEN s
                        ELSE jobs[m][e].status,
            phase   |-> ph,
            attempt |-> jobs[m][e].attempt,
            lease   |-> ClearedLease(jobs[m][e], s)]
  IN  /\ pc[t] = "idle" /\ HasRoom
      /\ e \in Drives[t] /\ jobs[m][e] # NoJob
      /\ jobs' = [jobs EXCEPT ![m][e] = j]
      /\ Prepare(t, "snapshot", One(e, j))

\* retry: back to the queue as a new attempt.
Retry(t, e) ==
  /\ Reads(t, e)
  /\ CanTransition(Get(e).status, "queued")
  /\ Get(e).attempt < AttemptCap
  /\ Submit(t, "retried",
            One(e, [Get(e) EXCEPT !.status = "queued", !.phase = "scheduling",
                                  !.attempt = @ + 1, !.lease = NoLease]))

\* heartbeat: the whole record is written back with a fresh lease.
Heartbeat(t, e) ==
  /\ Reads(t, e)
  /\ ~IsTerminal(Get(e).status)
  /\ Submit(t, "heartbeat", One(e, [Get(e) EXCEPT !.lease = NewLease(t)]))

\* What recover_session does to one record (no effect is claimed here).
Decide(r) == Classify(r.status, r.phase, r.attempt, "none", LeaseLive(r))

Recovered(r) ==
  CASE Decide(r) = "retry" ->
         [r EXCEPT !.status = "queued", !.phase = "scheduling",
                   !.attempt = @ + 1, !.lease = NoLease]
    [] Decide(r) = "interrupt" -> [r EXCEPT !.status = "interrupted", !.lease = NoLease]
    [] OTHER -> r

\* recover_session: one projection, then one append per record not ignored.
Recover(t) ==
  LET stale == {e \in Known \cap Drives[t] : Decide(Get(e)) # "ignore"}
  IN  /\ CanRead(t) /\ HasRoom
      /\ stale # {}
      /\ Len(ledger) + Cardinality(stale) <= MaxEvents
      /\ Submit(t, "recovered", [e \in stale |-> Recovered(Get(e))])

\* append_record takes the lock and reads the next sequence number.
LockForAppend(t) ==
  /\ pc[t] = "append"
  /\ Acquires(t)
  /\ pc' = [pc EXCEPT ![t] = "write"]
  /\ \E e \in DOMAIN call[t].todo :
       call' = [call EXCEPT ![t].cur = e, ![t].seq = NextSeq]
  /\ UNCHANGED <<ledger, torn, jobs, answered, now>>

\* append_json_line and the release of the lock; register_turn_job, the only
\* caller of `create` that passes a lease, then keeps the job in memory.  A line written after a torn
\* one joins it and is as unreadable: the readable events do not change.
Write(t) ==
  LET c    == call[t]
      rest == [e \in DOMAIN c.todo \ {c.cur} |-> c.todo[e]]
  IN  /\ pc[t] = "write"
      /\ ledger' = IF torn THEN ledger
                   ELSE Append(ledger, [seq |-> c.seq, type |-> c.type, id |-> c.cur,
                                        rec |-> c.todo[c.cur], at |-> now])
      /\ answered' = IF c.type = "created"
                     THEN [answered EXCEPT ![c.todo[c.cur].key] = @ \cup {c.cur}]
                     ELSE answered
      /\ jobs' = IF c.type = "created" /\ c.todo[c.cur].lease # NoLease
                 THEN [jobs EXCEPT ![ProcessOf[t]][c.cur] = c.todo[c.cur]]
                 ELSE jobs
      /\ lock' = NoThread
      /\ pc' = [pc EXCEPT ![t] = IF DOMAIN rest = {} THEN "idle" ELSE "append"]
      /\ call' = [call EXCEPT ![t] =
                    IF DOMAIN rest = {} THEN NoCall
                    ELSE [type |-> c.type, todo |-> rest, cur |-> "none", seq |-> 0]]
      /\ UNCHANGED <<torn, now>>

\* A process dies: its calls are gone, the operating system drops its lock,
\* and a line it was writing may be left half written.
Crash(m) ==
  LET dead == {t \in Thread : ProcessOf[t] = m}
  IN  /\ \E t \in dead : pc[t] # "idle"
      /\ torn' \in {torn} \cup (IF lock \in dead THEN {TRUE} ELSE {})
      /\ lock' = IF lock \in dead THEN NoThread ELSE lock
      /\ pc' = [t \in Thread |-> IF t \in dead THEN "idle" ELSE pc[t]]
      /\ jobs' = [jobs EXCEPT ![m] = [e \in Exec |-> NoJob]]
      /\ call' = [t \in Thread |-> IF t \in dead THEN NoCall ELSE call[t]]
      /\ UNCHANGED <<ledger, answered, now>>

Tick == /\ now < MaxNow
        /\ now' = now + 1
        /\ UNCHANGED <<ledger, torn, lock, pc, jobs, call, answered>>

Updates(t) ==
  \/ /\ "create" \in Makes[t]
     /\ \/ \E k \in Key : CreateDeduplicated(t, k)
        \/ \E e \in Exec, k \in Key, s \in UsedStatuses, ph \in UsedPhases :
             CreateNew(t, e, k, s, ph)
  \/ /\ "transition" \in Makes[t]
     /\ \E e \in Exec, s \in UsedStatuses, ph \in UsedPhases : Transition(t, e, s, ph)
  \/ /\ "state_change" \in Makes[t]
     /\ \E e \in Exec, s \in UsedStatuses, ph \in UsedPhases : StateChange(t, e, s, ph)
  \/ /\ "mark_state" \in Makes[t]
     /\ \E e \in Exec, s \in UsedStatuses, ph \in UsedPhases : MarkState(t, e, s, ph)
  \/ "retry" \in Makes[t] /\ \E e \in Exec : Retry(t, e)
  \/ "heartbeat" \in Makes[t] /\ \E e \in Exec : Heartbeat(t, e)
  \/ "recover" \in Makes[t] /\ Recover(t)

Step(t) == Updates(t) \/ LockForAppend(t) \/ Write(t)

Next == (\E t \in Thread : Step(t)) \/ (\E m \in Process : Crash(m)) \/ Tick

Spec == Init /\ [][Next]_vars
-----------------------------------------------------------------------------
(* Properties.                                                             *)

\* Every variable holds a value of its type.
CallOK(c) ==
  /\ c = [type |-> c.type, todo |-> c.todo, cur |-> c.cur, seq |-> c.seq]
  /\ c.type \in EventType \cup {"none"}
  /\ c.todo = [e \in DOMAIN c.todo |-> c.todo[e]]
  /\ DOMAIN c.todo \subseteq Exec
  /\ \A e \in DOMAIN c.todo : c.todo[e] \in Record
  /\ c.cur \in Exec \cup {"none"}
  /\ c.seq \in Nat

TypeOK ==
  /\ ledger \in Seq(Event)
  /\ torn \in BOOLEAN
  /\ lock \in Thread \cup {NoThread}
  /\ pc \in [Thread -> {"idle", "append", "write"}]
  /\ jobs \in [Process -> [Exec -> Record \cup {NoJob}]]
  /\ DOMAIN call = Thread
  /\ \A t \in Thread : call[t] = NoCall \/ CallOK(call[t])
  /\ answered \in [Key -> SUBSET Exec]
  /\ now \in Nat

\* Sequence numbers are the positions of the lines: no two writers, of one
\* process or of two, ever number an event the same or leave a gap, whatever
\* they do between next_event_seq and append_json_line, and whoever dies.
SeqsAreContiguous == \A i \in DOMAIN ledger : ledger[i].seq = i

\* One (kind, idempotency key) belongs to one execution for ever: two requests
\* racing through `create` with the same key never both append.
OneExecutionPerKey ==
  \A i, j \in DOMAIN ledger :
    ledger[i].rec.key = ledger[j].rec.key => ledger[i].id = ledger[j].id

\* An execution is created once, and its history starts there: no update can
\* slip an execution into the ledger, no second create restarts one.
CreatedOnceAndFirst ==
  \A j \in DOMAIN ledger :
    ledger[j].type = "created" <=> \A i \in 1..(j - 1) : ledger[i].id # ledger[j].id

\* The ledger is one story: lines in order, histories from their beginning.
LedgerIsOneStory == SeqsAreContiguous /\ CreatedOnceAndFirst

\* Whatever callers ask for a key, whenever, and whether they created it or
\* met it, the answer names one execution (session-engine.md: "Repeating the
\* same key in a session returns the original turn").
AnswersAgree == \A k \in Key : Cardinality(answered[k]) <= 1

\* i and j are consecutive events of one execution.
Consecutive(i, j) ==
  /\ i < j /\ ledger[i].id = ledger[j].id
  /\ \A m \in (i + 1)..(j - 1) : ledger[m].id # ledger[j].id

\* With one thread driving each execution the history of an execution follows
\* the transition table; only recovery may put a running one back in the queue.
HistoryFollowsTable ==
  \A j \in DOMAIN ledger : \A i \in 1..(j - 1) : Consecutive(i, j) =>
    \/ CanTransition(ledger[i].rec.status, ledger[j].rec.status)
    \/ /\ ledger[j].type = "recovered"
       /\ ledger[i].rec.status = "running" /\ ledger[j].rec.status = "queued"

\* Attempts are never lost, and a new one only comes from an execution that
\* went back to the queue: recovery alone never exceeds the attempt limit.
AttemptsAreCounted ==
  \A j \in DOMAIN ledger : \A i \in 1..(j - 1) : Consecutive(i, j) =>
    LET a == ledger[i].rec.attempt
        b == ledger[j].rec.attempt
    IN  \/ b = a
        \/ b = a + 1 /\ ledger[j].rec.status = "queued"
                     /\ (ledger[j].type = "recovered" => a < MaxAttempts)

\* Recovery takes an execution only after its lease expired, although the lease
\* is judged when the ledger is read and the record written later.
RecoveredOnlyAfterExpiry ==
  \A j \in DOMAIN ledger : \A i \in 1..(j - 1) :
    Consecutive(i, j) /\ ledger[j].type = "recovered" =>
      \/ ledger[i].rec.lease = NoLease
      \/ ledger[i].rec.lease.expires <= ledger[j].at

\* A finished execution holds no lease that recovery would have to respect.
FinishedHoldsNoLease ==
  \A j \in DOMAIN ledger :
    IsTerminal(ledger[j].rec.status) => ledger[j].rec.lease = NoLease

\* With one thread driving each execution its history is in order throughout:
\* statuses, attempts and leases follow from what came before.
HistoryIsOrderly ==
  HistoryFollowsTable /\ AttemptsAreCounted /\ RecoveredOnlyAfterExpiry /\ FinishedHoldsNoLease

\* Whatever callers race with a key, it has one execution, and they are told so.
KeyMeansOneExecution == OneExecutionPerKey /\ AnswersAgree

\* "`completed` is immutable." (src/doc/session-engine.md:44): the projection
\* of a completed execution shows completed for ever.
CompletedIsImmutable ==
  [][\A e \in Known : Get(e).status = "completed" => Get(e)'.status = "completed"]_vars
=============================================================================
