----------------------- MODULE ExecutionLedgerProofs -----------------------
(***************************************************************************)
(* For every number of processes, threads, executions and keys: the ledger *)
(* is well typed, its lines are numbered by position, and a key belongs to *)
(* one execution, created once.  Where one thread drives each execution,   *)
(* histories are in order and a completed execution stays completed.       *)
(***************************************************************************)
EXTENDS ExecutionLedger, FiniteSetTheorems, WellFoundedInduction, TLAPS

USE MaxAttemptsAssumption, LedgerAssumption
-----------------------------------------------------------------------------
(* Facts about the projection.                                             *)

\* A non-empty set of positions has a largest one.
LEMMA LargestPosition ==
  ASSUME NEW n \in Nat, NEW S \in SUBSET (1..n), S # {}
  PROVE  \E i \in S : \A j \in S : j <= i
<1> DEFINE T == {n - i : i \in S}
<1>0. \A i \in S : i \in Nat /\ n - i \in Nat
  OBVIOUS
<1>1. T \subseteq Nat /\ T # {}
  <2>1. PICK k \in S : TRUE
    OBVIOUS
  <2>2. n - k \in T
    BY <2>1
  <2> QED
    BY <1>0, <2>2
<1>2. PICK x \in T : \A y \in T : ~ (<<y, x>> \in OpToRel(<, Nat))
  BY <1>1, NatLessThanWellFounded, WFMin
<1>3. \A y \in T : ~ (y < x)
  BY <1>1, <1>2 DEF OpToRel
<1>4. PICK i \in S : x = n - i
  OBVIOUS
<1>5. ASSUME NEW j \in S PROVE j <= i
  <2>1. ~ (n - j < n - i)
    BY <1>3, <1>4
  <2> QED
    BY <2>1, <1>0
<1> QED
  BY <1>5

\* LastOf is the last event of the execution.
LEMMA LastOfFact ==
  ASSUME ledger \in Seq(Event), NEW e \in Known
  PROVE  /\ LastOf(e) \in DOMAIN ledger
         /\ ledger[LastOf(e)].id = e
         /\ \A j \in DOMAIN ledger : ledger[j].id = e => j <= LastOf(e)
<1> DEFINE S == {i \in DOMAIN ledger : ledger[i].id = e}
<1>1. S \in SUBSET (1..Len(ledger)) /\ S # {} /\ Len(ledger) \in Nat
  BY DEF Known
<1>2. PICK i \in S : \A j \in S : j <= i
  BY <1>1, LargestPosition
<1>3. \E m \in DOMAIN ledger :
         /\ ledger[m].id = e
         /\ \A j \in DOMAIN ledger : ledger[j].id = e => j <= m
  BY <1>2
<1> QED
  BY <1>3 DEF LastOf

\* What the projection shows was written by some event.
LEMMA GetFact ==
  ASSUME ledger \in Seq(Event), NEW e \in Known
  PROVE  /\ Get(e) \in Record
         /\ e \in Exec
         /\ \E i \in DOMAIN ledger : ledger[i].id = e /\ ledger[i].rec.key = Get(e).key
<1>1. LastOf(e) \in DOMAIN ledger /\ ledger[LastOf(e)].id = e
  BY LastOfFact
<1>2. ledger[LastOf(e)] \in Event
  BY <1>1
<1> QED
  BY <1>1, <1>2 DEF Get, Event

\* The largest of 1..n is n.
LEMMA LastOfInterval ==
  ASSUME NEW n \in Nat \ {0}
  PROVE  Max(1..n) = n
<1>1. n \in 1..n /\ \A y \in 1..n : n >= y
  OBVIOUS
<1>2. \A x \in 1..n : (\A y \in 1..n : x >= y) => x = n
  <2> TAKE x \in 1..n
  <2> HAVE \A y \in 1..n : x >= y
  <2> QED
    BY <1>1
<1> QED
  BY <1>1, <1>2 DEF Max

\* On a ledger numbered by position the next number is the next position.
LEMMA NextSeqFact ==
  ASSUME ledger \in Seq(Event), SeqsAreContiguous
  PROVE  NextSeq = Len(ledger) + 1
<1>1. CASE ledger = <<>>
  BY <1>1 DEF NextSeq
<1>2. CASE ledger # <<>>
  <2>1. Len(ledger) \in Nat \ {0} /\ DOMAIN ledger = 1..Len(ledger)
    BY <1>2
  <2>2. {ledger[i].seq : i \in DOMAIN ledger} = 1..Len(ledger)
    BY <2>1 DEF SeqsAreContiguous
  <2>3. Max(1..Len(ledger)) = Len(ledger)
    BY <2>1, LastOfInterval
  <2>4. NextSeq = 1 + Len(ledger)
    BY <1>2, <2>2, <2>3 DEF NextSeq
  <2> QED
    BY <2>1, <2>4
<1> QED
  BY <1>1, <1>2
-----------------------------------------------------------------------------
(* The inductive invariant.                                                *)

\* A thread about to write holds the lock.
WriterHoldsLock == \A t \in Thread : pc[t] = "write" => lock = t

\* It writes the next line, for one of the updates of its call.
WriterIsNext ==
  \A t \in Thread : pc[t] = "write" =>
    /\ call[t].seq = Len(ledger) + 1
    /\ call[t].cur \in DOMAIN call[t].todo

BusyHasCall ==
  \A t \in Thread : pc[t] # "idle" => CallOK(call[t]) /\ call[t].type \in EventType

\* Only a create holds the lock from its read to its append, and nothing has
\* changed since it looked.
CreateStillFree ==
  \A t \in Thread : pc[t] # "idle" /\ call[t].type = "created" =>
    /\ pc[t] = "write"
    /\ ~torn
    /\ DOMAIN call[t].todo = {call[t].cur}
    /\ \A i \in DOMAIN ledger : ledger[i].id # call[t].cur
    /\ \A i \in DOMAIN ledger :
         ledger[i].rec.key # call[t].todo[call[t].cur].key

\* Every other call carries records of executions that exist, with their key.
UpdatesKnown ==
  \A t \in Thread : pc[t] # "idle" /\ call[t].type # "created" =>
    \A e \in DOMAIN call[t].todo :
      \E i \in DOMAIN ledger :
        ledger[i].id = e /\ ledger[i].rec.key = call[t].todo[e].key

\* The key of an execution never changes.
KeyIsStable ==
  \A i, j \in DOMAIN ledger :
    ledger[i].id = ledger[j].id => ledger[i].rec.key = ledger[j].rec.key

\* An answered execution is in the ledger.
AnswersRecorded ==
  \A k \in Key : \A e \in answered[k] :
    \E i \in DOMAIN ledger : ledger[i].id = e /\ ledger[i].rec.key = k

\* A job in memory belongs to an execution of the ledger, under its key.
JobsRecorded ==
  \A m \in Process : \A e \in Exec : jobs[m][e] # NoJob =>
    \E i \in DOMAIN ledger : ledger[i].id = e /\ ledger[i].rec.key = jobs[m][e].key

IInv ==
  /\ TypeOK
  /\ WriterHoldsLock
  /\ WriterIsNext
  /\ BusyHasCall
  /\ CreateStillFree
  /\ UpdatesKnown
  /\ KeyIsStable
  /\ AnswersRecorded
  /\ JobsRecorded
  /\ SeqsAreContiguous
  /\ OneExecutionPerKey
  /\ CreatedOnceAndFirst
-----------------------------------------------------------------------------
LEMMA InitIInv == Init => IInv
<1> SUFFICES ASSUME Init PROVE IInv
  OBVIOUS
<1>1. TypeOK
  <2>1. ledger \in Seq(Event)
    BY DEF Init
  <2>5. now \in Nat /\ torn \in BOOLEAN
    BY DEF Init
  <2>2. pc \in [Thread -> {"idle", "append", "write"}] /\ lock \in Thread \cup {NoThread}
    BY DEF Init
  <2>3. DOMAIN call = Thread /\ \A t \in Thread : call[t] = NoCall
    BY DEF Init
  <2>4. answered \in [Key -> SUBSET Exec]
    BY DEF Init
  <2>6. jobs \in [Process -> [Exec -> Record \cup {NoJob}]]
    BY DEF Init
  <2> QED
    BY <2>1, <2>2, <2>3, <2>4, <2>5, <2>6 DEF TypeOK
<1>2. ledger = <<>> /\ DOMAIN ledger = {} /\ \A t \in Thread : pc[t] = "idle"
  BY DEF Init
<1>3. AnswersRecorded /\ JobsRecorded
  BY DEF Init, AnswersRecorded, JobsRecorded
<1> QED
  BY <1>1, <1>2, <1>3
  DEF IInv, WriterHoldsLock, WriterIsNext, BusyHasCall, CreateStillFree, UpdatesKnown,
      KeyIsStable, JobsRecorded, SeqsAreContiguous, OneExecutionPerKey, CreatedOnceAndFirst

\* A call that only prepares updates of existing executions keeps IInv.
LEMMA PrepareKeepsIInv ==
  ASSUME IInv, NEW t \in Thread, pc[t] = "idle",
         NEW type \in EventType \ {"created"}, NEW updates,
         updates = [e \in DOMAIN updates |-> updates[e]],
         DOMAIN updates \subseteq Known,
         \A e \in DOMAIN updates : updates[e] \in Record /\ updates[e].key = Get(e).key,
         Prepare(t, type, updates), now' = now,
         jobs' \in [Process -> [Exec -> Record \cup {NoJob}]],
         JobsRecorded'
  PROVE  IInv'
<1>1. ledger' = ledger /\ torn' = torn /\ lock' = lock /\ answered' = answered
  BY DEF Prepare
<1>2. /\ DOMAIN call = Thread /\ DOMAIN call' = Thread
      /\ pc' \in [Thread -> {"idle", "append", "write"}]
      /\ pc'[t] = "append"
      /\ \A u \in Thread \ {t} : pc'[u] = pc[u] /\ call'[u] = call[u]
      /\ call'[t] = [type |-> type, todo |-> updates, cur |-> "none", seq |-> 0]
  BY DEF Prepare, IInv, TypeOK
<1>3. DOMAIN updates \subseteq Exec
  BY GetFact DEF IInv, TypeOK
<1>4. CallOK(call'[t])
  BY <1>2, <1>3 DEF CallOK
<1>5. TypeOK'
  BY <1>1, <1>2, <1>4 DEF IInv, TypeOK
<1>6. WriterHoldsLock' /\ WriterIsNext'
  BY <1>1, <1>2 DEF IInv, WriterHoldsLock, WriterIsNext
<1>7. BusyHasCall'
  <2>1. call'[t].type \in EventType
    BY <1>2
  <2> QED
    BY <2>1, <1>2, <1>4 DEF IInv, BusyHasCall
<1>8. CreateStillFree'
  BY <1>1, <1>2 DEF IInv, CreateStillFree
<1>9. UpdatesKnown'
  <2> SUFFICES ASSUME NEW u \in Thread, pc'[u] # "idle", call'[u].type # "created",
                      NEW e \in DOMAIN call'[u].todo
               PROVE  \E i \in DOMAIN ledger :
                        ledger[i].id = e /\ ledger[i].rec.key = call'[u].todo[e].key
    BY <1>1 DEF UpdatesKnown
  <2>1. CASE u = t
    BY <2>1, <1>2, GetFact DEF IInv, TypeOK
  <2>2. CASE u \in Thread \ {t}
    <3>1. pc[u] # "idle" /\ call[u].type # "created" /\ call'[u].todo = call[u].todo
      BY <1>2, <2>2
    <3>2. UpdatesKnown
      BY DEF IInv
    <3> QED
      BY <3>1, <3>2 DEF UpdatesKnown
  <2> QED
    BY <2>1, <2>2
<1> QED
  BY <1>1, <1>5, <1>6, <1>7, <1>8, <1>9
  DEF IInv, KeyIsStable, AnswersRecorded, JobsRecorded, SeqsAreContiguous, OneExecutionPerKey,
      CreatedOnceAndFirst

LEMMA SubmitKeepsIInv ==
  ASSUME IInv, NEW t \in Thread, pc[t] = "idle",
         NEW type \in EventType \ {"created"}, NEW updates,
         updates = [e \in DOMAIN updates |-> updates[e]],
         DOMAIN updates \subseteq Known,
         \A e \in DOMAIN updates : updates[e] \in Record /\ updates[e].key = Get(e).key,
         Submit(t, type, updates), now' = now
  PROVE  IInv'
<1>1. Prepare(t, type, updates) /\ jobs' = jobs /\ ledger' = ledger
  BY DEF Submit, Prepare
<1>2. jobs' \in [Process -> [Exec -> Record \cup {NoJob}]] /\ JobsRecorded'
  BY <1>1 DEF IInv, TypeOK, JobsRecorded
<1> QED
  BY <1>1, <1>2, PrepareKeepsIInv

\* The updates of the read-modify-write calls are well formed.
LEMMA UpdatesKeepIInv ==
  ASSUME IInv, NEW t \in Thread, now' = now,
         \/ \E e \in Exec, s \in UsedStatuses, ph \in UsedPhases :
              Transition(t, e, s, ph) \/ StateChange(t, e, s, ph)
         \/ \E e \in Exec : Retry(t, e) \/ Heartbeat(t, e)
         \/ Recover(t)
  PROVE  IInv'
<1> USE DEF IInv, TypeOK
<1>1. \A e \in Known : Get(e) \in Record
  BY GetFact
<1>2. NewLease(t) \in Lease
  BY DEF NewLease, Lease
<1>3. ASSUME NEW e \in Known, NEW r \in Record, r.key = Get(e).key, pc[t] = "idle",
             NEW type \in EventType \ {"created"}, Submit(t, type, One(e, r))
      PROVE  IInv'
  <2>1. DOMAIN One(e, r) = {e} /\ One(e, r)[e] = r /\ One(e, r) = [x \in {e} |-> One(e, r)[x]]
    BY DEF One
  <2> HIDE DEF IInv, TypeOK
  <2> QED
    BY <1>3, <2>1, SubmitKeepsIInv
<1> HIDE DEF IInv, TypeOK
<1>4. ASSUME NEW e \in Exec, NEW s \in UsedStatuses, NEW ph \in UsedPhases, Transition(t, e, s, ph)
      PROVE  IInv'
  <2> DEFINE r == [Get(e) EXCEPT !.status = s, !.phase = ph, !.lease = ClearedLease(Get(e), s)]
  <2>1. e \in Known /\ pc[t] = "idle" /\ Submit(t, "transitioned", One(e, r))
    BY <1>4 DEF Transition, Reads, CanRead
  <2>2. r \in Record /\ r.key = Get(e).key
    BY <1>1, <2>1 DEF Record, ClearedLease
  <2> HIDE DEF r
  <2> QED
    BY <1>3, <2>1, <2>2 DEF EventType
<1>5. ASSUME NEW e \in Exec, NEW s \in UsedStatuses, NEW ph \in UsedPhases, StateChange(t, e, s, ph)
      PROVE  IInv'
  <2> DEFINE r == [Get(e) EXCEPT !.status = IF CanTransition(@, s) THEN s ELSE @,
                                 !.phase = ph, !.lease = ClearedLease(Get(e), s)]
  <2>1. e \in Known /\ pc[t] = "idle" /\ Submit(t, "state_changed", One(e, r))
    BY <1>5 DEF StateChange, Reads, CanRead
  <2>2. r \in Record /\ r.key = Get(e).key
    BY <1>1, <2>1 DEF Record, ClearedLease
  <2> HIDE DEF r
  <2> QED
    BY <1>3, <2>1, <2>2 DEF EventType
<1>6. ASSUME NEW e \in Exec, Retry(t, e) PROVE IInv'
  <2> DEFINE r == [Get(e) EXCEPT !.status = "queued", !.phase = "scheduling",
                                 !.attempt = @ + 1, !.lease = NoLease]
  <2>1. e \in Known /\ pc[t] = "idle" /\ Submit(t, "retried", One(e, r))
    BY <1>6 DEF Retry, Reads, CanRead
  <2>2. ASSUME NEW g \in Record
        PROVE  LET q == [g EXCEPT !.status = "queued", !.phase = "scheduling",
                                  !.attempt = @ + 1, !.lease = NoLease]
               IN  q \in Record /\ q.key = g.key
    <3>1. "queued" \in Status /\ "scheduling" \in Phase /\ g.attempt + 1 \in Nat \ {0}
      BY DEF Status, Phase, Record
    <3> QED
      BY <3>1 DEF Record
  <2>3. r \in Record /\ r.key = Get(e).key
    BY <1>1, <2>1, <2>2
  <2> HIDE DEF r
  <2> QED
    BY <1>3, <2>1, <2>3 DEF EventType
<1>7. ASSUME NEW e \in Exec, Heartbeat(t, e) PROVE IInv'
  <2> DEFINE r == [Get(e) EXCEPT !.lease = NewLease(t)]
  <2>1. e \in Known /\ pc[t] = "idle" /\ Submit(t, "heartbeat", One(e, r))
    BY <1>7 DEF Heartbeat, Reads, CanRead
  <2>2. r \in Record /\ r.key = Get(e).key
    BY <1>1, <1>2, <2>1 DEF Record
  <2> QED
    BY <1>3, <2>1, <2>2 DEF EventType
<1>8. CASE Recover(t)
  <2> DEFINE stale == {e \in Known \cap Drives[t] : Decide(Get(e)) # "ignore"}
             updates == [e \in stale |-> Recovered(Get(e))]
  <2>1. pc[t] = "idle" /\ Submit(t, "recovered", updates)
    BY <1>8 DEF Recover, CanRead
  <2>2. ASSUME NEW e \in stale
        PROVE  Recovered(Get(e)) \in Record /\ Recovered(Get(e)).key = Get(e).key
    <3>1. Get(e) \in Record
      BY <1>1
    <3>2. "queued" \in Status /\ "interrupted" \in Status /\ "scheduling" \in Phase
          /\ \A g \in Record : g.attempt + 1 \in Nat \ {0}
      BY DEF Status, Terminal, Phase, Record
    <3>3. \A g \in Record : Recovered(g) \in Record /\ Recovered(g).key = g.key
      BY <3>2 DEF Record, Recovered
    <3> QED
      BY <3>1, <3>3
  <2>3. DOMAIN updates \subseteq Known
    OBVIOUS
  <2> QED
    BY <2>1, <2>2, <2>3, SubmitKeepsIInv DEF EventType
<1> QED
  BY <1>4, <1>5, <1>6, <1>7, <1>8

\* A snapshot carries the job of the process, which has the key of the ledger.
LEMMA MarkStateKeepsIInv ==
  ASSUME IInv, NEW t \in Thread, NEW e \in Exec,
         NEW s \in UsedStatuses, NEW ph \in UsedPhases, MarkState(t, e, s, ph)
  PROVE  IInv'
<1> DEFINE m == ProcessOf[t]
           g == jobs[m][e]
           j == [key     |-> g.key,
                 status  |-> IF CanTransition(g.status, s) THEN s ELSE g.status,
                 phase   |-> ph,
                 attempt |-> g.attempt,
                 lease   |-> ClearedLease(g, s)]
<1>1. /\ pc[t] = "idle" /\ g # NoJob
      /\ jobs' = [jobs EXCEPT ![m][e] = j]
      /\ Prepare(t, "snapshot", One(e, j))
      /\ ledger' = ledger /\ now' = now
  BY DEF MarkState, Prepare
<1>2. m \in Process /\ g \in Record
  BY <1>1 DEF IInv, TypeOK
<1>3. j \in Record /\ j.key = g.key
  BY <1>2 DEF Record, ClearedLease
<1>4. PICK i \in DOMAIN ledger : ledger[i].id = e /\ ledger[i].rec.key = g.key
  BY <1>1, <1>2 DEF IInv, JobsRecorded
<1>5. e \in Known /\ Get(e).key = g.key
  <2>1. e \in Known
    BY <1>4 DEF Known
  <2>2. PICK k \in DOMAIN ledger : ledger[k].id = e /\ ledger[k].rec.key = Get(e).key
    BY <2>1, GetFact DEF IInv, TypeOK
  <2> QED
    BY <1>4, <2>1, <2>2 DEF IInv, KeyIsStable
<1> HIDE DEF j, g, m
<1>6. /\ jobs \in [Process -> [Exec -> Record \cup {NoJob}]]
      /\ jobs' \in [Process -> [Exec -> Record \cup {NoJob}]]
      /\ jobs'[m][e] = j
      /\ \A n \in Process, x \in Exec : <<n, x>> # <<m, e>> => jobs'[n][x] = jobs[n][x]
  <2>1. jobs \in [Process -> [Exec -> Record \cup {NoJob}]]
    BY DEF IInv, TypeOK
  <2> QED
    BY <1>1, <1>2, <1>3, <2>1
<1>7. JobsRecorded'
  <2> SUFFICES ASSUME NEW n \in Process, NEW x \in Exec, jobs'[n][x] # NoJob
               PROVE  \E k \in DOMAIN ledger :
                        ledger[k].id = x /\ ledger[k].rec.key = jobs'[n][x].key
    BY <1>1 DEF JobsRecorded
  <2>1. CASE n = m /\ x = e
    BY <1>3, <1>4, <1>6, <2>1
  <2>2. CASE <<n, x>> # <<m, e>>
    BY <1>6, <2>2 DEF IInv, JobsRecorded
  <2> QED
    BY <2>1, <2>2
<1>8. DOMAIN One(e, j) = {e} /\ One(e, j)[e] = j /\ One(e, j) = [x \in {e} |-> One(e, j)[x]]
  BY DEF One
<1> DEFINE u == One(e, j)
<1>9. /\ u = [x \in DOMAIN u |-> u[x]] /\ DOMAIN u \subseteq Known
      /\ \A x \in DOMAIN u : u[x] \in Record /\ u[x].key = Get(x).key
  BY <1>3, <1>5, <1>8
<1>10. Prepare(t, "snapshot", u) /\ "snapshot" \in EventType \ {"created"}
  BY <1>1 DEF EventType
<1> HIDE DEF u
<1> QED
  BY <1>1, <1>6, <1>7, <1>9, <1>10, PrepareKeepsIInv

\* create on a free key: the lock now protects what the projection showed.
LEMMA CreateNewKeepsIInv ==
  ASSUME IInv, NEW t \in Thread, NEW e \in Exec, NEW k \in Key,
         NEW s \in UsedStatuses, NEW ph \in UsedPhases, CreateNew(t, e, k, s, ph)
  PROVE  IInv'
<1>1. PICK l \in {NoLease, NewLease(t)} :
        call' = [call EXCEPT ![t] =
                   [type |-> "created", todo |-> [x \in {e} |-> NewRecord(k, s, ph, l)],
                    cur |-> e, seq |-> NextSeq]]
  BY DEF CreateNew
<1> DEFINE c == [type |-> "created", todo |-> [x \in {e} |-> NewRecord(k, s, ph, l)],
                 cur |-> e, seq |-> NextSeq]
<1>2. /\ ledger' = ledger /\ torn' = torn /\ answered' = answered /\ now' = now
      /\ jobs' = jobs
      /\ lock = NoThread /\ lock' = t /\ ~torn /\ e \notin Known
      /\ \A x \in Known : Get(x).key # k
  BY DEF CreateNew, CanRead, Creatable
<1>3. /\ DOMAIN call = Thread /\ DOMAIN call' = Thread
      /\ pc' \in [Thread -> {"idle", "append", "write"}]
      /\ pc'[t] = "write" /\ call'[t] = c
      /\ \A u \in Thread \ {t} : pc'[u] = pc[u] /\ call'[u] = call[u]
  BY <1>1 DEF CreateNew, IInv, TypeOK
<1>4. \A u \in Thread \ {t} : pc[u] # "write"
  BY <1>2 DEF IInv, WriterHoldsLock
<1>5. NextSeq = Len(ledger) + 1 /\ NextSeq \in Nat
  BY NextSeqFact DEF IInv, TypeOK
<1>6. NewRecord(k, s, ph, l) \in Record /\ NewRecord(k, s, ph, l).key = k
  <2>1. NewLease(t) \in Lease
    BY DEF NewLease, Lease, IInv, TypeOK
  <2> QED
    BY <2>1 DEF NewRecord, Record
<1>7. /\ DOMAIN c.todo = {e} /\ c.todo[e] = NewRecord(k, s, ph, l)
      /\ c.cur = e /\ c.type = "created" /\ c.seq = NextSeq
      /\ c.todo = [x \in DOMAIN c.todo |-> c.todo[x]]
      /\ c = [type |-> c.type, todo |-> c.todo, cur |-> c.cur, seq |-> c.seq]
  OBVIOUS
<1> HIDE DEF c
<1>8. CallOK(call'[t])
  BY <1>3, <1>5, <1>6, <1>7 DEF CallOK, EventType
<1>9. TypeOK'
  BY <1>2, <1>3, <1>8 DEF IInv, TypeOK
<1>10. WriterHoldsLock' /\ WriterIsNext'
  BY <1>2, <1>3, <1>4, <1>5, <1>7 DEF WriterHoldsLock, WriterIsNext
<1>11. BusyHasCall'
  BY <1>3, <1>7, <1>8 DEF IInv, BusyHasCall, EventType
<1>12. \A i \in DOMAIN ledger : ledger[i].id # e /\ ledger[i].rec.key # k
  <2> TAKE i \in DOMAIN ledger
  <2>1. ledger[i].id \in Known
    BY DEF Known
  <2>2. PICK j \in DOMAIN ledger :
          ledger[j].id = ledger[i].id /\ ledger[j].rec.key = Get(ledger[i].id).key
    BY <2>1, GetFact DEF IInv, TypeOK
  <2>3. ledger[i].rec.key = Get(ledger[i].id).key
    BY <2>2 DEF IInv, KeyIsStable
  <2> QED
    BY <1>2, <2>1, <2>3
<1>13. CreateStillFree'
  BY <1>2, <1>3, <1>4, <1>6, <1>7, <1>12 DEF IInv, CreateStillFree
<1>14. UpdatesKnown'
  BY <1>2, <1>3, <1>7 DEF IInv, UpdatesKnown
<1> QED
  BY <1>2, <1>9, <1>10, <1>11, <1>13, <1>14
  DEF IInv, KeyIsStable, AnswersRecorded, JobsRecorded, SeqsAreContiguous, OneExecutionPerKey,
      CreatedOnceAndFirst

\* create on a taken key answers an execution the ledger holds.
LEMMA CreateDeduplicatedKeepsIInv ==
  ASSUME IInv, NEW t \in Thread, NEW k \in Key, CreateDeduplicated(t, k)
  PROVE  IInv'
<1>1. PICK e \in Known : Get(e).key = k /\ answered' = [answered EXCEPT ![k] = @ \cup {e}]
  BY DEF CreateDeduplicated
<1>2. UNCHANGED <<ledger, torn, lock, pc, jobs, call, now>>
  BY DEF CreateDeduplicated
<1>3. e \in Exec /\ \E i \in DOMAIN ledger : ledger[i].id = e /\ ledger[i].rec.key = k
  BY <1>1, GetFact DEF IInv, TypeOK
<1>4. AnswersRecorded'
  BY <1>1, <1>2, <1>3 DEF IInv, TypeOK, AnswersRecorded
<1>5. TypeOK'
  BY <1>1, <1>2, <1>3 DEF IInv, TypeOK
<1> QED
  BY <1>2, <1>4, <1>5
  DEF IInv, WriterHoldsLock, WriterIsNext, BusyHasCall, CreateStillFree, UpdatesKnown,
      KeyIsStable, JobsRecorded, SeqsAreContiguous, OneExecutionPerKey, CreatedOnceAndFirst

\* Taking the lock for an append fixes the next line and its number.
LEMMA LockKeepsIInv ==
  ASSUME IInv, NEW t \in Thread, LockForAppend(t)
  PROVE  IInv'
<1>1. PICK e \in DOMAIN call[t].todo :
        call' = [call EXCEPT ![t].cur = e, ![t].seq = NextSeq]
  BY DEF LockForAppend
<1>2. /\ ledger' = ledger /\ torn' = torn /\ answered' = answered /\ now' = now
      /\ jobs' = jobs
      /\ lock = NoThread /\ lock' = t /\ pc[t] = "append"
  BY DEF LockForAppend, Acquires
<1>3. CallOK(call[t]) /\ call[t].type # "created"
  BY <1>2 DEF IInv, BusyHasCall, CreateStillFree
<1>4. /\ DOMAIN call = Thread /\ DOMAIN call' = Thread
      /\ pc' \in [Thread -> {"idle", "append", "write"}] /\ pc'[t] = "write"
      /\ \A u \in Thread \ {t} : pc'[u] = pc[u] /\ call'[u] = call[u]
  BY <1>1 DEF LockForAppend, IInv, TypeOK
<1>5. call'[t] = [type |-> call[t].type, todo |-> call[t].todo, cur |-> e, seq |-> NextSeq]
  BY <1>1, <1>3, <1>4 DEF CallOK
<1>6. \A u \in Thread \ {t} : pc[u] # "write"
  BY <1>2 DEF IInv, WriterHoldsLock
<1>7. NextSeq = Len(ledger) + 1 /\ NextSeq \in Nat
  BY NextSeqFact DEF IInv, TypeOK
<1>8. CallOK(call'[t])
  <2> DEFINE d == call[t].todo
  <2>1. /\ call[t].type \in EventType \cup {"none"}
        /\ d = [x \in DOMAIN d |-> d[x]] /\ DOMAIN d \subseteq Exec
        /\ \A x \in DOMAIN d : d[x] \in Record
        /\ e \in Exec
    BY <1>1, <1>3 DEF CallOK
  <2>2. /\ call'[t].type = call[t].type /\ call'[t].todo = d
        /\ call'[t].cur = e /\ call'[t].seq = NextSeq
        /\ call'[t] = [type |-> call[t].type, todo |-> d, cur |-> e, seq |-> NextSeq]
    BY <1>5
  <2> HIDE DEF d
  <2> QED
    BY <1>7, <2>1, <2>2 DEF CallOK
<1>9. TypeOK'
  BY <1>2, <1>4, <1>8 DEF IInv, TypeOK
<1>10. WriterHoldsLock' /\ WriterIsNext'
  BY <1>1, <1>2, <1>4, <1>5, <1>6, <1>7 DEF WriterHoldsLock, WriterIsNext
<1>11. BusyHasCall'
  <2>1. call'[t].type \in EventType
    BY <1>2, <1>5 DEF IInv, BusyHasCall
  <2> QED
    BY <2>1, <1>4, <1>8 DEF IInv, BusyHasCall
<1>12. CreateStillFree' /\ UpdatesKnown'
  BY <1>2, <1>3, <1>4, <1>5 DEF IInv, CreateStillFree, UpdatesKnown
<1> QED
  BY <1>2, <1>9, <1>10, <1>11, <1>12
  DEF IInv, KeyIsStable, AnswersRecorded, JobsRecorded, SeqsAreContiguous, OneExecutionPerKey,
      CreatedOnceAndFirst

\* A crash frees the lock and drops calls; no other thread was writing.
LEMMA CrashKeepsIInv ==
  ASSUME IInv, NEW m \in Process, Crash(m)
  PROVE  IInv'
<1> DEFINE dead == {t \in Thread : ProcessOf[t] = m}
<1>1. /\ ledger' = ledger /\ answered' = answered /\ now' = now
      /\ torn' \in {torn} \cup (IF lock \in dead THEN {TRUE} ELSE {})
      /\ lock' = IF lock \in dead THEN NoThread ELSE lock
      /\ pc' = [t \in Thread |-> IF t \in dead THEN "idle" ELSE pc[t]]
      /\ jobs' = [jobs EXCEPT ![m] = [e \in Exec |-> NoJob]]
      /\ call' = [t \in Thread |-> IF t \in dead THEN NoCall ELSE call[t]]
  BY DEF Crash
<1>2. \A t \in Thread : pc'[t] # "idle" => t \notin dead /\ pc'[t] = pc[t] /\ call'[t] = call[t]
  BY <1>1
<1> HIDE DEF dead
<1>7. /\ jobs' \in [Process -> [Exec -> Record \cup {NoJob}]]
      /\ \A n \in Process : \A e \in Exec : jobs'[n][e] # NoJob => jobs'[n][e] = jobs[n][e]
  <2>1. jobs \in [Process -> [Exec -> Record \cup {NoJob}]]
    BY DEF IInv, TypeOK
  <2> QED
    BY <1>1, <2>1
<1>3. TypeOK'
  BY <1>1, <1>7 DEF IInv, TypeOK
<1>8. JobsRecorded'
  BY <1>1, <1>7 DEF IInv, JobsRecorded
<1>4. WriterHoldsLock' /\ WriterIsNext' /\ BusyHasCall'
  BY <1>1, <1>2 DEF IInv, WriterHoldsLock, WriterIsNext, BusyHasCall
<1>5. CreateStillFree'
  BY <1>1, <1>2 DEF IInv, CreateStillFree, WriterHoldsLock
<1>6. UpdatesKnown'
  BY <1>1, <1>2 DEF IInv, UpdatesKnown
<1> QED
  BY <1>1, <1>3, <1>4, <1>5, <1>6, <1>8
  DEF IInv, KeyIsStable, AnswersRecorded, JobsRecorded, SeqsAreContiguous, OneExecutionPerKey,
      CreatedOnceAndFirst

\* The append itself.  The writer holds the lock, so its number is the next
\* position, and a create still finds its id and its key unused.
LEMMA WriteKeepsIInv ==
  ASSUME IInv, NEW t \in Thread, Write(t)
  PROVE  IInv'
<1> DEFINE c == call[t]
           r == c.todo[c.cur]
           ev == [seq |-> c.seq, type |-> c.type, id |-> c.cur, rec |-> r, at |-> now]
           rest == [e \in DOMAIN c.todo \ {c.cur} |-> c.todo[e]]
<1>1. /\ pc[t] = "write" /\ torn' = torn /\ now' = now /\ lock' = NoThread
      /\ ledger' = IF torn THEN ledger ELSE Append(ledger, ev)
      /\ answered' = IF c.type = "created"
                     THEN [answered EXCEPT ![r.key] = @ \cup {c.cur}] ELSE answered
      /\ jobs' = IF c.type = "created" /\ r.lease # NoLease
                 THEN [jobs EXCEPT ![ProcessOf[t]][c.cur] = r] ELSE jobs
      /\ pc' = [pc EXCEPT ![t] = IF DOMAIN rest = {} THEN "idle" ELSE "append"]
      /\ call' = [call EXCEPT ![t] =
                    IF DOMAIN rest = {} THEN NoCall
                    ELSE [type |-> c.type, todo |-> rest, cur |-> "none", seq |-> 0]]
  BY DEF Write
<1>2. /\ CallOK(c) /\ c.cur \in DOMAIN c.todo /\ c.seq = Len(ledger) + 1
  BY <1>1 DEF IInv, BusyHasCall, WriterIsNext
<1>3. /\ c.cur \in Exec /\ r \in Record /\ c.seq \in Nat
      /\ c.type \in EventType \cup {"none"}
  BY <1>2 DEF CallOK
<1>4. c.type = "created" =>
        /\ ~torn /\ DOMAIN c.todo = {c.cur}
        /\ \A i \in DOMAIN ledger : ledger[i].id # c.cur /\ ledger[i].rec.key # r.key
  BY <1>1 DEF IInv, CreateStillFree
<1>5. c.type # "created" =>
        \A e \in DOMAIN c.todo :
          \E i \in DOMAIN ledger : ledger[i].id = e /\ ledger[i].rec.key = c.todo[e].key
  BY <1>1 DEF IInv, UpdatesKnown
<1>6. \A u \in Thread \ {t} : pc[u] # "write"
  BY <1>1 DEF IInv, WriterHoldsLock
<1>7. /\ DOMAIN rest = DOMAIN c.todo \ {c.cur}
      /\ \A e \in DOMAIN rest : rest[e] = c.todo[e]
      /\ rest = [e \in DOMAIN rest |-> rest[e]]
  OBVIOUS
<1>8. /\ DOMAIN call = Thread /\ DOMAIN call' = Thread
      /\ pc' \in [Thread -> {"idle", "append", "write"}] /\ pc'[t] # "write"
      /\ \A u \in Thread \ {t} : pc'[u] = pc[u] /\ call'[u] = call[u]
      /\ pc'[t] # "idle" =>
           call'[t] = [type |-> c.type, todo |-> rest, cur |-> "none", seq |-> 0]
      /\ pc'[t] # "idle" => DOMAIN rest # {}
      /\ pc'[t] = "idle" => call'[t] = NoCall
  <2>1. DOMAIN call = Thread /\ pc \in [Thread -> {"idle", "append", "write"}]
    BY DEF IInv, TypeOK
  <2>3. /\ pc' \in [Thread -> {"idle", "append", "write"}] /\ DOMAIN call' = Thread
        /\ pc'[t] = IF DOMAIN rest = {} THEN "idle" ELSE "append"
        /\ \A u \in Thread \ {t} : pc'[u] = pc[u] /\ call'[u] = call[u]
    <3> HIDE DEF rest, c
    <3> QED
      BY <1>1, <2>1
  <2>4. call'[t] = IF DOMAIN rest = {} THEN NoCall
                   ELSE [type |-> c.type, todo |-> rest, cur |-> "none", seq |-> 0]
    <3> HIDE DEF rest, c
    <3> QED
      BY <1>1, <2>1
  <2> HIDE DEF rest, c
  <2> QED
    BY <2>1, <2>3, <2>4
<1>9. c.type = "created" => pc'[t] = "idle"
  BY <1>4, <1>7, <1>8
<1>10. ev \in Event
  BY <1>1, <1>2, <1>3 DEF Event, IInv, TypeOK, BusyHasCall
<1>11. /\ ev.id = c.cur /\ ev.rec = r /\ ev.seq = c.seq /\ ev.type = c.type
       /\ r = c.todo[c.cur]
  OBVIOUS
<1> HIDE DEF ev, c, r, rest
<1>12. pc'[t] # "idle" => CallOK(call'[t]) /\ call'[t].type \in EventType
  <2>1. c.type \in EventType
    BY <1>1 DEF IInv, BusyHasCall, c
  <2>2. DOMAIN rest \subseteq Exec /\ \A e \in DOMAIN rest : rest[e] \in Record
    BY <1>2, <1>7 DEF CallOK
  <2>3. pc'[t] # "idle" =>
          /\ call'[t].type = c.type /\ call'[t].todo = rest
          /\ call'[t].cur = "none" /\ call'[t].seq = 0
    BY <1>8
  <2> QED
    BY <1>7, <1>8, <2>1, <2>2, <2>3 DEF CallOK
<1>13. BusyHasCall' /\ WriterHoldsLock'
  BY <1>6, <1>8, <1>12 DEF IInv, BusyHasCall, WriterHoldsLock
<1>14. WriterIsNext'
  BY <1>6, <1>8 DEF WriterIsNext
<1>15. \A u \in Thread : call'[u] = NoCall \/ CallOK(call'[u])
  BY <1>8, <1>12 DEF IInv, TypeOK
<1>18. /\ jobs' \in [Process -> [Exec -> Record \cup {NoJob}]]
       /\ \A m \in Process : \A e \in Exec :
            \/ jobs'[m][e] = jobs[m][e]
            \/ c.type = "created" /\ e = c.cur /\ jobs'[m][e] = r
  <2>1. jobs \in [Process -> [Exec -> Record \cup {NoJob}]] /\ ProcessOf[t] \in Process
    BY DEF IInv, TypeOK
  <2>2. CASE jobs' = jobs
    BY <2>1, <2>2
  <2>3. CASE c.type = "created" /\ jobs' = [jobs EXCEPT ![ProcessOf[t]][c.cur] = r]
    BY <1>3, <2>1, <2>3
  <2> QED
    BY <1>1, <2>2, <2>3
<1>16. CASE torn
  <2>1. ledger' = ledger /\ answered' = answered /\ c.type # "created"
    BY <1>1, <1>4, <1>16
  <2>2. TypeOK'
    BY <1>1, <1>8, <1>15, <1>18, <2>1 DEF IInv, TypeOK
  <2>5. JobsRecorded'
    BY <1>18, <2>1 DEF IInv, JobsRecorded
  <2>3. CreateStillFree'
    BY <1>1, <1>8, <2>1 DEF IInv, CreateStillFree
  <2>4. UpdatesKnown'
    BY <1>5, <1>7, <1>8, <2>1 DEF IInv, UpdatesKnown
  <2> QED
    BY <1>13, <1>14, <2>1, <2>2, <2>3, <2>4, <2>5
    DEF IInv, KeyIsStable, AnswersRecorded, JobsRecorded, SeqsAreContiguous, OneExecutionPerKey,
        CreatedOnceAndFirst
<1>17. CASE ~torn
  <2> DEFINE n == Len(ledger)
  <2>1. /\ n \in Nat /\ DOMAIN ledger = 1..n /\ DOMAIN ledger' = 1..(n + 1)
        /\ \A i \in 1..n : ledger'[i] = ledger[i]
        /\ ledger'[n + 1] = ev
        /\ ledger' \in Seq(Event)
    BY <1>1, <1>10, <1>17 DEF IInv, TypeOK
  <2> HIDE DEF n
  <2>2. TypeOK'
    <3>1. answered' \in [Key -> SUBSET Exec]
      BY <1>1, <1>3 DEF IInv, TypeOK, Record
    <3> QED
      BY <1>1, <1>8, <1>15, <1>18, <2>1, <3>1 DEF IInv, TypeOK
  <2>3. CreateStillFree'
    BY <1>1, <1>6, <1>8, <1>9, <2>1 DEF IInv, CreateStillFree
  <2>4. \A i \in DOMAIN ledger : i \in DOMAIN ledger' /\ ledger'[i] = ledger[i]
    BY <2>1
  <2>5. UpdatesKnown'
    <3> SUFFICES ASSUME NEW u \in Thread, pc'[u] # "idle", call'[u].type # "created",
                        NEW e \in DOMAIN call'[u].todo
                 PROVE  \E i \in DOMAIN ledger' :
                          ledger'[i].id = e /\ ledger'[i].rec.key = call'[u].todo[e].key
      BY DEF UpdatesKnown
    <3>1. \E i \in DOMAIN ledger :
            ledger[i].id = e /\ ledger[i].rec.key = call'[u].todo[e].key
      BY <1>5, <1>7, <1>8 DEF IInv, UpdatesKnown
    <3> QED
      BY <2>4, <3>1
  <2>6. SeqsAreContiguous'
    BY <1>2, <1>11, <2>1 DEF IInv, SeqsAreContiguous, n
  <2>7. c.type = "created" \/
          \E i \in 1..n : ledger[i].id = c.cur /\ ledger[i].rec.key = r.key
    BY <1>2, <1>5, <1>11, <2>1
  <2>8. KeyIsStable' /\ OneExecutionPerKey'
    <3> SUFFICES ASSUME NEW i \in 1..(n + 1), NEW j \in 1..(n + 1)
                 PROVE  ledger'[i].id = ledger'[j].id <=> ledger'[i].rec.key = ledger'[j].rec.key
      BY <2>1 DEF KeyIsStable, OneExecutionPerKey
    <3>1. \A a, b \in 1..n :
            ledger[a].id = ledger[b].id <=> ledger[a].rec.key = ledger[b].rec.key
      BY <2>1 DEF IInv, KeyIsStable, OneExecutionPerKey
    <3>2. \A a \in 1..n : ledger[a].id = c.cur <=> ledger[a].rec.key = r.key
      BY <1>4, <2>1, <2>7, <3>1
    <3>3. CASE i \in 1..n /\ j \in 1..n
      BY <2>1, <3>1, <3>3
    <3>4. CASE i \in 1..n /\ j = n + 1
      BY <1>11, <2>1, <3>2, <3>4
    <3>5. CASE i = n + 1 /\ j \in 1..n
      BY <1>11, <2>1, <3>2, <3>5
    <3>6. CASE i = n + 1 /\ j = n + 1
      BY <3>6
    <3> QED
      BY <2>1, <3>3, <3>4, <3>5, <3>6
  <2>9. CreatedOnceAndFirst'
    <3> SUFFICES ASSUME NEW j \in 1..(n + 1)
                 PROVE  ledger'[j].type = "created" <=>
                          \A i \in 1..(j - 1) : ledger'[i].id # ledger'[j].id
      BY <2>1 DEF CreatedOnceAndFirst
    <3>1. CASE j \in 1..n
      <4>1. ledger[j].type = "created" <=> \A i \in 1..(j - 1) : ledger[i].id # ledger[j].id
        BY <2>1, <3>1 DEF IInv, CreatedOnceAndFirst
      <4>2. ledger'[j] = ledger[j] /\ \A i \in 1..(j - 1) : ledger'[i] = ledger[i]
        BY <2>1, <3>1
      <4> QED
        BY <4>1, <4>2
    <3>2. CASE j = n + 1
      BY <1>4, <1>11, <2>1, <2>7, <3>2
    <3> QED
      BY <2>1, <3>1, <3>2
  <2>10. AnswersRecorded'
    <3> SUFFICES ASSUME NEW k \in Key, NEW e \in answered'[k]
                 PROVE  \E i \in 1..(n + 1) : ledger'[i].id = e /\ ledger'[i].rec.key = k
      BY <2>1 DEF AnswersRecorded
    <3>1. e \in answered[k] \/ (e = c.cur /\ k = r.key)
      BY <1>1 DEF IInv, TypeOK
    <3>2. CASE e \in answered[k]
      BY <2>1, <2>4, <3>2 DEF IInv, AnswersRecorded
    <3>3. CASE e = c.cur /\ k = r.key
      BY <1>11, <2>1, <3>3
    <3> QED
      BY <3>1, <3>2, <3>3
  <2>11. JobsRecorded'
    <3> SUFFICES ASSUME NEW m \in Process, NEW e \in Exec, jobs'[m][e] # NoJob
                 PROVE  \E i \in 1..(n + 1) :
                          ledger'[i].id = e /\ ledger'[i].rec.key = jobs'[m][e].key
      BY <2>1 DEF JobsRecorded
    <3>1. CASE jobs'[m][e] = jobs[m][e]
      <4>1. PICK i \in DOMAIN ledger : ledger[i].id = e /\ ledger[i].rec.key = jobs[m][e].key
        BY <3>1 DEF IInv, JobsRecorded
      <4> QED
        BY <2>1, <2>4, <3>1, <4>1
    <3>2. CASE e = c.cur /\ jobs'[m][e] = r
      BY <1>11, <2>1, <3>2
    <3> QED
      BY <1>18, <3>1, <3>2
  <2> QED
    BY <1>13, <1>14, <2>2, <2>3, <2>5, <2>6, <2>8, <2>9, <2>10, <2>11 DEF IInv
<1> QED
  BY <1>16, <1>17
-----------------------------------------------------------------------------
LEMMA NextIInv == IInv /\ [Next]_vars => IInv'
<1> SUFFICES ASSUME IInv, [Next]_vars PROVE IInv'
  OBVIOUS
<1>1. ASSUME NEW t \in Thread, Step(t) PROVE IInv'
  <2>1. CASE \E k \in Key : CreateDeduplicated(t, k)
    BY <2>1, CreateDeduplicatedKeepsIInv
  <2>2. CASE \E e \in Exec, k \in Key, s \in UsedStatuses, ph \in UsedPhases :
               CreateNew(t, e, k, s, ph)
    BY <2>2, CreateNewKeepsIInv
  <2>3. CASE \/ \E e \in Exec, s \in UsedStatuses, ph \in UsedPhases :
                  Transition(t, e, s, ph) \/ StateChange(t, e, s, ph)
             \/ \E e \in Exec : Retry(t, e) \/ Heartbeat(t, e)
             \/ Recover(t)
    <3>1. now' = now
      BY <2>3 DEF Transition, StateChange, Retry, Heartbeat, Recover, Submit, Prepare
    <3> QED
      BY <2>3, <3>1, UpdatesKeepIInv
  <2>6. CASE \E e \in Exec, s \in UsedStatuses, ph \in UsedPhases : MarkState(t, e, s, ph)
    BY <2>6, MarkStateKeepsIInv
  <2>4. CASE LockForAppend(t)
    BY <2>4, LockKeepsIInv
  <2>5. CASE Write(t)
    BY <2>5, WriteKeepsIInv
  <2> QED
    BY <1>1, <2>1, <2>2, <2>3, <2>4, <2>5, <2>6 DEF Step, Updates
<1>2. ASSUME NEW m \in Process, Crash(m) PROVE IInv'
  BY <1>2, CrashKeepsIInv
<1>3. CASE Tick
  <2>1. now' \in Nat /\ UNCHANGED <<ledger, torn, lock, pc, jobs, call, answered>>
    BY <1>3 DEF Tick, IInv, TypeOK
  <2>2. TypeOK'
    BY <2>1 DEF IInv, TypeOK
  <2> QED
    BY <2>1, <2>2
    DEF IInv, WriterHoldsLock, WriterIsNext, BusyHasCall, CreateStillFree, UpdatesKnown,
        KeyIsStable, AnswersRecorded, JobsRecorded, SeqsAreContiguous, OneExecutionPerKey,
        CreatedOnceAndFirst
<1>4. CASE UNCHANGED vars
  BY <1>4
  DEF vars, IInv, TypeOK, WriterHoldsLock, WriterIsNext, BusyHasCall, CreateStillFree,
      UpdatesKnown, KeyIsStable, AnswersRecorded, JobsRecorded, SeqsAreContiguous, OneExecutionPerKey,
      CreatedOnceAndFirst
<1> QED
  BY <1>1, <1>2, <1>3, <1>4 DEF Next

\* The strengthening is inductive.
THEOREM IInvHolds == Spec => []IInv
BY InitIInv, NextIInv, PTL DEF Spec

\* Every variable keeps its type, for every number of threads and events.
THEOREM TypeCorrect == Spec => []TypeOK
<1>1. IInv => TypeOK
  BY DEF IInv
<1> QED
  BY IInvHolds, <1>1, PTL

\* Lines are numbered by their position whoever writes, races or dies
\* (append_record_unlocked under the ledger lock).
THEOREM LinesNumbered == Spec => []SeqsAreContiguous
<1>1. IInv => SeqsAreContiguous
  BY DEF IInv
<1> QED
  BY IInvHolds, <1>1, PTL

\* A (kind, idempotency key) names one execution for ever (`create`).
THEOREM KeysAreUnique == Spec => []OneExecutionPerKey
<1>1. IInv => OneExecutionPerKey
  BY DEF IInv
<1> QED
  BY IInvHolds, <1>1, PTL

\* Every history starts with its only creation.
THEOREM HistoriesStartOnce == Spec => []CreatedOnceAndFirst
<1>1. IInv => CreatedOnceAndFirst
  BY DEF IInv
<1> QED
  BY IInvHolds, <1>1, PTL

\* All answers `create` gives for one key name one execution.
THEOREM CreateAnswersAgree == Spec => []AnswersAgree
<1>1. IInv => AnswersAgree
  <2> SUFFICES ASSUME IInv, NEW k \in Key PROVE Cardinality(answered[k]) <= 1
    BY DEF AnswersAgree
  <2>1. \A x, y \in answered[k] : x = y
    BY DEF IInv, AnswersRecorded, OneExecutionPerKey
  <2>2. CASE answered[k] = {}
    BY <2>2, FS_EmptySet
  <2>3. CASE answered[k] # {}
    <3>1. PICK x \in answered[k] : TRUE
      BY <2>3
    <3>2. answered[k] = {x}
      BY <2>1, <3>1
    <3>3. Cardinality({x}) = 1
      BY FS_Singleton
    <3> QED
      BY <3>2, <3>3
  <2> QED
    BY <2>2, <2>3
<1> QED
  BY IInvHolds, <1>1, PTL

\* The ledger tells one story, whoever writes it and whoever dies.
THEOREM OneStory == Spec => []LedgerIsOneStory
<1>1. SeqsAreContiguous /\ CreatedOnceAndFirst => LedgerIsOneStory
  BY DEF LedgerIsOneStory
<1> QED
  BY <1>1, LinesNumbered, HistoriesStartOnce, PTL

\* A key has one execution, and that is the one every caller is told.
THEOREM KeysMeanOneExecution == Spec => []KeyMeansOneExecution
<1>1. OneExecutionPerKey /\ AnswersAgree => KeyMeansOneExecution
  BY DEF KeyMeansOneExecution
<1> QED
  BY <1>1, KeysAreUnique, CreateAnswersAgree, PTL
-----------------------------------------------------------------------------
(* Histories, where one thread drives each execution.                      *)

\* One thread drives each execution, and the worker of a turn changes it through
\* the job in memory only (mark_turn_job_state).
OneDriver ==
  /\ \A t, u \in Thread : t # u => Drives[t] \cap Drives[u] = {}
  /\ \A t \in Thread : "mark_state" \in Makes[t] => Makes[t] \subseteq {"create", "mark_state"}

\* Record b may come after a, by a call of this type that is written at this time.
Follows(a, type, b, at) ==
  /\ \/ CanTransition(a.status, b.status)
     \/ type = "recovered" /\ a.status = "running" /\ b.status = "queued"
  /\ \/ b.attempt = a.attempt
     \/ /\ b.attempt = a.attempt + 1 /\ b.status = "queued"
        /\ type = "recovered" => a.attempt < MaxAttempts
  /\ type = "recovered" => a.lease = NoLease \/ a.lease.expires <= at

Settled(r) == IsTerminal(r.status) => r.lease = NoLease

\* The call of t still has an update of e to write.
Pends(t, e) == pc[t] # "idle" /\ call[t].type # "created" /\ e \in DOMAIN call[t].todo

\* What a call has still to write follows what the projection shows, though it
\* was computed under an earlier hold of the lock.
PendingFollows ==
  ~torn => \A t \in Thread : \A e \in DOMAIN call[t].todo : Pends(t, e) =>
             e \in Drives[t] /\ Follows(Get(e), call[t].type, call[t].todo[e], now)

PendingSettled ==
  ~torn => \A t \in Thread : pc[t] # "idle" =>
             \A e \in DOMAIN call[t].todo : Settled(call[t].todo[e])

\* The job in memory is the record of the ledger, or what the driver is about
\* to write there.
JobsFollow ==
  ~torn => \A t \in Thread : \A e \in Drives[t] :
    "mark_state" \in Makes[t] /\ jobs[ProcessOf[t]][e] # NoJob =>
      jobs[ProcessOf[t]][e] = IF Pends(t, e) THEN call[t].todo[e] ELSE Get(e)

StepsFollow ==
  \A j \in DOMAIN ledger :
    /\ Settled(ledger[j].rec)
    /\ \A i \in 1..(j - 1) : Consecutive(i, j) =>
         Follows(ledger[i].rec, ledger[j].type, ledger[j].rec, ledger[j].at)

OInv == PendingFollows /\ PendingSettled /\ JobsFollow /\ StepsFollow
-----------------------------------------------------------------------------
\* The last position of an execution, in any sequence of events.
LastIn(l, e) ==
  CHOOSE i \in DOMAIN l :
    /\ l[i].id = e
    /\ \A j \in DOMAIN l : l[j].id = e => j <= i

LEMMA LastInIs ==
  ASSUME NEW l \in Seq(Event), NEW e, NEW i \in DOMAIN l, l[i].id = e,
         \A j \in DOMAIN l : l[j].id = e => j <= i
  PROVE  LastIn(l, e) = i
<1>1. \A k \in DOMAIN l :
        (/\ l[k].id = e
         /\ \A j \in DOMAIN l : l[j].id = e => j <= k) => k = i
  <2> SUFFICES ASSUME NEW k \in DOMAIN l, l[k].id = e,
                      \A j \in DOMAIN l : l[j].id = e => j <= k
               PROVE  k = i
    OBVIOUS
  <2>1. k <= i /\ i <= k /\ k \in Nat /\ i \in Nat
    OBVIOUS
  <2> QED
    BY <2>1
<1> QED
  BY <1>1 DEF LastIn

\* The projection of one ledger.
LEMMA GetIs == \A e : Get(e) = ledger[LastIn(ledger, e)].rec
  BY DEF Get, LastOf, LastIn

LEMMA GetIsNext == \A e : Get(e)' = ledger'[LastIn(ledger', e)].rec
  BY DEF Get, LastOf, LastIn

LEMMA GetStays ==
  ASSUME ledger' = ledger
  PROVE  \A e : Get(e)' = Get(e)
  BY GetIs, GetIsNext

\* An event shows in the projection of its execution and in no other.
LEMMA GetAppended ==
  ASSUME ledger \in Seq(Event), NEW ev \in Event, ledger' = Append(ledger, ev)
  PROVE  /\ Get(ev.id)' = ev.rec
         /\ \A e \in Known \ {ev.id} : Get(e)' = Get(e)
<1> DEFINE n == Len(ledger)
<1>1. /\ n \in Nat /\ DOMAIN ledger = 1..n /\ DOMAIN ledger' = 1..(n + 1)
      /\ \A i \in 1..n : ledger'[i] = ledger[i]
      /\ ledger'[n + 1] = ev /\ ledger' \in Seq(Event)
  OBVIOUS
<1>2. \A l \in Seq(Event) : \A e : \A i \in DOMAIN l :
        l[i].id = e /\ (\A j \in DOMAIN l : l[j].id = e => j <= i) => LastIn(l, e) = i
  BY LastInIs
<1> HIDE DEF n
<1>3. LastIn(ledger', ev.id) = n + 1
  <2>1. /\ n + 1 \in DOMAIN ledger' /\ ledger'[n + 1].id = ev.id
        /\ \A j \in DOMAIN ledger' : ledger'[j].id = ev.id => j <= n + 1
    BY <1>1
  <2> QED
    BY <1>1, <1>2, <2>1
<1>4. ASSUME NEW e \in Known \ {ev.id}
      PROVE  Get(e)' = Get(e)
  <2>1. LastOf(e) \in 1..n /\ ledger[LastOf(e)].id = e
    BY <1>1, LastOfFact
  <2>2. \A j \in 1..n : ledger[j].id = e => j <= LastOf(e)
    BY <1>1, LastOfFact
  <2>3. /\ LastOf(e) \in DOMAIN ledger' /\ ledger'[LastOf(e)].id = e
        /\ \A j \in DOMAIN ledger' : ledger'[j].id = e => j <= LastOf(e)
    BY <1>1, <2>1, <2>2
  <2>4. LastIn(ledger', e) = LastOf(e)
    BY <1>1, <1>2, <2>3
  <2>5. Get(e)' = ledger[LastOf(e)].rec
    BY <1>1, <2>1, <2>4, GetIsNext
  <2> QED
    BY <2>5 DEF Get
<1> QED
  BY <1>1, <1>3, <1>4, GetIsNext
-----------------------------------------------------------------------------
LEMMA InitOInv == Init => OInv
<1> SUFFICES ASSUME Init PROVE OInv
  OBVIOUS
<1>1. DOMAIN ledger = {} /\ \A t \in Thread : pc[t] = "idle"
  BY DEF Init
<1>2. \A t \in Thread : \A e \in Drives[t] : jobs[ProcessOf[t]][e] = NoJob
  BY DEF Init
<1> QED
  BY <1>1, <1>2 DEF OInv, PendingFollows, PendingSettled, JobsFollow, StepsFollow, Pends

\* Nothing happens to the ledger: what was in order stays so.
LEMMA StepsStay ==
  ASSUME StepsFollow, ledger' = ledger
  PROVE  StepsFollow'
  BY DEF StepsFollow, Consecutive

\* The record the projection shows is settled.
LEMMA GetSettled ==
  ASSUME IInv, StepsFollow, NEW e \in Known
  PROVE  Settled(Get(e)) /\ Get(e) \in Record
<1>1. LastOf(e) \in DOMAIN ledger /\ Get(e) \in Record
  BY LastOfFact, GetFact DEF IInv, TypeOK
<1> QED
  BY <1>1 DEF Get, StepsFollow

\* A call of an idle driver that follows what the projection shows.
LEMMA PrepareKeepsOInv ==
  ASSUME IInv, OInv, NEW t \in Thread, pc[t] = "idle",
         NEW type \in EventType \ {"created"}, NEW updates,
         \A e \in DOMAIN updates :
           /\ e \in Drives[t]
           /\ ~torn => Settled(updates[e]) /\ Follows(Get(e), type, updates[e], now),
         Prepare(t, type, updates), now' = now, JobsFollow'
  PROVE  OInv'
<1>1. ledger' = ledger /\ torn' = torn
  BY DEF Prepare
<1>2. /\ pc'[t] = "append"
      /\ \A u \in Thread \ {t} : pc'[u] = pc[u] /\ call'[u] = call[u]
      /\ call'[t].todo = updates /\ call'[t].type = type
  BY DEF Prepare, IInv, TypeOK
<1>3. \A e : Get(e)' = Get(e)
  BY <1>1, GetStays
<1>4. PendingFollows'
  <2> SUFFICES ASSUME ~torn', NEW u \in Thread, NEW e \in DOMAIN call'[u].todo, Pends(u, e)'
               PROVE  e \in Drives[u] /\ Follows(Get(e)', call'[u].type, call'[u].todo[e], now')
    BY DEF PendingFollows, Follows
  <2>1. CASE u = t
    BY <1>1, <1>2, <1>3, <2>1
  <2>2. CASE u # t
    <3>1. Pends(u, e) /\ call'[u] = call[u]
      BY <1>2, <2>2 DEF Pends
    <3> QED
      BY <1>1, <1>3, <3>1 DEF OInv, PendingFollows
  <2> QED
    BY <2>1, <2>2
<1>5. PendingSettled'
  <2> SUFFICES ASSUME ~torn', NEW u \in Thread, pc'[u] # "idle", NEW e \in DOMAIN call'[u].todo
               PROVE  Settled(call'[u].todo[e])
    BY DEF PendingSettled, Settled
  <2>1. CASE u = t
    BY <1>1, <1>2, <2>1
  <2>2. CASE u # t
    BY <1>1, <1>2, <2>2 DEF OInv, PendingSettled
  <2> QED
    BY <2>1, <2>2
<1>6. StepsFollow'
  BY <1>1, StepsStay DEF OInv
<1> QED
  BY <1>4, <1>5, <1>6 DEF OInv

\* A call that leaves the jobs alone is none of a thread that marks.
LEMMA SubmitKeepsOInv ==
  ASSUME IInv, OInv, NEW t \in Thread, pc[t] = "idle", "mark_state" \notin Makes[t],
         NEW type \in EventType \ {"created"}, NEW updates,
         \A e \in DOMAIN updates :
           /\ e \in Drives[t]
           /\ ~torn => Settled(updates[e]) /\ Follows(Get(e), type, updates[e], now),
         Submit(t, type, updates), now' = now
  PROVE  OInv'
<1>1. ledger' = ledger /\ torn' = torn /\ jobs' = jobs /\ Prepare(t, type, updates)
  BY DEF Submit, Prepare
<1>2. \A u \in Thread \ {t} : pc'[u] = pc[u] /\ call'[u] = call[u]
  BY <1>1 DEF Prepare, IInv, TypeOK
<1>3. \A e : Get(e)' = Get(e)
  BY <1>1, GetStays
<1>4. JobsFollow'
  <2> SUFFICES ASSUME ~torn', NEW u \in Thread, NEW e \in Drives[u], "mark_state" \in Makes[u],
                      jobs'[ProcessOf[u]][e] # NoJob
               PROVE  jobs'[ProcessOf[u]][e] = IF Pends(u, e)' THEN call'[u].todo[e] ELSE Get(e)'
    BY DEF JobsFollow
  <2>1. u # t
    OBVIOUS
  <2>2. Pends(u, e)' <=> Pends(u, e)
    BY <1>2, <2>1 DEF Pends
  <2>3. jobs[ProcessOf[u]][e] = IF Pends(u, e) THEN call[u].todo[e] ELSE Get(e)
    BY <1>1 DEF OInv, JobsFollow
  <2> QED
    BY <1>1, <1>2, <1>3, <2>1, <2>2, <2>3
<1> QED
  BY <1>1, <1>4, PrepareKeepsOInv

\* What the calls of the store compute from a record follows it.
LEMMA RecordsFollow ==
  ASSUME NEW r \in Record, Settled(r), NEW at \in Nat
  PROVE  /\ \A s \in Status, ph \in Phase : CanTransition(r.status, s) =>
              LET q == [r EXCEPT !.status = s, !.phase = ph, !.lease = ClearedLease(r, s)]
              IN  Settled(q) /\ Follows(r, "transitioned", q, at)
         /\ \A s \in Status, ph \in Phase :
              LET q == [r EXCEPT !.status = IF CanTransition(@, s) THEN s ELSE @,
                                 !.phase = ph, !.lease = ClearedLease(r, s)]
              IN  Settled(q) /\ Follows(r, "state_changed", q, at)
         /\ CanTransition(r.status, "queued") =>
              LET q == [r EXCEPT !.status = "queued", !.phase = "scheduling",
                                 !.attempt = @ + 1, !.lease = NoLease]
              IN  Settled(q) /\ Follows(r, "retried", q, at)
         /\ \A l \in Lease : ~IsTerminal(r.status) =>
              LET q == [r EXCEPT !.lease = l]
              IN  Settled(q) /\ Follows(r, "heartbeat", q, at)
<1>0. r.status \in Status /\ CanTransition(r.status, r.status) /\ r.attempt \in Nat
  BY DEF Record, CanTransition
<1>1. ASSUME NEW s \in Status, NEW ph \in Phase, NEW q \in Record,
             q.status = s \/ q.status = r.status,
             CanTransition(r.status, q.status), q.attempt = r.attempt,
             q.lease = ClearedLease(r, s)
      PROVE  /\ Settled(q)
             /\ Follows(r, "transitioned", q, at) /\ Follows(r, "state_changed", q, at)
  BY <1>1 DEF Settled, Follows, ClearedLease
<1>2. ASSUME NEW s \in Status, NEW ph \in Phase, CanTransition(r.status, s)
      PROVE  LET q == [r EXCEPT !.status = s, !.phase = ph, !.lease = ClearedLease(r, s)]
             IN  Settled(q) /\ Follows(r, "transitioned", q, at)
  <2> DEFINE q == [r EXCEPT !.status = s, !.phase = ph, !.lease = ClearedLease(r, s)]
  <2>1. /\ q \in Record /\ q.status = s /\ q.attempt = r.attempt /\ q.lease = ClearedLease(r, s)
    BY DEF Record, ClearedLease
  <2> HIDE DEF q
  <2>2. Settled(q) /\ Follows(r, "transitioned", q, at)
    BY <1>1, <1>2, <2>1
  <2> QED
    BY <2>2 DEF q
<1>3. ASSUME NEW s \in Status, NEW ph \in Phase
      PROVE  LET q == [r EXCEPT !.status = IF CanTransition(@, s) THEN s ELSE @,
                                !.phase = ph, !.lease = ClearedLease(r, s)]
             IN  Settled(q) /\ Follows(r, "state_changed", q, at)
  <2> DEFINE q == [r EXCEPT !.status = IF CanTransition(@, s) THEN s ELSE @,
                            !.phase = ph, !.lease = ClearedLease(r, s)]
  <2>1. /\ q \in Record /\ q.attempt = r.attempt /\ q.lease = ClearedLease(r, s)
        /\ q.status = IF CanTransition(r.status, s) THEN s ELSE r.status
    BY <1>0 DEF Record, ClearedLease
  <2> HIDE DEF q
  <2>2. Settled(q) /\ Follows(r, "state_changed", q, at)
    BY <1>0, <1>1, <2>1
  <2> QED
    BY <2>2 DEF q
<1>4. ASSUME CanTransition(r.status, "queued")
      PROVE  LET q == [r EXCEPT !.status = "queued", !.phase = "scheduling",
                                !.attempt = @ + 1, !.lease = NoLease]
             IN  Settled(q) /\ Follows(r, "retried", q, at)
  <2> DEFINE q == [r EXCEPT !.status = "queued", !.phase = "scheduling",
                            !.attempt = @ + 1, !.lease = NoLease]
  <2>1. q.status = "queued" /\ q.attempt = r.attempt + 1 /\ q.lease = NoLease
    BY DEF Record
  <2> HIDE DEF q
  <2>2. Settled(q) /\ Follows(r, "retried", q, at)
    BY <1>4, <2>1 DEF Settled, Follows
  <2> QED
    BY <2>2 DEF q
<1>5. ASSUME NEW l \in Lease, ~IsTerminal(r.status)
      PROVE  LET q == [r EXCEPT !.lease = l]
             IN  Settled(q) /\ Follows(r, "heartbeat", q, at)
  <2> DEFINE q == [r EXCEPT !.lease = l]
  <2>1. q.status = r.status /\ q.attempt = r.attempt
    BY DEF Record
  <2> HIDE DEF q
  <2>2. Settled(q) /\ Follows(r, "heartbeat", q, at)
    BY <1>0, <1>5, <2>1 DEF Settled, Follows
  <2> QED
    BY <2>2 DEF q
<1> QED
  BY <1>2, <1>3, <1>4, <1>5

\* What recovery makes of a record it does not ignore follows it, as the lease
\* is out by then.
LEMMA RecoveredFollows ==
  ASSUME IInv, NEW r \in Record, Settled(r), Decide(r) # "ignore"
  PROVE  Settled(Recovered(r)) /\ Follows(r, "recovered", Recovered(r), now)
<1>1. now \in Nat /\ r.status \in Status /\ r.attempt \in Nat \ {0} /\ r.lease \in Lease \cup {NoLease}
  BY DEF IInv, TypeOK, Record
<1>2. ~IsTerminal(r.status) /\ ~LeaseLive(r)
  BY <1>1 DEF Decide, Classify, IsTerminal, Terminal, Status
<1>3. r.lease = NoLease \/ r.lease.expires <= now
  BY <1>1, <1>2 DEF LeaseLive, Lease
<1>4. CanTransition(r.status, r.status)
  BY DEF CanTransition
<1>5. CASE Decide(r) = "retry"
  <2>1. r.status = "running" /\ r.attempt < MaxAttempts
    BY <1>1, <1>2, <1>5 DEF Decide, Classify, ClassifyRunning, RetryOrInterrupt, Status, IsTerminal
  <2>2. Recovered(r) = [r EXCEPT !.status = "queued", !.phase = "scheduling",
                                 !.attempt = @ + 1, !.lease = NoLease]
    BY <1>5 DEF Recovered
  <2>3. /\ Recovered(r).status = "queued" /\ Recovered(r).attempt = r.attempt + 1
        /\ Recovered(r).lease = NoLease
    BY <2>2 DEF Record
  <2> QED
    BY <1>3, <2>1, <2>3 DEF Settled, Follows
<1>6. CASE Decide(r) = "interrupt"
  <2>1. r.status = "running"
    BY <1>1, <1>2, <1>6 DEF Decide, Classify, Status, IsTerminal
  <2>2. Recovered(r) = [r EXCEPT !.status = "interrupted", !.lease = NoLease]
    BY <1>6 DEF Recovered
  <2>3. /\ Recovered(r).status = "interrupted" /\ Recovered(r).attempt = r.attempt
        /\ Recovered(r).lease = NoLease
    BY <2>2 DEF Record
  <2>4. CanTransition("running", "interrupted")
    BY DEF CanTransition, Successors, Terminal
  <2> QED
    BY <1>3, <2>1, <2>3, <2>4 DEF Settled, Follows
<1>7. CASE Decide(r) # "retry" /\ Decide(r) # "interrupt"
  <2>1. Recovered(r) = r
    BY <1>7 DEF Recovered
  <2> QED
    BY <1>3, <1>4, <2>1 DEF Follows
<1> QED
  BY <1>5, <1>6, <1>7

\* The calls of the store.
LEMMA UpdatesKeepOInv ==
  ASSUME OneDriver, IInv, OInv, NEW t \in Thread, now' = now,
         \/ /\ "transition" \in Makes[t]
            /\ \E e \in Exec, s \in UsedStatuses, ph \in UsedPhases : Transition(t, e, s, ph)
         \/ /\ "state_change" \in Makes[t]
            /\ \E e \in Exec, s \in UsedStatuses, ph \in UsedPhases : StateChange(t, e, s, ph)
         \/ "retry" \in Makes[t] /\ \E e \in Exec : Retry(t, e)
         \/ "heartbeat" \in Makes[t] /\ \E e \in Exec : Heartbeat(t, e)
         \/ "recover" \in Makes[t] /\ Recover(t)
  PROVE  OInv'
<1>1. "mark_state" \notin Makes[t]
  BY DEF OneDriver
<1>2. \A e \in Known : Get(e) \in Record /\ Settled(Get(e))
  BY GetSettled DEF OInv
<1>3. now \in Nat /\ NewLease(t) \in Lease
  BY DEF IInv, TypeOK, NewLease, Lease
<1>4. ASSUME NEW e \in Known \cap Drives[t], NEW r, NEW type \in EventType \ {"created"},
             pc[t] = "idle", Submit(t, type, One(e, r)),
             Settled(r), Follows(Get(e), type, r, now)
      PROVE  OInv'
  <2>1. DOMAIN One(e, r) = {e} /\ One(e, r)[e] = r
    BY DEF One
  <2>2. \A x \in DOMAIN One(e, r) :
          /\ x \in Drives[t]
          /\ ~torn => Settled(One(e, r)[x]) /\ Follows(Get(x), type, One(e, r)[x], now)
    BY <1>4, <2>1
  <2> QED
    BY <1>1, <1>4, <2>2, SubmitKeepsOInv
<1>5. ASSUME NEW e \in Exec, NEW s \in UsedStatuses, NEW ph \in UsedPhases, Transition(t, e, s, ph)
      PROVE  OInv'
  <2> DEFINE r == [Get(e) EXCEPT !.status = s, !.phase = ph, !.lease = ClearedLease(Get(e), s)]
  <2>1. /\ e \in Known \cap Drives[t] /\ pc[t] = "idle" /\ Submit(t, "transitioned", One(e, r))
        /\ CanTransition(Get(e).status, s)
    BY <1>5 DEF Transition, Reads, CanRead
  <2>2. Settled(r) /\ Follows(Get(e), "transitioned", r, now)
    BY <1>2, <1>3, <2>1, RecordsFollow
  <2> HIDE DEF r
  <2> QED
    BY <1>4, <2>1, <2>2 DEF EventType
<1>6. ASSUME NEW e \in Exec, NEW s \in UsedStatuses, NEW ph \in UsedPhases, StateChange(t, e, s, ph)
      PROVE  OInv'
  <2> DEFINE r == [Get(e) EXCEPT !.status = IF CanTransition(@, s) THEN s ELSE @,
                                 !.phase = ph, !.lease = ClearedLease(Get(e), s)]
  <2>1. e \in Known \cap Drives[t] /\ pc[t] = "idle" /\ Submit(t, "state_changed", One(e, r))
    BY <1>6 DEF StateChange, Reads, CanRead
  <2>2. Settled(r) /\ Follows(Get(e), "state_changed", r, now)
    BY <1>2, <1>3, <2>1, RecordsFollow
  <2> HIDE DEF r
  <2> QED
    BY <1>4, <2>1, <2>2 DEF EventType
<1>7. ASSUME NEW e \in Exec, Retry(t, e) PROVE OInv'
  <2> DEFINE r == [Get(e) EXCEPT !.status = "queued", !.phase = "scheduling",
                                 !.attempt = @ + 1, !.lease = NoLease]
  <2>1. /\ e \in Known \cap Drives[t] /\ pc[t] = "idle" /\ Submit(t, "retried", One(e, r))
        /\ CanTransition(Get(e).status, "queued")
    BY <1>7 DEF Retry, Reads, CanRead
  <2>2. Settled(r) /\ Follows(Get(e), "retried", r, now)
    BY <1>2, <1>3, <2>1, RecordsFollow
  <2> HIDE DEF r
  <2> QED
    BY <1>4, <2>1, <2>2 DEF EventType
<1>8. ASSUME NEW e \in Exec, Heartbeat(t, e) PROVE OInv'
  <2> DEFINE r == [Get(e) EXCEPT !.lease = NewLease(t)]
  <2>1. /\ e \in Known \cap Drives[t] /\ pc[t] = "idle" /\ Submit(t, "heartbeat", One(e, r))
        /\ ~IsTerminal(Get(e).status)
    BY <1>8 DEF Heartbeat, Reads, CanRead
  <2>2. Settled(r) /\ Follows(Get(e), "heartbeat", r, now)
    BY <1>2, <1>3, <2>1, RecordsFollow
  <2> HIDE DEF r
  <2> QED
    BY <1>4, <2>1, <2>2 DEF EventType
<1>9. ASSUME Recover(t) PROVE OInv'
  <2> DEFINE stale == {e \in Known \cap Drives[t] : Decide(Get(e)) # "ignore"}
             updates == [e \in stale |-> Recovered(Get(e))]
  <2>1. pc[t] = "idle" /\ Submit(t, "recovered", updates)
    BY <1>9 DEF Recover, CanRead
  <2>2. ASSUME NEW e \in DOMAIN updates
        PROVE  /\ e \in Drives[t]
               /\ ~torn => Settled(updates[e]) /\ Follows(Get(e), "recovered", updates[e], now)
    BY <1>2, RecoveredFollows
  <2>3. "recovered" \in EventType \ {"created"}
    BY DEF EventType
  <2> HIDE DEF updates
  <2> QED
    BY <1>1, <2>1, <2>2, <2>3, SubmitKeepsOInv
<1> QED
  BY <1>5, <1>6, <1>7, <1>8, <1>9

\* The job in memory is the record of the ledger while its driver is idle, so
\* the snapshot follows it.
LEMMA MarkStateKeepsOInv ==
  ASSUME OneDriver, IInv, OInv, NEW t \in Thread, NEW e \in Exec, "mark_state" \in Makes[t],
         NEW s \in UsedStatuses, NEW ph \in UsedPhases, MarkState(t, e, s, ph)
  PROVE  OInv'
<1> DEFINE m == ProcessOf[t]
           g == jobs[m][e]
           j == [key     |-> g.key,
                 status  |-> IF CanTransition(g.status, s) THEN s ELSE g.status,
                 phase   |-> ph,
                 attempt |-> g.attempt,
                 lease   |-> ClearedLease(g, s)]
<1>1. /\ pc[t] = "idle" /\ g # NoJob /\ e \in Drives[t]
      /\ jobs' = [jobs EXCEPT ![m][e] = j]
      /\ Prepare(t, "snapshot", One(e, j))
      /\ ledger' = ledger /\ now' = now /\ torn' = torn
  BY DEF MarkState, Prepare
<1>2. m \in Process /\ g \in Record
  BY <1>1 DEF IInv, TypeOK
<1>3. PICK i \in DOMAIN ledger : ledger[i].id = e
  BY <1>1, <1>2 DEF IInv, JobsRecorded
<1>4. e \in Known
  BY <1>3 DEF Known
<1>5. ~torn => g = Get(e)
  BY <1>1 DEF OInv, JobsFollow, Pends
<1>6. ~torn => Settled(j) /\ Follows(Get(e), "snapshot", j, now)
  <2> SUFFICES ASSUME ~torn PROVE Settled(j) /\ Follows(g, "snapshot", j, now)
    BY <1>5
  <2>1. Settled(g)
    BY <1>4, <1>5, GetSettled DEF OInv
  <2>2. CanTransition(g.status, j.status) /\ (j.status = s \/ j.status = g.status)
    BY DEF CanTransition
  <2>3. j.attempt = g.attempt /\ j.lease = ClearedLease(g, s)
    OBVIOUS
  <2> HIDE DEF j, g
  <2> QED
    BY <2>1, <2>2, <2>3 DEF Settled, Follows, ClearedLease
<1> HIDE DEF j, g, m
<1>7. /\ jobs'[m][e] = j
      /\ \A n \in Process, x \in Exec : <<n, x>> # <<m, e>> => jobs'[n][x] = jobs[n][x]
  <2>1. jobs \in [Process -> [Exec -> Record \cup {NoJob}]]
    BY DEF IInv, TypeOK
  <2> QED
    BY <1>1, <1>2, <2>1
<1>8. DOMAIN One(e, j) = {e} /\ One(e, j)[e] = j
  BY DEF One
<1> DEFINE up == One(e, j)
<1>9. \A x \in DOMAIN up :
        /\ x \in Drives[t]
        /\ ~torn => Settled(up[x]) /\ Follows(Get(x), "snapshot", up[x], now)
  BY <1>1, <1>6, <1>8
<1>10. Prepare(t, "snapshot", up) /\ "snapshot" \in EventType \ {"created"}
  BY <1>1 DEF EventType
<1>11. /\ pc'[t] = "append" /\ call'[t].type = "snapshot" /\ call'[t].todo = up
       /\ \A u \in Thread \ {t} : pc'[u] = pc[u] /\ call'[u] = call[u]
  BY <1>10 DEF Prepare, IInv, TypeOK
<1>12. \A x : Get(x)' = Get(x)
  BY <1>1, GetStays
<1>13. JobsFollow'
  <2> SUFFICES ASSUME ~torn', NEW u \in Thread, NEW x \in Drives[u], "mark_state" \in Makes[u],
                      jobs'[ProcessOf[u]][x] # NoJob
               PROVE  jobs'[ProcessOf[u]][x] = IF Pends(u, x)' THEN call'[u].todo[x] ELSE Get(x)'
    BY DEF JobsFollow
  <2>0. x \in Exec /\ ProcessOf[u] \in Process
    OBVIOUS
  <2>1. CASE u = t /\ x = e
    <3>1. Pends(u, x)' /\ call'[u].todo[x] = j
      BY <1>8, <1>11, <2>1 DEF Pends
    <3> QED
      BY <1>7, <2>1, <3>1 DEF m
  <2>2. CASE u = t /\ x # e
    <3>1. ~Pends(u, x)' /\ ~Pends(u, x)
      BY <1>1, <1>8, <1>11, <2>2 DEF Pends
    <3>2. jobs'[ProcessOf[u]][x] = jobs[ProcessOf[u]][x]
      BY <1>7, <2>0, <2>2
    <3>3. jobs[ProcessOf[u]][x] = Get(x)
      BY <1>1, <3>1, <3>2 DEF OInv, JobsFollow
    <3> QED
      BY <1>12, <3>1, <3>2, <3>3
  <2>3. CASE u # t
    <3>1. x # e
      BY <1>1, <2>3 DEF OneDriver
    <3>2. jobs'[ProcessOf[u]][x] = jobs[ProcessOf[u]][x]
      BY <1>7, <2>0, <3>1
    <3>3. (Pends(u, x)' <=> Pends(u, x)) /\ call'[u] = call[u]
      BY <1>11, <2>3 DEF Pends
    <3>4. jobs[ProcessOf[u]][x] = IF Pends(u, x) THEN call[u].todo[x] ELSE Get(x)
      BY <1>1, <3>2 DEF OInv, JobsFollow
    <3> QED
      BY <1>12, <3>2, <3>3, <3>4
  <2> QED
    BY <2>1, <2>2, <2>3
<1> HIDE DEF up
<1> QED
  BY <1>1, <1>9, <1>10, <1>13, PrepareKeepsOInv

\* A new execution is settled and nobody's job yet.
LEMMA CreateNewKeepsOInv ==
  ASSUME IInv, OInv, NEW t \in Thread, NEW e \in Exec, NEW k \in Key,
         NEW s \in UsedStatuses, NEW ph \in UsedPhases, CreateNew(t, e, k, s, ph)
  PROVE  OInv'
<1>1. PICK l \in {NoLease} \cup (IF s \in {"queued", "running"} THEN {NewLease(t)} ELSE {}) :
        call' = [call EXCEPT ![t] =
                   [type |-> "created", todo |-> [x \in {e} |-> NewRecord(k, s, ph, l)],
                    cur |-> e, seq |-> NextSeq]]
  BY DEF CreateNew
<1>2. ledger' = ledger /\ torn' = torn /\ jobs' = jobs /\ now' = now /\ pc[t] = "idle"
  BY DEF CreateNew, CanRead
<1>3. /\ call'[t].type = "created" /\ call'[t].todo = [x \in {e} |-> NewRecord(k, s, ph, l)]
      /\ \A u \in Thread \ {t} : pc'[u] = pc[u] /\ call'[u] = call[u]
  BY <1>1 DEF CreateNew, IInv, TypeOK
<1>4. Settled(NewRecord(k, s, ph, l))
  BY <1>1 DEF NewRecord, Settled, IsTerminal, Terminal
<1>5. \A u \in Thread, x \in Exec : Pends(u, x)' <=> Pends(u, x)
  BY <1>2, <1>3 DEF Pends
<1>6. \A x : Get(x)' = Get(x)
  BY <1>2, GetStays
<1>7. \A u \in Thread : \A x : Pends(u, x)' => Pends(u, x) /\ u # t /\ call'[u] = call[u]
  BY <1>2, <1>3 DEF Pends
<1>8. PendingFollows'
  BY <1>2, <1>6, <1>7 DEF OInv, PendingFollows, Follows
<1>9. PendingSettled'
  <2> SUFFICES ASSUME ~torn', NEW u \in Thread, pc'[u] # "idle", NEW x \in DOMAIN call'[u].todo
               PROVE  Settled(call'[u].todo[x])
    BY DEF PendingSettled, Settled
  <2>1. CASE u = t
    BY <1>3, <1>4, <2>1
  <2>2. CASE u # t
    BY <1>2, <1>3, <2>2 DEF OInv, PendingSettled
  <2> QED
    BY <2>1, <2>2
<1>10. JobsFollow'
  <2> SUFFICES ASSUME ~torn', NEW u \in Thread, NEW x \in Drives[u], "mark_state" \in Makes[u],
                      jobs'[ProcessOf[u]][x] # NoJob
               PROVE  jobs'[ProcessOf[u]][x] = IF Pends(u, x)' THEN call'[u].todo[x] ELSE Get(x)'
    BY DEF JobsFollow
  <2>1. x \in Exec
    OBVIOUS
  <2>2. jobs[ProcessOf[u]][x] = IF Pends(u, x) THEN call[u].todo[x] ELSE Get(x)
    BY <1>2 DEF OInv, JobsFollow
  <2> QED
    BY <1>2, <1>5, <1>6, <1>7, <2>1, <2>2
<1>11. StepsFollow'
  BY <1>2, StepsStay DEF OInv
<1> QED
  BY <1>8, <1>9, <1>10, <1>11 DEF OInv

\* Steps that leave the ledger alone and take no call up.
LEMMA QuietKeepsOInv ==
  ASSUME IInv, OInv, ledger' = ledger, ~torn' => ~torn,
         now' \in Nat, now' >= now,
         \A u \in Thread : \/ pc'[u] = "idle"
                           \/ /\ pc[u] # "idle" /\ pc'[u] # "idle"
                              /\ call'[u].type = call[u].type /\ call'[u].todo = call[u].todo,
         \A u \in Thread, x \in Exec :
           jobs'[ProcessOf[u]][x] # NoJob =>
             /\ jobs'[ProcessOf[u]][x] = jobs[ProcessOf[u]][x]
             /\ pc'[u] = "idle" => pc[u] = "idle"
  PROVE  OInv'
<1>1. \A x : Get(x)' = Get(x)
  BY GetStays
<1>2. \A u \in Thread : \A x : Pends(u, x)' => Pends(u, x) /\ call'[u].type = call[u].type
                                            /\ call'[u].todo = call[u].todo
  BY DEF Pends
<1>3. ASSUME ~torn', NEW u \in Thread, NEW x \in DOMAIN call'[u].todo, Pends(u, x)'
      PROVE  x \in Drives[u] /\ Follows(Get(x)', call'[u].type, call'[u].todo[x], now')
  <2>1. Pends(u, x) /\ call'[u].type = call[u].type /\ call'[u].todo = call[u].todo
    BY <1>2, <1>3
  <2>2. x \in Drives[u] /\ Follows(Get(x), call[u].type, call[u].todo[x], now)
    BY <1>3, <2>1 DEF OInv, PendingFollows
  <2>3. PICK i \in DOMAIN ledger : ledger[i].id = x
    BY <2>1 DEF IInv, UpdatesKnown, Pends
  <2>4. x \in Known
    BY <2>3 DEF Known
  <2>5. Get(x).lease \in Lease \cup {NoLease} /\ now \in Nat
    BY <2>4, GetFact DEF IInv, TypeOK, Record
  <2>6. Get(x).lease = NoLease \/ Get(x).lease.expires <= now =>
          Get(x).lease = NoLease \/ Get(x).lease.expires <= now'
    BY <2>5 DEF Lease
  <2>7. Follows(Get(x), call[u].type, call[u].todo[x], now')
    BY <2>2, <2>6 DEF Follows
  <2> QED
    BY <1>1, <2>1, <2>2, <2>7
<1>4. PendingFollows'
  BY <1>3 DEF PendingFollows, Follows
<1>5. PendingSettled'
  BY DEF OInv, PendingSettled, Settled
<1>6. JobsFollow'
  <2> SUFFICES ASSUME ~torn', NEW u \in Thread, NEW x \in Drives[u], "mark_state" \in Makes[u],
                      jobs'[ProcessOf[u]][x] # NoJob
               PROVE  jobs'[ProcessOf[u]][x] = IF Pends(u, x)' THEN call'[u].todo[x] ELSE Get(x)'
    BY DEF JobsFollow
  <2>1. x \in Exec
    OBVIOUS
  <2>2. jobs[ProcessOf[u]][x] = IF Pends(u, x) THEN call[u].todo[x] ELSE Get(x)
    BY <2>1 DEF OInv, JobsFollow
  <2>3. Pends(u, x)' <=> Pends(u, x)
    BY <2>1 DEF Pends
  <2> QED
    BY <1>1, <1>2, <2>1, <2>2, <2>3
<1>7. StepsFollow'
  BY StepsStay DEF OInv
<1> QED
  BY <1>4, <1>5, <1>6, <1>7 DEF OInv

-----------------------------------------------------------------------------
(* The append.                                                             *)

\* What Write does to the calls and the jobs.
LEMMA WriteShape ==
  ASSUME IInv, NEW t \in Thread, Write(t)
  PROVE  /\ pc[t] = "write" /\ torn' = torn /\ now' = now
         /\ call[t].cur \in DOMAIN call[t].todo /\ call[t].cur \in Exec
         /\ \A u \in Thread \ {t} : pc'[u] = pc[u] /\ call'[u] = call[u]
         /\ pc'[t] # "idle" =>
              /\ call'[t].type = call[t].type
              /\ DOMAIN call'[t].todo = DOMAIN call[t].todo \ {call[t].cur}
              /\ \A e \in DOMAIN call'[t].todo : call'[t].todo[e] = call[t].todo[e]
         /\ pc'[t] = "idle" <=> DOMAIN call[t].todo \ {call[t].cur} = {}
         /\ \A m \in Process : \A e \in Exec :
              \/ jobs'[m][e] = jobs[m][e]
              \/ /\ call[t].type = "created" /\ e = call[t].cur
                 /\ jobs'[m][e] = call[t].todo[call[t].cur]
<1> DEFINE c == call[t]
           r == c.todo[c.cur]
           rest == [e \in DOMAIN c.todo \ {c.cur} |-> c.todo[e]]
<1>1. /\ pc[t] = "write" /\ torn' = torn /\ now' = now
      /\ jobs' = IF c.type = "created" /\ r.lease # NoLease
                 THEN [jobs EXCEPT ![ProcessOf[t]][c.cur] = r] ELSE jobs
      /\ pc' = [pc EXCEPT ![t] = IF DOMAIN rest = {} THEN "idle" ELSE "append"]
      /\ call' = [call EXCEPT ![t] =
                    IF DOMAIN rest = {} THEN NoCall
                    ELSE [type |-> c.type, todo |-> rest, cur |-> "none", seq |-> 0]]
  BY DEF Write
<1>2. CallOK(c) /\ c.cur \in DOMAIN c.todo
  BY <1>1 DEF IInv, BusyHasCall, WriterIsNext
<1>3. c.cur \in Exec
  BY <1>2 DEF CallOK
<1>4. /\ DOMAIN rest = DOMAIN c.todo \ {c.cur}
      /\ \A e \in DOMAIN rest : rest[e] = c.todo[e]
  OBVIOUS
<1>5. /\ DOMAIN call = Thread /\ pc \in [Thread -> {"idle", "append", "write"}]
      /\ jobs \in [Process -> [Exec -> Record \cup {NoJob}]] /\ ProcessOf[t] \in Process
  BY DEF IInv, TypeOK
<1> HIDE DEF c, r, rest
<1>6. /\ \A u \in Thread \ {t} : pc'[u] = pc[u] /\ call'[u] = call[u]
      /\ pc'[t] = IF DOMAIN rest = {} THEN "idle" ELSE "append"
      /\ call'[t] = IF DOMAIN rest = {} THEN NoCall
                    ELSE [type |-> c.type, todo |-> rest, cur |-> "none", seq |-> 0]
  BY <1>1, <1>5
<1>7. pc'[t] # "idle" => call'[t].type = c.type /\ call'[t].todo = rest
  BY <1>6
<1>8. \A m \in Process : \A e \in Exec :
        jobs'[m][e] = jobs[m][e] \/ (c.type = "created" /\ e = c.cur /\ jobs'[m][e] = r)
  BY <1>1, <1>3, <1>5
<1> QED
  BY <1>1, <1>2, <1>3, <1>4, <1>6, <1>7, <1>8 DEF c, r

\* What Write does to a ledger that can still be read.
LEMMA WriteAppends ==
  ASSUME IInv, NEW t \in Thread, Write(t), ~torn,
         NEW cur, cur = call[t].cur, NEW r, r = call[t].todo[call[t].cur]
  PROVE  /\ Get(cur)' = r
         /\ \A e \in Known \ {cur} : Get(e)' = Get(e)
         /\ Len(ledger) \in Nat /\ DOMAIN ledger = 1..Len(ledger)
         /\ DOMAIN ledger' = 1..(Len(ledger) + 1)
         /\ \A i \in 1..Len(ledger) : ledger'[i] = ledger[i]
         /\ ledger'[Len(ledger) + 1].id = cur /\ ledger'[Len(ledger) + 1].rec = r
         /\ ledger'[Len(ledger) + 1].type = call[t].type
         /\ ledger'[Len(ledger) + 1].at = now
<1>1. /\ pc[t] = "write"
      /\ ledger' = Append(ledger, [seq |-> call[t].seq, type |-> call[t].type, id |-> cur,
                                   rec |-> r, at |-> now])
  BY DEF Write
<1>2. CallOK(call[t]) /\ cur \in DOMAIN call[t].todo /\ call[t].type \in EventType
  BY <1>1 DEF IInv, BusyHasCall, WriterIsNext
<1>3. cur \in Exec /\ r \in Record /\ call[t].seq \in Nat
  BY <1>2 DEF CallOK
<1>4. PICK ev \in Event : /\ ev.id = cur /\ ev.rec = r /\ ev.type = call[t].type /\ ev.at = now
                          /\ ledger' = Append(ledger, ev)
  BY <1>1, <1>2, <1>3 DEF Event, IInv, TypeOK
<1>5. ledger \in Seq(Event)
  BY DEF IInv, TypeOK
<1>6. Get(ev.id)' = ev.rec /\ \A e \in Known \ {ev.id} : Get(e)' = Get(e)
  BY <1>4, <1>5, GetAppended
<1>7. /\ Len(ledger) \in Nat /\ DOMAIN ledger = 1..Len(ledger)
      /\ DOMAIN ledger' = 1..(Len(ledger) + 1)
      /\ \A i \in 1..Len(ledger) : ledger'[i] = ledger[i]
      /\ ledger'[Len(ledger) + 1] = ev
  BY <1>4, <1>5
<1> QED
  BY <1>4, <1>6, <1>7

\* What is appended follows what the projection showed, and the projection then
\* shows it: nobody else has an update of that execution in flight.
LEMMA WriteKeepsOInv ==
  ASSUME OneDriver, IInv, OInv, NEW t \in Thread, Write(t)
  PROVE  OInv'
<1>1. PICK cur \in Exec : cur = call[t].cur
  BY WriteShape
<1>2. PICK r : r = call[t].todo[call[t].cur]
  OBVIOUS
<1>3. /\ pc[t] = "write" /\ torn' = torn /\ now' = now /\ cur \in DOMAIN call[t].todo
      /\ \A u \in Thread \ {t} : pc'[u] = pc[u] /\ call'[u] = call[u]
      /\ pc'[t] # "idle" =>
           /\ call'[t].type = call[t].type
           /\ DOMAIN call'[t].todo = DOMAIN call[t].todo \ {cur}
           /\ \A e \in DOMAIN call'[t].todo : call'[t].todo[e] = call[t].todo[e]
      /\ pc'[t] = "idle" <=> DOMAIN call[t].todo \ {cur} = {}
      /\ \A m \in Process : \A e \in Exec :
           \/ jobs'[m][e] = jobs[m][e]
           \/ call[t].type = "created" /\ e = cur /\ jobs'[m][e] = r
  BY <1>1, <1>2, WriteShape
<1>4. CASE torn
  <2>1. ledger' = ledger
    BY <1>4 DEF Write
  <2>2. StepsFollow'
    BY <2>1, StepsStay DEF OInv
  <2> QED
    BY <1>3, <1>4, <2>2 DEF OInv, PendingFollows, PendingSettled, JobsFollow
<1>5. CASE ~torn
  <2> DEFINE n == Len(ledger)
  <2>1. /\ Get(cur)' = r /\ \A e \in Known \ {cur} : Get(e)' = Get(e)
        /\ n \in Nat /\ DOMAIN ledger = 1..n /\ DOMAIN ledger' = 1..(n + 1)
        /\ \A i \in 1..n : ledger'[i] = ledger[i]
        /\ ledger'[n + 1].id = cur /\ ledger'[n + 1].rec = r
        /\ ledger'[n + 1].type = call[t].type /\ ledger'[n + 1].at = now
    BY <1>1, <1>2, <1>5, WriteAppends
  <2> HIDE DEF n
  <2>2. \A u \in Thread : \A e : Pends(u, e) => e \in Known /\ e \in Drives[u]
    <3> SUFFICES ASSUME NEW u \in Thread, NEW e, Pends(u, e) PROVE e \in Known /\ e \in Drives[u]
      OBVIOUS
    <3>1. PICK i \in DOMAIN ledger : ledger[i].id = e
      BY DEF IInv, UpdatesKnown, Pends
    <3>2. e \in Drives[u]
      BY <1>5 DEF OInv, PendingFollows, Pends
    <3> QED
      BY <3>1, <3>2 DEF Known
  <2>3. call[t].type = "created" => cur \notin Known /\ DOMAIN call[t].todo = {cur}
    BY <1>1, <1>3 DEF IInv, CreateStillFree, Known
  <2>4. call[t].type # "created" => Pends(t, cur)
    BY <1>3 DEF Pends
  <2>5. \A u \in Thread : \A e :
          Pends(u, e)' <=> Pends(u, e) /\ ~(u = t /\ e = cur)
    BY <1>3, <2>3 DEF Pends
  <2>6. \A u \in Thread : \A e : Pends(u, e)' => /\ e # cur
                                                 /\ call'[u].type = call[u].type
                                                 /\ call'[u].todo[e] = call[u].todo[e]
    <3> SUFFICES ASSUME NEW u \in Thread, NEW e, Pends(u, e)'
                 PROVE  /\ e # cur /\ call'[u].type = call[u].type
                        /\ call'[u].todo[e] = call[u].todo[e]
      OBVIOUS
    <3>1. Pends(u, e) /\ ~(u = t /\ e = cur)
      BY <2>5
    <3>2. e # cur
      BY <2>2, <2>3, <2>4, <3>1 DEF OneDriver
    <3>3. pc'[u] # "idle" /\ e \in DOMAIN call'[u].todo
      BY DEF Pends
    <3> QED
      BY <1>3, <3>2, <3>3
  <2>7. PendingFollows'
    <3> SUFFICES ASSUME ~torn', NEW u \in Thread, NEW e \in DOMAIN call'[u].todo, Pends(u, e)'
                 PROVE  e \in Drives[u] /\ Follows(Get(e)', call'[u].type, call'[u].todo[e], now')
      BY DEF PendingFollows, Follows
    <3>1. Pends(u, e) /\ e \in Known \ {cur} /\ e \in DOMAIN call[u].todo
      BY <2>2, <2>5, <2>6 DEF Pends
    <3>2. e \in Drives[u] /\ Follows(Get(e), call[u].type, call[u].todo[e], now)
      BY <1>5, <3>1 DEF OInv, PendingFollows
    <3> QED
      BY <1>3, <2>1, <2>6, <3>1, <3>2
  <2>8. PendingSettled'
    <3> SUFFICES ASSUME ~torn', NEW u \in Thread, pc'[u] # "idle", NEW e \in DOMAIN call'[u].todo
                 PROVE  Settled(call'[u].todo[e])
      BY DEF PendingSettled, Settled
    <3>1. pc[u] # "idle" /\ e \in DOMAIN call[u].todo /\ call'[u].todo[e] = call[u].todo[e]
      BY <1>3
    <3> QED
      BY <1>5, <3>1 DEF OInv, PendingSettled
  <2>9. JobsFollow'
    <3> SUFFICES ASSUME ~torn', NEW u \in Thread, NEW e \in Drives[u], "mark_state" \in Makes[u],
                        jobs'[ProcessOf[u]][e] # NoJob
                 PROVE  jobs'[ProcessOf[u]][e] = IF Pends(u, e)' THEN call'[u].todo[e] ELSE Get(e)'
      BY DEF JobsFollow
    <3>1. e \in Exec /\ ProcessOf[u] \in Process
      OBVIOUS
    <3>2. CASE call[t].type = "created" /\ e = cur /\ jobs'[ProcessOf[u]][e] = r
      BY <2>1, <2>6, <3>2
    <3>3. CASE jobs'[ProcessOf[u]][e] = jobs[ProcessOf[u]][e]
      <4>1. jobs[ProcessOf[u]][e] = IF Pends(u, e) THEN call[u].todo[e] ELSE Get(e)
        BY <1>5, <3>3 DEF OInv, JobsFollow
      <4>2. PICK i \in DOMAIN ledger : ledger[i].id = e
        BY <3>1, <3>3 DEF IInv, JobsRecorded
      <4>3. e \in Known
        BY <4>2 DEF Known
      <4>4. CASE e = cur
        <5>1. Pends(t, cur) /\ cur \in Drives[t]
          BY <2>2, <2>3, <2>4, <4>3, <4>4
        <5>2. u = t
          BY <4>4, <5>1 DEF OneDriver
        <5> QED
          BY <1>1, <1>2, <2>1, <2>6, <3>3, <4>1, <4>4, <5>1, <5>2
      <4>5. CASE e # cur
        <5>1. (Pends(u, e)' <=> Pends(u, e)) /\ Get(e)' = Get(e)
          BY <2>1, <2>5, <4>3, <4>5
        <5> QED
          BY <2>6, <3>3, <4>1, <5>1
      <4> QED
        BY <4>4, <4>5
    <3> QED
      BY <1>3, <3>1, <3>2, <3>3
  <2>10. StepsFollow'
    <3> SUFFICES ASSUME NEW j \in 1..(n + 1)
                 PROVE  /\ Settled(ledger'[j].rec)
                        /\ \A i \in 1..(j - 1) : Consecutive(i, j)' =>
                             Follows(ledger'[i].rec, ledger'[j].type, ledger'[j].rec, ledger'[j].at)
      BY <2>1 DEF StepsFollow, Settled, Follows
    <3>1. CASE j \in 1..n
      <4>1. \A i \in 1..(j - 1) : Consecutive(i, j)' => Consecutive(i, j)
        BY <2>1, <3>1 DEF Consecutive
      <4>2. /\ Settled(ledger[j].rec)
            /\ \A i \in 1..(j - 1) : Consecutive(i, j) =>
                 Follows(ledger[i].rec, ledger[j].type, ledger[j].rec, ledger[j].at)
        BY <2>1, <3>1 DEF OInv, StepsFollow
      <4>3. ledger'[j] = ledger[j] /\ \A i \in 1..(j - 1) : ledger'[i] = ledger[i]
        BY <2>1, <3>1
      <4> QED
        BY <4>1, <4>2, <4>3
    <3>2. CASE j = n + 1
      <4>1. Settled(r)
        BY <1>1, <1>2, <1>3, <1>5 DEF OInv, PendingSettled
      <4>2. ASSUME NEW i \in 1..n, Consecutive(i, j)'
            PROVE  Follows(ledger[i].rec, call[t].type, r, now)
        <5>1. /\ ledger[i].id = cur
              /\ \A m \in (i + 1)..n : ledger[m].id # cur
          BY <2>1, <3>2, <4>2 DEF Consecutive
        <5>2. cur \in Known
          BY <2>1, <5>1 DEF Known
        <5>3. LastOf(cur) \in 1..n /\ ledger[LastOf(cur)].id = cur /\ i <= LastOf(cur)
          BY <2>1, <5>1, <5>2, LastOfFact DEF IInv, TypeOK
        <5>4. i = LastOf(cur)
          BY <2>1, <5>1, <5>3
        <5>5. Get(cur) = ledger[i].rec
          BY <5>4 DEF Get
        <5>6. Pends(t, cur)
          BY <2>3, <2>4, <5>2
        <5> QED
          BY <1>1, <1>2, <1>3, <1>5, <5>5, <5>6 DEF OInv, PendingFollows
      <4> QED
        BY <2>1, <3>2, <4>1, <4>2
    <3> QED
      BY <2>1, <3>1, <3>2
  <2> QED
    BY <2>7, <2>8, <2>9, <2>10 DEF OInv
<1> QED
  BY <1>4, <1>5

LEMMA NextOInv == OneDriver /\ IInv /\ OInv /\ [Next]_vars => OInv'
<1> SUFFICES ASSUME OneDriver, IInv, OInv, [Next]_vars PROVE OInv'
  OBVIOUS
<1>1. now \in Nat /\ pc \in [Thread -> {"idle", "append", "write"}] /\ DOMAIN call = Thread
  BY DEF IInv, TypeOK
<1>2. ASSUME NEW t \in Thread, Step(t) PROVE OInv'
  <2>1. CASE \E k \in Key : CreateDeduplicated(t, k)
    <3>1. /\ UNCHANGED <<ledger, torn, pc, jobs, call, now>>
      BY <2>1 DEF CreateDeduplicated
    <3> QED
      BY <1>1, <3>1, QuietKeepsOInv
  <2>2. CASE \E e \in Exec, k \in Key, s \in UsedStatuses, ph \in UsedPhases :
               CreateNew(t, e, k, s, ph)
    BY <2>2, CreateNewKeepsOInv
  <2>3. CASE \/ /\ "transition" \in Makes[t]
                /\ \E e \in Exec, s \in UsedStatuses, ph \in UsedPhases : Transition(t, e, s, ph)
             \/ /\ "state_change" \in Makes[t]
                /\ \E e \in Exec, s \in UsedStatuses, ph \in UsedPhases : StateChange(t, e, s, ph)
             \/ "retry" \in Makes[t] /\ \E e \in Exec : Retry(t, e)
             \/ "heartbeat" \in Makes[t] /\ \E e \in Exec : Heartbeat(t, e)
             \/ "recover" \in Makes[t] /\ Recover(t)
    <3>1. now' = now
      BY <2>3 DEF Transition, StateChange, Retry, Heartbeat, Recover, Submit, Prepare
    <3> QED
      BY <2>3, <3>1, UpdatesKeepOInv
  <2>4. CASE /\ "mark_state" \in Makes[t]
             /\ \E e \in Exec, s \in UsedStatuses, ph \in UsedPhases : MarkState(t, e, s, ph)
    BY <2>4, MarkStateKeepsOInv
  <2>5. CASE LockForAppend(t)
    <3>1. /\ UNCHANGED <<ledger, torn, jobs, now>>
          /\ pc[t] = "append" /\ pc' = [pc EXCEPT ![t] = "write"]
      BY <2>5 DEF LockForAppend
    <3>2. PICK e : call' = [call EXCEPT ![t].cur = e, ![t].seq = NextSeq]
      BY <2>5 DEF LockForAppend
    <3>3. CallOK(call[t])
      BY <3>1 DEF IInv, BusyHasCall
    <3>4. \A u \in Thread : call'[u].type = call[u].type /\ call'[u].todo = call[u].todo
      BY <1>1, <3>2, <3>3 DEF CallOK
    <3>5. \A u \in Thread : pc'[u] = "idle" <=> pc[u] = "idle"
      BY <1>1, <3>1
    <3> QED
      BY <1>1, <3>1, <3>4, <3>5, QuietKeepsOInv
  <2>6. CASE Write(t)
    BY <2>6, WriteKeepsOInv
  <2> QED
    BY <1>2, <2>1, <2>2, <2>3, <2>4, <2>5, <2>6 DEF Step, Updates
<1>3. ASSUME NEW m \in Process, Crash(m) PROVE OInv'
  <2> DEFINE dead == {t \in Thread : ProcessOf[t] = m}
  <2>1. /\ UNCHANGED <<ledger, now>>
        /\ torn' \in {torn} \cup {TRUE}
        /\ jobs' = [jobs EXCEPT ![m] = [e \in Exec |-> NoJob]]
        /\ \A u \in Thread : IF ProcessOf[u] = m THEN pc'[u] = "idle"
                             ELSE pc'[u] = pc[u] /\ call'[u] = call[u]
    BY <1>3 DEF Crash
  <2>2. ~torn' => ~torn
    BY <2>1 DEF IInv, TypeOK
  <2>3. jobs \in [Process -> [Exec -> Record \cup {NoJob}]]
    BY DEF IInv, TypeOK
  <2>4. \A u \in Thread, x \in Exec :
          jobs'[ProcessOf[u]][x] # NoJob =>
            /\ jobs'[ProcessOf[u]][x] = jobs[ProcessOf[u]][x]
            /\ pc'[u] = "idle" => pc[u] = "idle"
    BY <2>1, <2>3
  <2> QED
    BY <1>1, <2>1, <2>2, <2>4, QuietKeepsOInv
<1>4. CASE Tick
  <2>1. now' \in Nat /\ now' >= now /\ UNCHANGED <<ledger, torn, lock, pc, jobs, call, answered>>
    BY <1>1, <1>4 DEF Tick
  <2> QED
    BY <2>1, QuietKeepsOInv
<1>5. CASE UNCHANGED vars
  BY <1>1, <1>5, QuietKeepsOInv DEF vars
<1> QED
  BY <1>2, <1>3, <1>4, <1>5 DEF Next

\* The strengthening for histories is inductive.
THEOREM OInvHolds ==
  ASSUME OneDriver
  PROVE  Spec => []OInv
BY InitOInv, NextOInv, IInvHolds, PTL DEF Spec

\* One thread drives each execution: statuses follow the transition table,
\* attempts are counted, recovery waits for the lease and a finished execution
\* holds none, though every update but `create` reads the projection under one
\* hold of the lock and appends under another (read_projection, append_record).
THEOREM HistoriesAreOrderly ==
  ASSUME OneDriver
  PROVE  Spec => []HistoryIsOrderly
<1>1. IInv /\ OInv => HistoryIsOrderly
  <2> SUFFICES ASSUME IInv, OInv PROVE HistoryIsOrderly
    OBVIOUS
  <2>1. StepsFollow
    BY DEF OInv
  <2>2. HistoryFollowsTable
    BY <2>1 DEF StepsFollow, Follows, HistoryFollowsTable
  <2>3. AttemptsAreCounted
    BY <2>1 DEF StepsFollow, Follows, AttemptsAreCounted
  <2>4. RecoveredOnlyAfterExpiry
    BY <2>1 DEF StepsFollow, Follows, RecoveredOnlyAfterExpiry
  <2>5. FinishedHoldsNoLease
    BY <2>1 DEF StepsFollow, Settled, FinishedHoldsNoLease
  <2> QED
    BY <2>2, <2>3, <2>4, <2>5 DEF HistoryIsOrderly
<1> QED
  BY <1>1, IInvHolds, OInvHolds, PTL

\* A completed execution shows completed for ever, whatever its driver, recovery
\* or a crash does next.
THEOREM CompletedStays ==
  ASSUME OneDriver
  PROVE  Spec => CompletedIsImmutable
<1> DEFINE Stays == \A e \in Known : Get(e).status = "completed" => Get(e)'.status = "completed"
<1>1. IInv /\ OInv /\ [Next]_vars => [Stays]_vars
  <2> SUFFICES ASSUME IInv, OInv, [Next]_vars, NEW e \in Known, Get(e).status = "completed"
               PROVE  Get(e)'.status = "completed"
    OBVIOUS
  <2>1. CASE ledger' = ledger
    BY <2>1, GetStays
  <2>2. CASE ledger' # ledger
    <3>1. PICK t \in Thread : Write(t) /\ ~torn
      <4>1. ASSUME NEW t \in Thread, Updates(t) PROVE ledger' = ledger
        BY <4>1
        DEF Updates, CreateDeduplicated, CreateNew, Transition, StateChange, MarkState, Retry,
            Heartbeat, Recover, Submit, Prepare
      <4>2. ASSUME NEW t \in Thread, LockForAppend(t) PROVE ledger' = ledger
        BY <4>2 DEF LockForAppend
      <4>3. ASSUME Tick \/ (\E m \in Process : Crash(m)) \/ UNCHANGED vars PROVE ledger' = ledger
        BY <4>3 DEF Tick, Crash, vars
      <4>4. ASSUME NEW t \in Thread, Write(t), torn PROVE ledger' = ledger
        BY <4>4 DEF Write
      <4> QED
        BY <2>2, <4>1, <4>2, <4>3, <4>4 DEF Next, Step
    <3>2. PICK cur : cur = call[t].cur
      OBVIOUS
    <3>3. PICK r : r = call[t].todo[call[t].cur]
      OBVIOUS
    <3>4. Get(cur)' = r /\ \A x \in Known \ {cur} : Get(x)' = Get(x)
      BY <3>1, <3>2, <3>3, WriteAppends
    <3>5. CASE e # cur
      BY <3>4, <3>5
    <3>6. CASE e = cur
      <4>1. pc[t] = "write" /\ cur \in DOMAIN call[t].todo
        BY <3>1, <3>2, WriteShape
      <4>2. call[t].type # "created"
        BY <3>2, <3>6, <4>1 DEF IInv, CreateStillFree, Known
      <4>3. Follows(Get(cur), call[t].type, r, now)
        BY <3>1, <3>2, <3>3, <4>1, <4>2 DEF OInv, PendingFollows, Pends
      <4>4. r.status = "completed"
        BY <3>6, <4>3 DEF Follows, CanTransition, Successors
      <4> QED
        BY <3>4, <3>6, <4>4
    <3> QED
      BY <3>5, <3>6
  <2> QED
    BY <2>1, <2>2
<1> QED
  BY <1>1, IInvHolds, OInvHolds, PTL DEF Spec, CompletedIsImmutable
=============================================================================
