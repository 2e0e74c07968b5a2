-------------------------- MODULE TurnSchedulerProofs --------------------------
(***************************************************************************)
(* Theorems about the turn scheduler, for any number of sessions, turns,   *)
(* worker slots, responding threads, interrupts and crashes: its types,    *)
(* that turns are kept apart, that queued turns survive, the order of the  *)
(* queues; and, while nothing is asked or interrupted, that the registry   *)
(* tells what is so and that ended jobs stay ended.                        *)
(***************************************************************************)
EXTENDS TurnScheduler, OrdersProofs, FiniteSetTheorems, SequenceTheorems, TLAPS

-----------------------------------------------------------------------------
(* The inductive invariant.                                                *)

Hand(t) == sched.pc # "free" /\ sched.turn = t

\* The turn in hand has a record and is not in turn_jobs yet.
Registering == sched.pc \in {"created", "leased", "admitted"}

USE DEF Registering

Answering(r, t) == resp[r].turn = t /\ resp[r].pc \in {"tool", "loop"}

\* Nobody has asked for an answer of the turn yet, or it was given.
NotAsking(t) == pending[SessionOf[t]] # t /\ \A r \in Responder : resp[r].turn # t

\* The turns somebody drives, or would drive after an answer.
InPlay(t) ==
  thread[t] = "run" \/ (\E r \in Responder : Answering(r, t)) \/ pending[SessionOf[t]] = t

\* The turns that hold a session and a slot rightly.
Live == {t \in Turn : /\ IsActive(job[t]) /\ event[t] = "none"
                      /\ intr[t] = "none" /\ t \notin contested}

Unborn(t) ==
  record[t] = NoJob =>
    /\ job[t] = NoJob /\ index[t] = NoJob /\ event[t] = "none" /\ intr[t] = "none"
    /\ starts[t] = 0 /\ thread[t] = "none" /\ stamp[t] = 0 /\ ~Hand(t)

\* A turn that was not started is not asked about; it may be waiting in its
\* queue or for its thread.
BeforeItsStart(t) ==
  /\ starts[t] \in {0, 1}
  /\ starts[t] = 0 => thread[t] \in {"none", "due"} /\ NotAsking(t)
  /\ thread[t] = "run" => NotAsking(t)
  /\ thread[t] = "due" => /\ starts[t] = 0 /\ stamp[t] = 0 /\ ~Hand(t)
                          /\ intr[t] = "none" => job[t] = "running" /\ event[t] = "none"
  /\ InQueue(t) => starts[t] = 0 /\ thread[t] = "none" /\ stamp[t] # 0 /\ ~Hand(t)
  /\ t \in payload => /\ starts[t] = 0 /\ thread[t] = "none" /\ stamp[t] # 0
                      /\ event[t] = "none"

\* A queued job is in its queue and on the disk, or about to be.
QueuedIsKept(t) ==
  job[t] = "queued" =>
    /\ t \in payload /\ t \in leased /\ event[t] = "none"
    /\ \/ InQueue(t) /\ index[t] = "queued"
       \/ sched.pc = "entered" /\ Hand(t) /\ sched.queued /\ ~InQueue(t)

\* The turn the holder of the lock has in its hand.
InHand(t) ==
  Hand(t) =>
    /\ starts[t] = 0 /\ thread[t] = "none" /\ ~InQueue(t)
    /\ sched.pc \in {"admitted", "entered"} => (sched.queued <=> stamp[t] # 0)
    /\ sched.pc \in {"created", "leased"} => sched.queued /\ stamp[t] = 0
    /\ sched.pc = "leased" => t \in leased
    /\ Registering => /\ job[t] = NoJob /\ index[t] = NoJob
                      /\ event[t] = "none" /\ intr[t] = "none"
    /\ sched.pc = "admitted" /\ sched.queued => t \in payload /\ t \in leased
    /\ sched.pc = "entered" /\ intr[t] = "none" =>
         /\ job[t] = IF sched.queued THEN "queued" ELSE "running"
         /\ event[t] = "none"
    /\ sched.pc \in {"popped", "persisted"} /\ sched.queued /\ intr[t] = "none" =>
         job[t] = "running" /\ event[t] = "none"

\* What is driven, or waits to be, is active, and its turn has not ended.
PlaysFair(t) ==
  /\ InPlay(t) /\ intr[t] = "none" /\ job[t] # NoJob /\ t \notin contested =>
       IsActive(job[t]) /\ event[t] = "none"
  /\ thread[t] = "stop" => outcome[t] # "none" /\ (outcome[t] # "waiting" => event[t] # "none")
  /\ IsTerminal(job[t]) /\ intr[t] = "none" /\ event[t] = "none" => starts[t] = 0

TurnOK(t) ==
  Unborn(t) /\ BeforeItsStart(t) /\ QueuedIsKept(t) /\ InHand(t) /\ PlaysFair(t)

\* A response on its way; one that is alone has the request to itself.
OwnResponseOK(r) ==
  /\ resp[r].pc = "idle" <=> resp[r].turn = NoTurn
  /\ resp[r].pc = "idle" => resp[r] = Idle
  /\ resp[r].pc = "stop" => /\ resp[r].outcome # "none"
                            /\ resp[r].outcome # "waiting" => event[resp[r].turn] # "none"
  /\ resp[r].pc = "loop" /\ resp[r].turn \notin contested =>
       pending[SessionOf[resp[r].turn]] # resp[r].turn

ResponseOK(r) ==
  /\ OwnResponseOK(r)
  /\ \A o \in Responder \ {r}, t \in Turn :
       Answering(r, t) /\ Answering(o, t) => t \in contested

LockOK ==
  /\ up = "down" => sched.pc = "free" /\ \A t \in Turn : thread[t] = "none"
  /\ sched.pc = "free" => sched = LockFree
  /\ sched.pc # "free" => sched.turn \in Turn
  /\ \A s \in Session : pending[s] # NoTurn => SessionOf[pending[s]] = s

\* The queues, in the order of the stamps, which are the ranks of the turns
\* that were queued.
Stamped == {t \in Turn : stamp[t] # 0}

QueuesOK ==
  /\ \A s \in Session :
       /\ \A i \in 1..Len(queue[s]) : SessionOf[queue[s][i]] = s
       /\ \A i, j \in 1..Len(queue[s]) : i < j => stamp[queue[s][i]] < stamp[queue[s][j]]
  /\ sched.pc \in {"admitted", "entered"} /\ sched.queued =>
       \A t \in Turn : InQueue(t) => stamp[t] < stamp[sched.turn]
  /\ \A t \in Turn : stamp[t] <= Cardinality(Stamped)
  /\ \A t, u \in Turn : stamp[t] # 0 /\ stamp[t] = stamp[u] => t = u

SlotsOK ==
  /\ Cardinality(Live) <= Quota
  /\ \A t, u \in Live : SessionOf[t] = SessionOf[u] => t = u
  /\ sched.pc = "admitted" /\ ~sched.queued =>
       /\ Cardinality(Live) < Quota
       /\ \A t \in Live : SessionOf[t] # SessionOf[sched.turn]

Inv ==
  /\ TypeOK /\ LockOK /\ QueuesOK /\ SlotsOK
  /\ \A t \in Turn : TurnOK(t)
  /\ \A r \in Responder : ResponseOK(r)

-----------------------------------------------------------------------------
(* Statuses, snapshots and queues.                                         *)

LEMMA Statuses ==
  /\ {"queued", "running", "waiting", "completed", "failed", "cancelled", "interrupted"} = Status
  /\ NoJob \notin Status /\ NoJob \in JobStatus /\ Status \subseteq JobStatus
  /\ ~IsActive(NoJob) /\ ~IsActive("queued") /\ IsActive("running") /\ IsActive("waiting")
  /\ ~IsTerminal(NoJob) /\ ~IsTerminal("queued") /\ ~IsTerminal("running")
  /\ ~IsTerminal("waiting")
  /\ \A s : IsTerminal(s) => ~IsActive(s) /\ s \in Status
  /\ \A s \in JobStatus : s = NoJob \/ s = "queued" \/ IsTerminal(s) \/ IsActive(s)
  /\ \A s : IsTerminal(s) <=> s \in {"completed", "failed", "cancelled", "interrupted"}
<1>1. Status = {"queued", "running", "waiting", "completed", "failed", "cancelled", "interrupted"}
  BY DEF Status, Terminal
<1>2. NoJob \notin Status
  BY SchedulerAssumption
<1>3. /\ NoJob # "queued" /\ NoJob # "running" /\ NoJob # "waiting" /\ NoJob # "completed"
      /\ NoJob # "failed" /\ NoJob # "cancelled" /\ NoJob # "interrupted"
  BY <1>1, <1>2
<1> QED
  BY <1>1, <1>2, <1>3 DEF JobStatus, IsActive, IsTerminal, Terminal

\* A job goes to and fro between running and waiting, and ends once.
LEMMA Transitions ==
  /\ CanTransition("running", "running") /\ CanTransition("running", "waiting")
  /\ CanTransition("waiting", "running") /\ CanTransition("waiting", "waiting")
  /\ \A s, to : IsTerminal(s) /\ to \in {"running", "waiting"} => ~CanTransition(s, to)
  /\ \A s \in Status : ~CanTransition(s, NoJob)
<1>1. /\ CanTransition("running", "running") /\ CanTransition("running", "waiting")
      /\ CanTransition("waiting", "running") /\ CanTransition("waiting", "waiting")
      /\ \A s, to : IsTerminal(s) /\ to \in {"running", "waiting"} => ~CanTransition(s, to)
  BY DEF CanTransition, Successors, IsTerminal, Terminal
<1>2. \A s \in Status : Successors[s] \subseteq Status
  BY DEF Successors, Status, Terminal
<1>3. \A s \in Status : ~CanTransition(s, NoJob)
  BY <1>2, Statuses DEF CanTransition
<1> QED
  BY <1>1, <1>3

LEMMA SaveOne ==
  ASSUME TypeOK, NEW t \in Turn, NEW s \in JobStatus, Save([u \in {t} |-> s])
  PROVE  /\ index' \in [Turn -> JobStatus] /\ record' \in [Turn -> JobStatus]
         /\ index'[t] = s
         /\ \A u \in Turn \ {t} : index'[u] = index[u] /\ record'[u] = record[u]
         /\ s # NoJob /\ record'[t] = NoJob => record[t] = NoJob
         /\ record[t] # NoJob /\ s # NoJob => record'[t] # NoJob
<1> DEFINE c == [u \in {t} |-> s]
<1>1. DOMAIN c = {t} /\ c[t] = s
  OBVIOUS
<1>2. /\ index' = [u \in Turn |-> IF u \in DOMAIN c THEN c[u] ELSE index[u]]
      /\ record' = [u \in Turn |-> IF u \in DOMAIN c /\ CanTransition(record[u], c[u])
                                   THEN c[u] ELSE record[u]]
  BY DEF Save
<1> HIDE DEF c
<1>3. \A u \in Turn : index'[u] = IF u = t THEN s ELSE index[u]
  BY <1>1, <1>2
<1>4. \A u \in Turn : record'[u] = IF u = t /\ CanTransition(record[u], s)
                                   THEN s ELSE record[u]
  BY <1>1, <1>2
<1>5. index \in [Turn -> JobStatus] /\ record \in [Turn -> JobStatus]
  BY DEF TypeOK
<1>6. index' \in [Turn -> JobStatus] /\ record' \in [Turn -> JobStatus]
  BY <1>2, <1>3, <1>4, <1>5
<1> QED
  BY <1>3, <1>4, <1>6

\* A queue of turns of one session, in the order of their stamps.
SortedFor(q, s) ==
  /\ \A i \in 1..Len(q) : SessionOf[q[i]] = s
  /\ \A i, j \in 1..Len(q) : i < j => stamp[q[i]] < stamp[q[j]]

QueuesSorted(q) == \A s \in Session : SortedFor(q[s], s)

Among(t, q) == \E i \in 1..Len(q) : q[i] = t

\* Taking turns out of the queues takes out these turns.
LEMMA RetainedQueue ==
  ASSUME NEW q \in Seq(Turn), NEW keep, NEW r, r = Retain(q, keep), NEW s, SortedFor(q, s)
  PROVE  /\ r \in Seq(Turn) /\ SortedFor(r, s)
         /\ \A t : Among(t, r) <=> Among(t, q) /\ t \in keep
<1>1. r \in Seq(Turn)
  BY RetainKeeps
<1>2. PICK place \in [1..Len(r) -> 1..Len(q)] :
        /\ \A i \in 1..Len(r) : r[i] = q[place[i]] /\ q[place[i]] \in keep
        /\ \A i, j \in 1..Len(r) : i < j => place[i] < place[j]
        /\ \A k \in 1..Len(q) : q[k] \in keep => \E i \in 1..Len(r) : place[i] = k
  BY RetainKeeps
<1>3. \A i \in 1..Len(r) : place[i] \in 1..Len(q)
  OBVIOUS
<1>4. ASSUME NEW i \in 1..Len(r) PROVE SessionOf[r[i]] = s
  BY <1>2, <1>3 DEF SortedFor
<1>5. ASSUME NEW i \in 1..Len(r), NEW j \in 1..Len(r), i < j PROVE stamp[r[i]] < stamp[r[j]]
  <2>1. place[i] \in 1..Len(q) /\ place[j] \in 1..Len(q) /\ place[i] < place[j]
    BY <1>2, <1>3, <1>5
  <2>2. r[i] = q[place[i]] /\ r[j] = q[place[j]]
    BY <1>2
  <2>3. stamp[q[place[i]]] < stamp[q[place[j]]]
    BY <2>1 DEF SortedFor
  <2> QED
    BY <2>2, <2>3
<1>6. ASSUME NEW t PROVE Among(t, r) <=> Among(t, q) /\ t \in keep
  <2>1. ASSUME NEW i \in 1..Len(r), r[i] = t
        PROVE  (\E k \in 1..Len(q) : q[k] = t) /\ t \in keep
    BY <1>2, <1>3, <2>1
  <2>2. ASSUME NEW k \in 1..Len(q), q[k] = t, t \in keep PROVE \E i \in 1..Len(r) : r[i] = t
    <3>1. PICK i \in 1..Len(r) : place[i] = k
      BY <1>2, <2>2
    <3> QED
      BY <1>2, <2>2, <3>1
  <2> QED
    BY <2>1, <2>2 DEF Among
<1> QED
  BY <1>1, <1>4, <1>5, <1>6 DEF SortedFor

LEMMA RetainedQueues ==
  ASSUME TypeOK, QueuesSorted(queue), NEW keep,
         NEW q, q = [s \in Session |-> Retain(queue[s], keep)]
  PROVE  /\ q \in [Session -> Seq(Turn)] /\ QueuesSorted(q)
         /\ \A s \in Session, t \in Turn :
              Among(t, q[s]) <=> Among(t, queue[s]) /\ t \in keep
<1>1. ASSUME NEW s \in Session
      PROVE  /\ q[s] \in Seq(Turn) /\ SortedFor(q[s], s)
             /\ \A t : Among(t, q[s]) <=> Among(t, queue[s]) /\ t \in keep
  <2>1. queue[s] \in Seq(Turn) /\ q[s] = Retain(queue[s], keep)
    BY DEF TypeOK
  <2>2. SortedFor(queue[s], s)
    BY DEF QueuesSorted
  <2> QED
    BY <2>1, <2>2, RetainedQueue
<1>2. q \in [Session -> Seq(Turn)] /\ QueuesSorted(q)
  BY <1>1 DEF QueuesSorted
<1>3. \A s \in Session, t \in Turn : Among(t, q[s]) <=> Among(t, queue[s]) /\ t \in keep
  BY <1>1
<1> QED
  BY <1>2, <1>3

LEMMA InQueueIsAmong ==
  ASSUME NEW q \in [Session -> Seq(Turn)], NEW t \in Turn
  PROVE  (\E i \in DOMAIN q[SessionOf[t]] : q[SessionOf[t]][i] = t)
           <=> Among(t, q[SessionOf[t]])
<1>1. q[SessionOf[t]] \in Seq(Turn)
  BY SchedulerAssumption
<1>2. DOMAIN q[SessionOf[t]] = 1..Len(q[SessionOf[t]])
  BY <1>1, LenProperties
<1> QED
  BY <1>2 DEF Among

\* The same of the queues as they are after a step.
LEMMA RetainedInQueue ==
  ASSUME TypeOK, QueuesOK, NEW keep,
         queue' = [s \in Session |-> Retain(queue[s], keep)]
  PROVE  /\ queue' \in [Session -> Seq(Turn)] /\ QueuesSorted(queue')
         /\ \A t \in Turn : InQueue(t)' <=> InQueue(t) /\ t \in keep
<1>1. QueuesSorted(queue)
  BY DEF QueuesOK, QueuesSorted, SortedFor
<1>2. /\ queue' \in [Session -> Seq(Turn)] /\ QueuesSorted(queue')
      /\ \A s \in Session, t \in Turn :
           Among(t, queue'[s]) <=> Among(t, queue[s]) /\ t \in keep
  BY <1>1, RetainedQueues
<1>3. \A t \in Turn : SessionOf[t] \in Session
  BY SchedulerAssumption
<1>4. queue \in [Session -> Seq(Turn)]
  BY DEF TypeOK
<1>5. ASSUME NEW t \in Turn PROVE InQueue(t) <=> Among(t, queue[SessionOf[t]])
  BY <1>4, InQueueIsAmong DEF InQueue
<1>6. ASSUME NEW t \in Turn PROVE InQueue(t)' <=> Among(t, queue'[SessionOf[t]])
  BY <1>2, InQueueIsAmong DEF InQueue
<1> QED
  BY <1>2, <1>3, <1>5, <1>6

-----------------------------------------------------------------------------
(* Steps: what they leave alone, and what is left to show of one turn.     *)

\* What a step that is not about turn u leaves of it: others may be asked for
\* or answered in its session, and the lock may pass between other turns.
SameTurn(u) ==
  /\ record'[u] = record[u] /\ job'[u] = job[u] /\ index'[u] = index[u]
  /\ thread'[u] = thread[u] /\ outcome'[u] = outcome[u] /\ intr'[u] = intr[u]
  /\ event'[u] = event[u] /\ stamp'[u] = stamp[u] /\ starts'[u] = starts[u]
  /\ u \in payload' <=> u \in payload
  /\ u \in leased' <=> u \in leased
  /\ InQueue(u)' <=> InQueue(u)
  /\ NotAsking(u) => NotAsking(u)'
  /\ InPlay(u)' => InPlay(u)
  /\ u \in contested => u \in contested'
  /\ Hand(u)' <=> Hand(u)
  /\ Hand(u) => sched' = sched

LEMMA OtherTurn ==
  ASSUME NEW u \in Turn, TurnOK(u), SameTurn(u)
  PROVE  TurnOK(u)' /\ (u \in Live' => u \in Live)
<1>1. Unborn(u)'
  BY DEF TurnOK, SameTurn, Unborn
<1>2. BeforeItsStart(u)'
  BY DEF TurnOK, SameTurn, BeforeItsStart
<1>3. QueuedIsKept(u)'
  BY DEF TurnOK, SameTurn, QueuedIsKept
<1>4. InHand(u)'
  BY DEF TurnOK, SameTurn, InHand
<1>5. PlaysFair(u)'
  BY DEF TurnOK, SameTurn, PlaysFair
<1> QED
  BY <1>1, <1>2, <1>3, <1>4, <1>5 DEF TurnOK, SameTurn, Live

\* The slots stay right when no turn comes to hold one.
LEMMA NoNewLive ==
  ASSUME TypeOK, SlotsOK, \A t \in Turn : t \in Live' => t \in Live,
         sched'.pc = "admitted" => sched' = sched
  PROVE  SlotsOK'
<1>1. Live' \in SUBSET Live
  BY DEF Live
<1>2. IsFiniteSet(Live) /\ IsFiniteSet(Live')
  BY SchedulerAssumption, <1>1, FS_Subset DEF Live
<1>3. /\ Cardinality(Live') <= Cardinality(Live)
      /\ Cardinality(Live) \in Nat /\ Cardinality(Live') \in Nat
  BY <1>1, <1>2, FS_Subset, FS_CardinalityType
<1>4. Quota \in Nat
  BY SchedulerAssumption
<1>5. Cardinality(Live') <= Quota
  BY <1>3, <1>4 DEF SlotsOK
<1>6. \A t, u \in Live' : SessionOf[t] = SessionOf[u] => t = u
  BY <1>1 DEF SlotsOK
<1>7. sched'.pc = "admitted" /\ ~sched'.queued => Cardinality(Live') < Quota
  BY <1>3, <1>4 DEF SlotsOK
<1>8. sched'.pc = "admitted" /\ ~sched'.queued =>
        \A t \in Live' : SessionOf[t] # SessionOf[sched'.turn]
  BY <1>1 DEF SlotsOK
<1> QED
  BY <1>5, <1>6, <1>7, <1>8 DEF SlotsOK

\* A step of one turn that starts nothing.
Calm == \A t \in Turn : job[t] = "queued" => job'[t] # "running"

LEMMA OneTurnMoves ==
  ASSUME Inv, NEW t \in Turn, TypeOK', LockOK', QueuesOK',
         \A r \in Responder : ResponseOK(r)',
         \A u \in Turn \ {t} : SameTurn(u),
         TurnOK(t)', t \in Live' => t \in Live, job[t] = "queued" => job'[t] # "running",
         sched'.pc = "admitted" => sched' = sched
  PROVE  Inv' /\ Calm
<1>1. TypeOK /\ SlotsOK /\ \A u \in Turn : TurnOK(u)
  BY DEF Inv
<1>2. \A u \in Turn \ {t} : TurnOK(u)' /\ (u \in Live' => u \in Live)
  BY <1>1, OtherTurn
<1>3. \A u \in Turn : TurnOK(u)' /\ (u \in Live' => u \in Live)
  BY <1>2
<1>4. SlotsOK'
  BY <1>1, <1>3, NoNewLive
<1>5. Calm
  BY DEF Calm, SameTurn
<1> QED
  BY <1>3, <1>4, <1>5 DEF Inv

\* The queues stay in order when turns are only taken out of them.
LEMMA QueuesStaySorted ==
  ASSUME QueuesOK, stamp' = stamp, QueuesSorted(queue'),
         \A t \in Turn : InQueue(t)' => InQueue(t),
         sched' = sched \/ sched'.pc \notin {"admitted", "entered"}
  PROVE  QueuesOK'
<1>1. \A s \in Session :
        /\ \A i \in 1..Len(queue'[s]) : SessionOf[queue'[s][i]] = s
        /\ \A i, j \in 1..Len(queue'[s]) : i < j => stamp'[queue'[s][i]] < stamp'[queue'[s][j]]
  BY DEF QueuesSorted, SortedFor
<1>2. sched'.pc \in {"admitted", "entered"} /\ sched'.queued =>
        \A t \in Turn : InQueue(t)' => stamp'[t] < stamp'[sched'.turn]
  BY DEF QueuesOK
<1>3. /\ \A t \in Turn : stamp'[t] <= Cardinality(Stamped')
      /\ \A t, u \in Turn : stamp'[t] # 0 /\ stamp'[t] = stamp'[u] => t = u
  <2>1. Stamped' = Stamped
    BY DEF Stamped
  <2> QED
    BY <2>1 DEF QueuesOK
<1> QED
  BY <1>1, <1>2, <1>3 DEF QueuesOK

LEMMA QueuesUntouched ==
  ASSUME QueuesOK, stamp' = stamp, queue' = queue,
         sched' = sched \/ sched'.pc \notin {"admitted", "entered"}
  PROVE  QueuesOK'
<1>1. QueuesSorted(queue')
  BY DEF QueuesOK, QueuesSorted, SortedFor
<1>2. \A t \in Turn : InQueue(t)' => InQueue(t)
  BY DEF InQueue
<1> QED
  BY <1>1, <1>2, QueuesStaySorted

LEMMA QueuesSortedNow ==
  ASSUME QueuesOK PROVE QueuesSorted(queue)
BY DEF QueuesOK, QueuesSorted, SortedFor

\* What MarkStatus does: to the turn, to its place in its queue, to the rest.
LEMMA MarkStatusEffect ==
  ASSUME TypeOK, QueuesOK, NEW t \in Turn, NEW s \in Status, MarkStatus(t, s), stamp' = stamp
  PROVE  /\ job' \in [Turn -> JobStatus] /\ index' \in [Turn -> JobStatus]
         /\ record' \in [Turn -> JobStatus] /\ queue' \in [Session -> Seq(Turn)]
         /\ payload' \subseteq Turn /\ leased' \subseteq Turn
         /\ job'[t] = IF job[t] = NoJob THEN NoJob ELSE s
         /\ index'[t] = s /\ (record'[t] = NoJob => record[t] = NoJob)
         /\ t \in payload' <=> t \in payload /\ ~IsTerminal(s)
         /\ t \in leased' <=> t \in leased /\ ~IsTerminal(s)
         /\ InQueue(t)' <=> InQueue(t) /\ ~IsTerminal(s)
         /\ QueuesSorted(queue')
         /\ \A u \in Turn : InQueue(u)' => InQueue(u)
         /\ \A u \in Turn \ {t} :
              /\ job'[u] = job[u] /\ index'[u] = index[u] /\ record'[u] = record[u]
              /\ u \in payload' <=> u \in payload
              /\ u \in leased' <=> u \in leased
              /\ InQueue(u)' <=> InQueue(u)
<1>1. s \in JobStatus /\ s # NoJob
  BY Statuses
<1>2. /\ index' \in [Turn -> JobStatus] /\ record' \in [Turn -> JobStatus] /\ index'[t] = s
      /\ \A u \in Turn \ {t} : index'[u] = index[u] /\ record'[u] = record[u]
      /\ record'[t] = NoJob => record[t] = NoJob
  BY <1>1, SaveOne DEF MarkStatus
<1>3. /\ job' \in [Turn -> JobStatus]
      /\ job'[t] = IF job[t] = NoJob THEN NoJob ELSE s
      /\ \A u \in Turn \ {t} : job'[u] = job[u]
  BY <1>1 DEF MarkStatus, TypeOK
<1>4. QueuesSorted(queue)
  BY QueuesSortedNow
<1>5. CASE IsTerminal(s)
  <2>1. /\ queue' = [r \in Session |-> Retain(queue[r], Turn \ {t})]
        /\ payload' = payload \ {t} /\ leased' = leased \ {t}
    BY <1>5 DEF MarkStatus, Forget
  <2>2. /\ queue' \in [Session -> Seq(Turn)] /\ QueuesSorted(queue')
        /\ \A u \in Turn : InQueue(u)' <=> InQueue(u) /\ u \in Turn \ {t}
    BY <2>1, RetainedInQueue
  <2> QED
    BY <1>2, <1>3, <1>5, <2>1, <2>2 DEF TypeOK
<1>6. CASE ~IsTerminal(s)
  <2>1. queue' = queue /\ payload' = payload /\ leased' = leased
    BY <1>6 DEF MarkStatus
  <2>2. \A u \in Turn : InQueue(u)' <=> InQueue(u)
    BY <2>1 DEF InQueue
  <2> QED
    BY <1>2, <1>3, <1>4, <1>6, <2>1, <2>2 DEF TypeOK
<1> QED
  BY <1>5, <1>6

\* What MarkState does: the job of a turn that is not queued takes the status,
\* or stays as it was when it has ended.
LEMMA MarkStateEffect ==
  ASSUME TypeOK, NEW t \in Turn, NEW s \in {"running", "waiting"}, MarkState(t, s),
         job[t] # "queued", record[t] # NoJob
  PROVE  /\ job' \in [Turn -> JobStatus] /\ index' \in [Turn -> JobStatus]
         /\ record' \in [Turn -> JobStatus]
         /\ queue' = queue /\ payload' = payload /\ leased' = leased
         /\ job[t] = NoJob => job'[t] = NoJob
         /\ IsTerminal(job[t]) => job'[t] = job[t]
         /\ IsActive(job[t]) => job'[t] = s
         /\ record'[t] # NoJob
         /\ \A u \in Turn \ {t} :
              job'[u] = job[u] /\ index'[u] = index[u] /\ record'[u] = record[u]
         /\ \A u \in Turn : InQueue(u)' <=> InQueue(u)
<1> DEFINE known == IF job[t] = NoJob THEN index[t] ELSE job[t]
           new == IF CanTransition(known, s) THEN s ELSE known
<1>1. /\ job' = IF job[t] = NoJob THEN job ELSE [job EXCEPT ![t] = new]
      /\ Save([u \in {t} |-> new])
      /\ queue' = queue /\ payload' = payload /\ leased' = leased
  BY DEF MarkState
<1>2. s \in JobStatus /\ known \in JobStatus /\ new \in JobStatus
  BY Statuses DEF TypeOK
<1>3. IsActive(job[t]) => job[t] \in {"running", "waiting"}
  BY DEF TypeOK, JobStatus, Status, IsActive, IsTerminal
<1>4. IsActive(job[t]) => new = s
  BY <1>3, Statuses, Transitions
<1>5. IsTerminal(job[t]) => new = job[t]
  BY Statuses, Transitions
<1>6. /\ index' = [u \in Turn |-> IF u \in DOMAIN [v \in {t} |-> new] THEN new ELSE index[u]]
      /\ record'[t] = IF CanTransition(record[t], new) THEN new ELSE record[t]
  BY <1>1 DEF Save
<1>7. new = NoJob => ~CanTransition(record[t], new)
  BY Transitions DEF TypeOK, JobStatus
<1> HIDE DEF new, known
<1>8. /\ index' \in [Turn -> JobStatus] /\ record' \in [Turn -> JobStatus]
      /\ \A u \in Turn \ {t} : index'[u] = index[u] /\ record'[u] = record[u]
  BY <1>1, <1>2, SaveOne
<1>9. /\ job' \in [Turn -> JobStatus]
      /\ job'[t] = IF job[t] = NoJob THEN NoJob ELSE new
      /\ \A u \in Turn \ {t} : job'[u] = job[u]
  BY <1>1, <1>2 DEF TypeOK
<1>10. \A u \in Turn : InQueue(u)' <=> InQueue(u)
  BY <1>1 DEF InQueue
<1>11. IsTerminal(job[t]) \/ IsActive(job[t]) => job[t] # NoJob
  BY Statuses
<1> QED
  BY <1>1, <1>4, <1>5, <1>6, <1>7, <1>8, <1>9, <1>10, <1>11

\* A response stays right while its turn does not lose an event or its answer
\* to a new request.
LEMMA ResponseStands ==
  ASSUME TypeOK, NEW r \in Responder, OwnResponseOK(r), resp'[r] = resp[r],
         contested \subseteq contested',
         \A t \in Turn : event[t] # "none" => event'[t] # "none",
         \A t \in Turn : pending'[SessionOf[t]] = t =>
           pending[SessionOf[t]] = t \/ resp[r].turn # t \/ t \in contested'
  PROVE  OwnResponseOK(r)'
<1>1. resp[r] \in [pc : {"idle", "tool", "loop", "stop"},
                   turn : Turn \cup {NoTurn}, outcome : Outcome]
  BY DEF TypeOK
<1>2. /\ resp'[r].pc = "idle" <=> resp'[r].turn = NoTurn
      /\ resp'[r].pc = "idle" => resp'[r] = Idle
  BY DEF OwnResponseOK
<1>3. resp'[r].pc = "stop" => /\ resp'[r].outcome # "none"
                              /\ resp'[r].outcome # "waiting" => event'[resp'[r].turn] # "none"
  BY <1>1 DEF OwnResponseOK
<1>4. resp'[r].pc = "loop" /\ resp'[r].turn \notin contested' =>
        pending'[SessionOf[resp'[r].turn]] # resp'[r].turn
  BY <1>1 DEF OwnResponseOK
<1> QED
  BY <1>2, <1>3, <1>4 DEF OwnResponseOK

LEMMA ResponsesStand ==
  ASSUME TypeOK, \A r \in Responder : ResponseOK(r), resp' = resp,
         contested \subseteq contested',
         \A t \in Turn : event[t] # "none" => event'[t] # "none",
         \A t \in Turn : pending'[SessionOf[t]] = t =>
           pending[SessionOf[t]] = t \/ \A r \in Responder : resp[r].turn # t
  PROVE  \A r \in Responder : ResponseOK(r)'
<1> SUFFICES ASSUME NEW r \in Responder PROVE ResponseOK(r)'
  OBVIOUS
<1>1. OwnResponseOK(r)
  BY DEF ResponseOK
<1>2. OwnResponseOK(r)'
  BY <1>1, ResponseStands
<1>3. \A o \in Responder \ {r}, t \in Turn :
        Answering(r, t)' /\ Answering(o, t)' => t \in contested'
  BY DEF ResponseOK, Answering
<1> QED
  BY <1>2, <1>3 DEF ResponseOK

\* The same of the other responses, when one of them goes on.
LEMMA OneResponds ==
  ASSUME TypeOK, \A o \in Responder : ResponseOK(o), NEW r \in Responder,
         OwnResponseOK(r)', \A o \in Responder \ {r} : resp'[o] = resp[o],
         contested \subseteq contested',
         \A t \in Turn : event[t] # "none" => event'[t] # "none",
         \A t \in Turn : pending'[SessionOf[t]] = t =>
           \/ pending[SessionOf[t]] = t
           \/ \A o \in Responder \ {r} : resp[o].pc = "loop" => resp[o].turn # t \/ t \in contested',
         \A o \in Responder \ {r}, t \in Turn :
           Answering(r, t)' /\ Answering(o, t) => t \in contested'
  PROVE  \A o \in Responder : ResponseOK(o)'
<1>1. \A o \in Responder : OwnResponseOK(o)
  BY DEF ResponseOK
<1>2. ASSUME NEW o \in Responder \ {r} PROVE OwnResponseOK(o)'
  <2>1. CASE resp[o].pc = "loop"
    <3>1. \A t \in Turn : pending'[SessionOf[t]] = t =>
            pending[SessionOf[t]] = t \/ resp[o].turn # t \/ t \in contested'
      BY <2>1
    <3> QED
      BY <1>1, <3>1, ResponseStands
  <2>2. CASE resp[o].pc # "loop"
    <3>1. /\ resp'[o] = resp[o] /\ OwnResponseOK(o)
          /\ resp[o].turn \in Turn \cup {NoTurn}
      BY <1>1 DEF TypeOK
    <3> QED
      BY <2>2, <3>1 DEF OwnResponseOK
  <2> QED
    BY <2>1, <2>2
<1>3. ASSUME NEW o \in Responder, NEW p \in Responder \ {o}, NEW t \in Turn,
             Answering(o, t)', Answering(p, t)'
      PROVE  t \in contested'
  <2>1. CASE o = r
    BY <1>3, <2>1 DEF Answering
  <2>2. CASE p = r
    BY <1>3, <2>2 DEF Answering
  <2>3. CASE o # r /\ p # r
    BY <1>3, <2>3 DEF ResponseOK, Answering
  <2> QED
    BY <2>1, <2>2, <2>3
<1> QED
  BY <1>2, <1>3 DEF ResponseOK

-----------------------------------------------------------------------------
(* The worker of a turn.                                                   *)

LEMMA WorkerStarts ==
  ASSUME Inv, NEW t \in Turn, SpawnWorker(t) \/ SpawnFails(t)
  PROVE  Inv' /\ Calm
<1>1. /\ TypeOK /\ LockOK /\ QueuesOK /\ TurnOK(t)
      /\ \A r \in Responder : ResponseOK(r)
  BY DEF Inv
<1>2. /\ thread[t] = "due" /\ thread'[t] \in {"run", "none"}
      /\ thread' \in [Turn -> {"none", "due", "run", "stop", "next"}]
      /\ starts'[t] = (IF thread'[t] = "run" THEN starts[t] + 1 ELSE starts[t])
      /\ starts' \in [Turn -> Nat]
      /\ \A u \in Turn \ {t} : thread'[u] = thread[u] /\ starts'[u] = starts[u]
  <2>1. /\ starts \in [Turn -> Nat]
        /\ thread \in [Turn -> {"none", "due", "run", "stop", "next"}]
    BY <1>1 DEF TypeOK
  <2>2. CASE SpawnWorker(t)
    BY <2>1, <2>2 DEF SpawnWorker
  <2>3. CASE SpawnFails(t)
    BY <2>1, <2>3 DEF SpawnFails, ghosts
  <2> QED
    BY <2>2, <2>3
<1>3. /\ up' = up /\ job' = job /\ cancelled' = cancelled /\ queue' = queue /\ sched' = sched
      /\ outcome' = outcome /\ resp' = resp /\ intr' = intr /\ index' = index
      /\ record' = record /\ payload' = payload /\ leased' = leased /\ pending' = pending
      /\ event' = event /\ stamp' = stamp /\ aged' = aged /\ asks' = asks
      /\ crashes' = crashes /\ contested' = contested
  BY DEF SpawnWorker, SpawnFails, files, ghosts
<1>4. TypeOK'
  BY <1>1, <1>2, <1>3 DEF TypeOK
<1>5. LockOK'
  BY <1>1, <1>2, <1>3 DEF LockOK
<1>6. QueuesOK'
  BY <1>1, <1>3, QueuesUntouched
<1>7. \A r \in Responder : ResponseOK(r)'
  BY <1>1, <1>3, ResponsesStand
<1>8. \A u \in Turn : /\ InQueue(u)' <=> InQueue(u)
                      /\ Hand(u)' <=> Hand(u)
                      /\ NotAsking(u)' <=> NotAsking(u)
  BY <1>3 DEF InQueue, Hand, NotAsking
<1>9. \A u \in Turn \ {t} : SameTurn(u)
  <2>1. \A u \in Turn \ {t} : InPlay(u)' => InPlay(u)
    BY <1>2, <1>3 DEF InPlay, Answering
  <2> QED
    BY <1>2, <1>3, <1>8, <2>1 DEF SameTurn
<1>10. TurnOK(t)'
  <2>1. starts[t] = 0 /\ stamp[t] = 0 /\ ~Hand(t) /\ NotAsking(t)
        /\ (intr[t] = "none" => job[t] = "running" /\ event[t] = "none")
    BY <1>1, <1>2 DEF TurnOK, BeforeItsStart
  <2>2. Unborn(t)'
    BY <1>1, <1>2, <1>3 DEF TurnOK, Unborn
  <2>3. BeforeItsStart(t)'
    BY <1>1, <1>2, <1>3, <1>8, <2>1 DEF TurnOK, BeforeItsStart
  <2>4. QueuedIsKept(t)'
    BY <1>1, <1>3, <1>8 DEF TurnOK, QueuedIsKept
  <2>5. InHand(t)'
    BY <1>8, <2>1 DEF InHand
  <2>6. PlaysFair(t)'
    BY <1>2, <1>3, <2>1, Statuses DEF PlaysFair
  <2> QED
    BY <2>2, <2>3, <2>4, <2>5, <2>6 DEF TurnOK
<1>11. t \in Live' => t \in Live
  BY <1>3 DEF Live
<1>12. job[t] = "queued" => job'[t] # "running"
  BY <1>3
<1>13. sched'.pc = "admitted" => sched' = sched
  BY <1>3
<1> QED
  BY <1>4, <1>5, <1>6, <1>7, <1>9, <1>10, <1>11, <1>12, <1>13, OneTurnMoves

\* A turn that was started is in no queue, and nobody starts it again.
LEMMA StartedTurn ==
  ASSUME NEW t \in Turn, TurnOK(t), ~NotAsking(t) \/ thread[t] \notin {"none", "due"}
  PROVE  /\ starts[t] # 0 /\ starts[t] \in {0, 1} /\ thread[t] # "due"
         /\ ~Hand(t) /\ ~InQueue(t) /\ t \notin payload
         /\ job[t] # "queued" /\ record[t] # NoJob
<1>1. starts[t] # 0 /\ starts[t] \in {0, 1}
  BY DEF TurnOK, BeforeItsStart
<1> QED
  BY <1>1 DEF TurnOK, BeforeItsStart, InHand, QueuedIsKept, Unborn

LEMMA WorkerAsks ==
  ASSUME Inv, NEW t \in Turn, Ask(t)
  PROVE  Inv' /\ Calm
<1>1. /\ TypeOK /\ LockOK /\ QueuesOK /\ TurnOK(t)
      /\ \A r \in Responder : ResponseOK(r)
  BY DEF Inv
<1>2. /\ thread[t] = "run" /\ asks' = [asks EXCEPT ![t] = @ + 1]
      /\ MarkState(t, "waiting")
      /\ pending' = [pending EXCEPT ![SessionOf[t]] = t]
      /\ thread' = [thread EXCEPT ![t] = "stop"]
      /\ outcome' = [outcome EXCEPT ![t] = "waiting"]
      /\ up' = up /\ cancelled' = cancelled /\ sched' = sched /\ resp' = resp /\ intr' = intr
      /\ event' = event /\ stamp' = stamp /\ aged' = aged /\ crashes' = crashes
      /\ starts' = starts /\ contested' = contested
  BY DEF Ask, ghosts
<1>3. /\ starts[t] # 0 /\ starts[t] \in {0, 1} /\ thread[t] # "due" /\ NotAsking(t)
      /\ ~Hand(t) /\ ~InQueue(t) /\ t \notin payload
      /\ job[t] # "queued" /\ record[t] # NoJob
  <2>1. NotAsking(t)
    BY <1>1, <1>2 DEF TurnOK, BeforeItsStart
  <2> QED
    BY <1>1, <1>2, <2>1, StartedTurn
<1>4. /\ job' \in [Turn -> JobStatus] /\ index' \in [Turn -> JobStatus]
      /\ record' \in [Turn -> JobStatus]
      /\ queue' = queue /\ payload' = payload /\ leased' = leased
      /\ job[t] = NoJob => job'[t] = NoJob
      /\ IsTerminal(job[t]) => job'[t] = job[t]
      /\ IsActive(job[t]) => job'[t] = "waiting"
      /\ record'[t] # NoJob
      /\ \A u \in Turn \ {t} :
           job'[u] = job[u] /\ index'[u] = index[u] /\ record'[u] = record[u]
      /\ \A u \in Turn : InQueue(u)' <=> InQueue(u)
  BY <1>1, <1>2, <1>3, MarkStateEffect
<1>5. /\ thread' \in [Turn -> {"none", "due", "run", "stop", "next"}] /\ thread'[t] = "stop"
      /\ outcome' \in [Turn -> Outcome] /\ outcome'[t] = "waiting"
      /\ pending' \in [Session -> Turn \cup {NoTurn}] /\ pending'[SessionOf[t]] = t
      /\ asks' \in [Turn -> Nat]
      /\ \A u \in Turn \ {t} : thread'[u] = thread[u] /\ outcome'[u] = outcome[u]
      /\ \A s \in Session : pending'[s] = IF s = SessionOf[t] THEN t ELSE pending[s]
  <2>1. /\ thread \in [Turn -> {"none", "due", "run", "stop", "next"}]
        /\ outcome \in [Turn -> Outcome] /\ asks \in [Turn -> Nat]
        /\ pending \in [Session -> Turn \cup {NoTurn}] /\ SessionOf[t] \in Session
    BY <1>1, SchedulerAssumption DEF TypeOK
  <2>2. asks' \in [Turn -> Nat]
    BY <1>2, <2>1
  <2> QED
    BY <1>2, <2>1, <2>2 DEF Outcome
<1>6. TypeOK'
  BY <1>1, <1>2, <1>4, <1>5 DEF TypeOK
<1>7. LockOK'
  BY <1>1, <1>2, <1>5 DEF LockOK
<1>8. QueuesOK'
  BY <1>1, <1>2, <1>4, QueuesUntouched
<1>9. \A r \in Responder : ResponseOK(r)'
  <2>1. \A u \in Turn : pending'[SessionOf[u]] = u =>
           pending[SessionOf[u]] = u \/ \A r \in Responder : resp[r].turn # u
    BY <1>3, <1>5, SchedulerAssumption DEF NotAsking
  <2> QED
    BY <1>1, <1>2, <2>1, ResponsesStand
<1>10. \A u \in Turn \ {t} : SameTurn(u)
  <2>1. ASSUME NEW u \in Turn \ {t}
        PROVE  /\ InPlay(u)' => InPlay(u)
               /\ NotAsking(u) => NotAsking(u)'
               /\ Hand(u)' <=> Hand(u)
    <3>1. SessionOf[u] \in Session
      BY SchedulerAssumption
    <3> QED
      BY <1>2, <1>5, <3>1 DEF InPlay, Answering, NotAsking, Hand
  <2> QED
    BY <1>2, <1>4, <1>5, <2>1 DEF SameTurn
<1>11. /\ IsActive(job'[t]) => IsActive(job[t])
       /\ IsTerminal(job'[t]) => IsTerminal(job[t])
       /\ job'[t] # "queued" /\ (job'[t] = NoJob => job[t] = NoJob)
  <2>1. job[t] = NoJob \/ IsTerminal(job[t]) \/ IsActive(job[t])
    BY <1>1, <1>3, Statuses DEF TypeOK
  <2> QED
    BY <1>4, <2>1, Statuses
<1>12. TurnOK(t)'
  <2>1. InPlay(t)
    BY <1>2 DEF InPlay
  <2>2. ~Hand(t)' /\ ~InQueue(t)' /\ Unborn(t)'
    BY <1>2, <1>3, <1>4 DEF Hand, Unborn
  <2>3. BeforeItsStart(t)'
    BY <1>2, <1>3, <1>4, <1>5, <2>2 DEF BeforeItsStart
  <2>4. QueuedIsKept(t)' /\ InHand(t)'
    BY <1>11, <2>2 DEF QueuedIsKept, InHand
  <2>5. PlaysFair(t)'
    BY <1>1, <1>2, <1>4, <1>5, <1>11, <2>1, Statuses DEF TurnOK, PlaysFair
  <2> QED
    BY <2>2, <2>3, <2>4, <2>5 DEF TurnOK
<1>13. t \in Live' => t \in Live
  BY <1>2, <1>11 DEF Live
<1>14. job[t] = "queued" => job'[t] # "running"
  BY <1>3
<1> QED
  BY <1>2, <1>6, <1>7, <1>8, <1>9, <1>10, <1>12, <1>13, <1>14, OneTurnMoves

LEMMA WorkerFinishes ==
  ASSUME Inv, NEW t \in Turn, Finish(t)
  PROVE  Inv' /\ Calm
<1>1. /\ TypeOK /\ LockOK /\ QueuesOK /\ TurnOK(t)
      /\ \A r \in Responder : ResponseOK(r)
  BY DEF Inv
<1>2. /\ thread[t] = "run" /\ thread' = [thread EXCEPT ![t] = "stop"]
      /\ up' = up /\ job' = job /\ cancelled' = cancelled /\ queue' = queue /\ sched' = sched
      /\ resp' = resp /\ intr' = intr /\ index' = index /\ record' = record
      /\ payload' = payload /\ leased' = leased /\ pending' = pending /\ stamp' = stamp
      /\ aged' = aged /\ asks' = asks /\ crashes' = crashes
      /\ starts' = starts /\ contested' = contested
  BY DEF Finish, ghosts
<1>3. PICK o \in Outcome \ {"none", "waiting"} :
        outcome' = [outcome EXCEPT ![t] = o] /\ event' = [event EXCEPT ![t] = o]
  BY DEF Finish, Results, Outcome
<1>4. /\ starts[t] # 0 /\ starts[t] \in {0, 1} /\ thread[t] # "due" /\ NotAsking(t)
      /\ ~Hand(t) /\ ~InQueue(t) /\ t \notin payload
      /\ job[t] # "queued" /\ record[t] # NoJob
  <2>1. NotAsking(t)
    BY <1>1, <1>2 DEF TurnOK, BeforeItsStart
  <2> QED
    BY <1>1, <1>2, <2>1, StartedTurn
<1>5. /\ thread' \in [Turn -> {"none", "due", "run", "stop", "next"}] /\ thread'[t] = "stop"
      /\ outcome' \in [Turn -> Outcome] /\ outcome'[t] = o
      /\ event' \in [Turn -> Outcome] /\ event'[t] = o
      /\ \A u \in Turn \ {t} :
           thread'[u] = thread[u] /\ outcome'[u] = outcome[u] /\ event'[u] = event[u]
  BY <1>1, <1>2, <1>3 DEF TypeOK
<1>6. TypeOK'
  BY <1>1, <1>2, <1>5 DEF TypeOK
<1>7. LockOK'
  BY <1>1, <1>2, <1>5 DEF LockOK
<1>8. QueuesOK'
  BY <1>1, <1>2, QueuesUntouched
<1>9. \A r \in Responder : ResponseOK(r)'
  BY <1>1, <1>2, <1>5, ResponsesStand
<1>10. \A u \in Turn : /\ InQueue(u)' <=> InQueue(u)
                       /\ Hand(u)' <=> Hand(u)
                       /\ NotAsking(u)' <=> NotAsking(u)
  BY <1>2 DEF InQueue, Hand, NotAsking
<1>11. \A u \in Turn \ {t} : SameTurn(u)
  <2>1. \A u \in Turn \ {t} : InPlay(u)' => InPlay(u)
    BY <1>2, <1>5 DEF InPlay, Answering
  <2> QED
    BY <1>2, <1>5, <1>10, <2>1 DEF SameTurn
<1>12. TurnOK(t)'
  <2>1. ~InPlay(t)'
    BY <1>2, <1>4, <1>5 DEF InPlay, Answering, NotAsking
  <2>2. ~Hand(t)' /\ ~InQueue(t)' /\ Unborn(t)'
    BY <1>2, <1>4, <1>10 DEF Unborn
  <2>3. BeforeItsStart(t)'
    BY <1>2, <1>4, <1>5, <2>2 DEF BeforeItsStart
  <2>4. QueuedIsKept(t)' /\ InHand(t)'
    BY <1>2, <1>4, <2>2 DEF QueuedIsKept, InHand
  <2>5. PlaysFair(t)'
    BY <1>5, <2>1 DEF PlaysFair
  <2> QED
    BY <2>2, <2>3, <2>4, <2>5 DEF TurnOK
<1>13. t \in Live' => t \in Live
  BY <1>5 DEF Live
<1> QED
  BY <1>2, <1>6, <1>7, <1>8, <1>9, <1>11, <1>12, <1>13, OneTurnMoves

LEMMA WorkerMarks ==
  ASSUME Inv, NEW t \in Turn, Mark(t)
  PROVE  Inv' /\ Calm
<1>1. /\ TypeOK /\ LockOK /\ QueuesOK /\ TurnOK(t)
      /\ \A r \in Responder : ResponseOK(r)
  BY DEF Inv
<1>2. /\ thread[t] = "stop" /\ thread' = [thread EXCEPT ![t] = "next"]
      /\ outcome' = [outcome EXCEPT ![t] = "none"]
      /\ MarkStatus(t, outcome[t])
      /\ up' = up /\ cancelled' = cancelled /\ sched' = sched /\ resp' = resp /\ intr' = intr
      /\ pending' = pending /\ event' = event /\ stamp' = stamp
      /\ aged' = aged /\ asks' = asks /\ crashes' = crashes
      /\ starts' = starts /\ contested' = contested
  BY DEF Mark, ghosts
<1>3. /\ starts[t] # 0 /\ starts[t] \in {0, 1} /\ thread[t] # "due"
      /\ ~Hand(t) /\ ~InQueue(t) /\ t \notin payload
      /\ job[t] # "queued" /\ record[t] # NoJob
  BY <1>1, <1>2, StartedTurn
<1>4. /\ outcome[t] \in Outcome \ {"none"}
      /\ outcome[t] # "waiting" => event[t] # "none" /\ IsTerminal(outcome[t])
      /\ outcome[t] \in Status
  BY <1>1, <1>2 DEF TypeOK, TurnOK, PlaysFair, Outcome, Status, IsTerminal, Terminal
<1>5. /\ job' \in [Turn -> JobStatus] /\ index' \in [Turn -> JobStatus]
      /\ record' \in [Turn -> JobStatus] /\ queue' \in [Session -> Seq(Turn)]
      /\ payload' \subseteq Turn /\ leased' \subseteq Turn
      /\ job'[t] = IF job[t] = NoJob THEN NoJob ELSE outcome[t]
      /\ record'[t] = NoJob => record[t] = NoJob
      /\ t \in payload' => t \in payload
      /\ QueuesSorted(queue')
      /\ \A u \in Turn : InQueue(u)' => InQueue(u)
      /\ \A u \in Turn \ {t} :
           /\ job'[u] = job[u] /\ index'[u] = index[u] /\ record'[u] = record[u]
           /\ u \in payload' <=> u \in payload
           /\ u \in leased' <=> u \in leased
           /\ InQueue(u)' <=> InQueue(u)
  BY <1>1, <1>2, <1>4, MarkStatusEffect
<1>6. /\ thread' \in [Turn -> {"none", "due", "run", "stop", "next"}] /\ thread'[t] = "next"
      /\ outcome' \in [Turn -> Outcome]
      /\ \A u \in Turn \ {t} : thread'[u] = thread[u] /\ outcome'[u] = outcome[u]
  BY <1>1, <1>2 DEF TypeOK, Outcome
<1>7. TypeOK'
  BY <1>1, <1>2, <1>5, <1>6 DEF TypeOK
<1>8. LockOK'
  BY <1>1, <1>2, <1>6 DEF LockOK
<1>9. QueuesOK'
  BY <1>1, <1>2, <1>5, QueuesStaySorted
<1>10. \A r \in Responder : ResponseOK(r)'
  BY <1>1, <1>2, ResponsesStand
<1>11. \A u \in Turn : /\ Hand(u)' <=> Hand(u)
                       /\ NotAsking(u)' <=> NotAsking(u)
                       /\ InPlay(u)' => InPlay(u)
  <2>1. \A u \in Turn : thread'[u] = "run" => thread[u] = "run"
    BY <1>6
  <2> QED
    BY <1>2, <2>1 DEF Hand, NotAsking, InPlay, Answering
<1>12. \A u \in Turn \ {t} : SameTurn(u)
  BY <1>2, <1>5, <1>6, <1>11 DEF SameTurn
<1>13. job'[t] # "queued" /\ (job'[t] = NoJob <=> job[t] = NoJob)
  BY <1>4, <1>5, Statuses, SchedulerAssumption DEF Outcome
<1>14. event[t] = "none" => outcome[t] = "waiting" /\ (job[t] # NoJob => job'[t] = "waiting")
  BY <1>4, <1>5
<1>15. TurnOK(t)'
  <2>1. ~Hand(t)' /\ ~InQueue(t)' /\ Unborn(t)'
    BY <1>3, <1>5, <1>11 DEF Unborn
  <2>2. BeforeItsStart(t)'
    BY <1>2, <1>3, <1>5, <1>6, <2>1 DEF BeforeItsStart
  <2>3. QueuedIsKept(t)' /\ InHand(t)'
    BY <1>13, <2>1 DEF QueuedIsKept, InHand
  <2>4. PlaysFair(t)'
    <3>1. /\ InPlay(t)' /\ intr[t] = "none" /\ job'[t] # NoJob /\ t \notin contested =>
               IsActive(job'[t]) /\ event[t] = "none"
      BY <1>1, <1>11, <1>13, <1>14, Statuses DEF TurnOK, PlaysFair
    <3>2. IsTerminal(job'[t]) => event[t] # "none"
      BY <1>5, <1>14, Statuses
    <3> QED
      BY <1>2, <1>6, <3>1, <3>2 DEF PlaysFair
  <2> QED
    BY <2>1, <2>2, <2>3, <2>4 DEF TurnOK
<1>16. t \in Live' => t \in Live
  <2> SUFFICES ASSUME t \in Live' PROVE t \in Live
    OBVIOUS
  <2>1. event[t] = "none" /\ intr[t] = "none" /\ t \notin contested /\ IsActive(job'[t])
    BY <1>2 DEF Live
  <2>2. job[t] # NoJob
    BY <1>5, <2>1, Statuses
  <2>3. ~IsTerminal(job[t])
    BY <1>1, <1>3, <2>1 DEF TurnOK, PlaysFair
  <2>4. IsActive(job[t])
    BY <1>1, <1>3, <2>2, <2>3, Statuses DEF TypeOK
  <2> QED
    BY <2>1, <2>4 DEF Live
<1> QED
  BY <1>2, <1>3, <1>7, <1>8, <1>9, <1>10, <1>12, <1>15, <1>16, OneTurnMoves

-----------------------------------------------------------------------------
(* The threads that answer approvals and questions.                        *)

\* The turn of a request was started; of one being answered, all the rest.
LEMMA AnsweredTurn ==
  ASSUME Inv, NEW r \in Responder, resp[r].pc # "idle"
  PROVE  resp[r].turn \in Turn /\ ~NotAsking(resp[r].turn)
BY DEF Inv, TypeOK, ResponseOK, OwnResponseOK, NotAsking

LEMMA Responds ==
  ASSUME Inv, NEW r \in Responder, NEW t \in Turn, Respond(r, t)
  PROVE  Inv' /\ Calm
<1>1. /\ TypeOK /\ LockOK /\ QueuesOK /\ TurnOK(t)
      /\ \A o \in Responder : ResponseOK(o)
  BY DEF Inv
<1>2. /\ resp[r] = Idle /\ pending[SessionOf[t]] = t
      /\ resp' = [resp EXCEPT ![r] = [pc |-> "tool", turn |-> t, outcome |-> "none"]]
      /\ contested' = Contested(r, t) /\ MarkState(t, "running")
      /\ up' = up /\ cancelled' = cancelled /\ sched' = sched /\ thread' = thread
      /\ outcome' = outcome /\ intr' = intr /\ pending' = pending /\ event' = event
      /\ stamp' = stamp /\ aged' = aged /\ asks' = asks /\ crashes' = crashes
      /\ starts' = starts
  BY DEF Respond
<1>3. /\ ~NotAsking(t) /\ thread[t] # "run"
      /\ starts[t] # 0 /\ starts[t] \in {0, 1} /\ thread[t] # "due"
      /\ ~Hand(t) /\ ~InQueue(t) /\ t \notin payload
      /\ job[t] # "queued" /\ record[t] # NoJob
  <2>1. ~NotAsking(t)
    BY <1>2 DEF NotAsking
  <2> QED
    BY <1>1, <2>1, StartedTurn DEF TurnOK, BeforeItsStart
<1>4. /\ job' \in [Turn -> JobStatus] /\ index' \in [Turn -> JobStatus]
      /\ record' \in [Turn -> JobStatus]
      /\ queue' = queue /\ payload' = payload /\ leased' = leased
      /\ job[t] = NoJob => job'[t] = NoJob
      /\ IsTerminal(job[t]) => job'[t] = job[t]
      /\ IsActive(job[t]) => job'[t] = "running"
      /\ record'[t] # NoJob
      /\ \A u \in Turn \ {t} :
           job'[u] = job[u] /\ index'[u] = index[u] /\ record'[u] = record[u]
      /\ \A u \in Turn : InQueue(u)' <=> InQueue(u)
  BY <1>1, <1>2, <1>3, MarkStateEffect
<1>5. /\ resp' \in [Responder -> [pc : {"idle", "tool", "loop", "stop"},
                                  turn : Turn \cup {NoTurn}, outcome : Outcome]]
      /\ resp'[r] = [pc |-> "tool", turn |-> t, outcome |-> "none"]
      /\ \A o \in Responder \ {r} : resp'[o] = resp[o]
  BY <1>1, <1>2 DEF TypeOK, Outcome
<1>6. /\ contested' \subseteq Turn /\ contested \subseteq contested'
      /\ \A u \in Turn \ {t} : u \in contested' => u \in contested
      /\ \A o \in Responder \ {r} : Answering(o, t) => t \in contested'
  BY <1>1, <1>2 DEF Contested, TypeOK, Answering
<1>7. TypeOK'
  BY <1>1, <1>2, <1>4, <1>5, <1>6 DEF TypeOK
<1>8. LockOK'
  BY <1>1, <1>2 DEF LockOK
<1>9. QueuesOK'
  BY <1>1, <1>2, <1>4, QueuesUntouched
<1>10. \A o \in Responder : ResponseOK(o)'
  <2>1. OwnResponseOK(r)'
    BY <1>5, SchedulerAssumption DEF OwnResponseOK
  <2>2. \A o \in Responder \ {r}, u \in Turn :
          Answering(r, u)' /\ Answering(o, u) => u \in contested'
    BY <1>5, <1>6 DEF Answering
  <2> QED
    BY <1>1, <1>2, <1>5, <1>6, <2>1, <2>2, OneResponds
<1>11. \A u \in Turn \ {t} : SameTurn(u)
  <2>1. ASSUME NEW u \in Turn \ {t}
        PROVE  /\ InPlay(u)' => InPlay(u)
               /\ NotAsking(u) => NotAsking(u)'
               /\ Hand(u)' <=> Hand(u)
    BY <1>2, <1>5 DEF InPlay, Answering, NotAsking, Hand
  <2> QED
    BY <1>2, <1>4, <1>6, <2>1 DEF SameTurn
<1>12. /\ IsActive(job'[t]) => IsActive(job[t])
       /\ IsTerminal(job'[t]) => IsTerminal(job[t])
       /\ job'[t] # "queued" /\ (job'[t] = NoJob => job[t] = NoJob)
  <2>1. job[t] = NoJob \/ IsTerminal(job[t]) \/ IsActive(job[t])
    BY <1>1, <1>3, Statuses DEF TypeOK
  <2> QED
    BY <1>4, <2>1, Statuses
<1>13. TurnOK(t)'
  <2>1. InPlay(t)
    BY <1>2 DEF InPlay
  <2>2. ~Hand(t)' /\ ~InQueue(t)' /\ Unborn(t)'
    BY <1>2, <1>3, <1>4 DEF Hand, Unborn
  <2>3. BeforeItsStart(t)'
    BY <1>2, <1>3, <1>4, <2>2 DEF BeforeItsStart
  <2>4. QueuedIsKept(t)' /\ InHand(t)'
    BY <1>12, <2>2 DEF QueuedIsKept, InHand
  <2>5. PlaysFair(t)'
    BY <1>1, <1>2, <1>4, <1>6, <1>12, <2>1, Statuses DEF TurnOK, PlaysFair
  <2> QED
    BY <2>2, <2>3, <2>4, <2>5 DEF TurnOK
<1>14. t \in Live' => t \in Live
  BY <1>2, <1>6, <1>12 DEF Live
<1> QED
  BY <1>2, <1>3, <1>7, <1>8, <1>9, <1>10, <1>11, <1>13, <1>14, OneTurnMoves

LEMMA Denies ==
  ASSUME Inv, NEW r \in Responder, NEW t \in Turn, Deny(r, t)
  PROVE  Inv' /\ Calm
<1>1. /\ TypeOK /\ LockOK /\ QueuesOK /\ TurnOK(t)
      /\ \A o \in Responder : ResponseOK(o)
  BY DEF Inv
<1>2. /\ resp[r] = Idle /\ pending[SessionOf[t]] = t
      /\ resp' = [resp EXCEPT ![r] = [pc |-> "stop", turn |-> t, outcome |-> "failed"]]
      /\ pending' = [pending EXCEPT ![SessionOf[t]] = NoTurn]
      /\ event' = [event EXCEPT ![t] = "failed"]
      /\ contested' = Contested(r, t)
      /\ up' = up /\ job' = job /\ cancelled' = cancelled /\ queue' = queue /\ sched' = sched
      /\ thread' = thread /\ outcome' = outcome /\ intr' = intr /\ index' = index
      /\ record' = record /\ payload' = payload /\ leased' = leased /\ stamp' = stamp
      /\ aged' = aged /\ asks' = asks /\ crashes' = crashes /\ starts' = starts
  BY DEF Deny
<1>3. /\ ~NotAsking(t) /\ thread[t] # "run"
      /\ starts[t] # 0 /\ starts[t] \in {0, 1} /\ thread[t] # "due"
      /\ ~Hand(t) /\ ~InQueue(t) /\ t \notin payload
      /\ job[t] # "queued" /\ record[t] # NoJob
  <2>1. ~NotAsking(t)
    BY <1>2 DEF NotAsking
  <2> QED
    BY <1>1, <2>1, StartedTurn DEF TurnOK, BeforeItsStart
<1>4. \A u \in Turn : SessionOf[u] \in Session
  BY SchedulerAssumption
<1>5. /\ resp' \in [Responder -> [pc : {"idle", "tool", "loop", "stop"},
                                  turn : Turn \cup {NoTurn}, outcome : Outcome]]
      /\ resp'[r] = [pc |-> "stop", turn |-> t, outcome |-> "failed"]
      /\ \A o \in Responder \ {r} : resp'[o] = resp[o]
  BY <1>1, <1>2 DEF TypeOK, Outcome
<1>6. /\ contested' \subseteq Turn /\ contested \subseteq contested'
      /\ \A u \in Turn \ {t} : u \in contested' => u \in contested
      /\ \A o \in Responder \ {r} : Answering(o, t) => t \in contested'
  BY <1>1, <1>2 DEF Contested, TypeOK, Answering
<1>7. /\ pending' \in [Session -> Turn \cup {NoTurn}]
      /\ \A s \in Session : pending'[s] = IF s = SessionOf[t] THEN NoTurn ELSE pending[s]
      /\ event' \in [Turn -> Outcome] /\ event'[t] = "failed"
      /\ \A u \in Turn \ {t} : event'[u] = event[u]
  BY <1>1, <1>2, <1>4 DEF TypeOK, Outcome
<1>8. TypeOK'
  BY <1>1, <1>2, <1>5, <1>6, <1>7 DEF TypeOK
<1>9. LockOK'
  BY <1>1, <1>2, <1>7 DEF LockOK
<1>10. QueuesOK'
  BY <1>1, <1>2, QueuesUntouched
<1>11. \A o \in Responder : ResponseOK(o)'
  <2>1. OwnResponseOK(r)'
    BY <1>5, <1>7, SchedulerAssumption DEF OwnResponseOK
  <2>2. \A o \in Responder \ {r}, u \in Turn :
          Answering(r, u)' /\ Answering(o, u) => u \in contested'
    BY <1>5 DEF Answering
  <2>3. \A u \in Turn : pending'[SessionOf[u]] = u => pending[SessionOf[u]] = u
    BY <1>4, <1>7, SchedulerAssumption
  <2>4. \A u \in Turn : event[u] # "none" => event'[u] # "none"
    BY <1>7
  <2> QED
    BY <1>1, <1>5, <1>6, <2>1, <2>2, <2>3, <2>4, OneResponds
<1>12. \A u \in Turn : /\ Hand(u)' <=> Hand(u)
                       /\ InQueue(u)' <=> InQueue(u)
  BY <1>2 DEF Hand, InQueue
<1>13. \A u \in Turn \ {t} : SameTurn(u)
  <2>1. ASSUME NEW u \in Turn \ {t}
        PROVE  /\ InPlay(u)' => InPlay(u)
               /\ NotAsking(u) => NotAsking(u)'
    BY <1>2, <1>4, <1>5, <1>7, SchedulerAssumption DEF InPlay, Answering, NotAsking
  <2> QED
    BY <1>2, <1>6, <1>7, <1>12, <2>1 DEF SameTurn
<1>14. TurnOK(t)'
  <2>1. ~Hand(t)' /\ ~InQueue(t)' /\ Unborn(t)'
    BY <1>2, <1>3 DEF Hand, InQueue, Unborn
  <2>2. BeforeItsStart(t)'
    BY <1>2, <1>3, <2>1 DEF BeforeItsStart
  <2>3. QueuedIsKept(t)' /\ InHand(t)'
    BY <1>2, <1>3, <2>1 DEF QueuedIsKept, InHand
  <2>4. InPlay(t)' => t \in contested'
    BY <1>2, <1>3, <1>4, <1>5, <1>6, <1>7, SchedulerAssumption DEF InPlay, Answering
  <2>5. PlaysFair(t)'
    BY <1>1, <1>2, <1>7, <2>4 DEF TurnOK, PlaysFair
  <2> QED
    BY <2>1, <2>2, <2>3, <2>5 DEF TurnOK
<1>15. t \in Live' => t \in Live
  BY <1>7 DEF Live
<1> QED
  BY <1>2, <1>3, <1>8, <1>9, <1>10, <1>11, <1>13, <1>14, <1>15, OneTurnMoves

LEMMA ToolIsDone ==
  ASSUME Inv, NEW r \in Responder, ToolDone(r)
  PROVE  Inv' /\ Calm
<1> SUFFICES ASSUME NEW t, t = resp[r].turn PROVE Inv' /\ Calm
  OBVIOUS
<1>1. /\ TypeOK /\ LockOK /\ QueuesOK /\ resp[r].pc = "tool"
      /\ \A o \in Responder : ResponseOK(o)
  BY DEF Inv, ToolDone
<1>2. /\ resp' = [resp EXCEPT ![r].pc = "loop"]
      /\ pending' = [pending EXCEPT ![SessionOf[t]] = NoTurn]
      /\ up' = up /\ job' = job /\ cancelled' = cancelled /\ queue' = queue /\ sched' = sched
      /\ thread' = thread /\ outcome' = outcome /\ intr' = intr /\ index' = index
      /\ record' = record /\ payload' = payload /\ leased' = leased /\ event' = event
      /\ stamp' = stamp /\ aged' = aged /\ asks' = asks /\ crashes' = crashes
      /\ starts' = starts /\ contested' = contested
  BY DEF ToolDone, ghosts
<1>3. t \in Turn /\ ~NotAsking(t)
  BY <1>1, AnsweredTurn
<1>4. \A u \in Turn : SessionOf[u] \in Session
  BY SchedulerAssumption
<1>5. /\ resp' \in [Responder -> [pc : {"idle", "tool", "loop", "stop"},
                                  turn : Turn \cup {NoTurn}, outcome : Outcome]]
      /\ resp'[r].pc = "loop" /\ resp'[r].turn = t
      /\ \A o \in Responder \ {r} : resp'[o] = resp[o]
  BY <1>1, <1>2 DEF TypeOK
<1>6. /\ pending' \in [Session -> Turn \cup {NoTurn}]
      /\ \A s \in Session : pending'[s] = IF s = SessionOf[t] THEN NoTurn ELSE pending[s]
  BY <1>1, <1>2, <1>3, <1>4 DEF TypeOK
<1>7. TypeOK'
  BY <1>1, <1>2, <1>5, <1>6 DEF TypeOK
<1>8. LockOK'
  BY <1>1, <1>2, <1>6 DEF LockOK
<1>9. QueuesOK'
  BY <1>1, <1>2, QueuesUntouched
<1>10. \A u \in Turn : pending'[SessionOf[u]] = u => pending[SessionOf[u]] = u
  BY <1>4, <1>6, SchedulerAssumption
<1>11. \A o \in Responder, u \in Turn : Answering(o, u)' <=> Answering(o, u)
  BY <1>1, <1>5 DEF Answering
<1>12. \A o \in Responder : ResponseOK(o)'
  <2>1. OwnResponseOK(r)'
    BY <1>3, <1>4, <1>5, <1>6, SchedulerAssumption DEF OwnResponseOK
  <2>2. \A o \in Responder \ {r}, u \in Turn :
          Answering(r, u)' /\ Answering(o, u) => u \in contested'
    BY <1>1, <1>2, <1>11 DEF ResponseOK
  <2> QED
    BY <1>1, <1>2, <1>5, <1>10, <2>1, <2>2, OneResponds
<1>13. \A u \in Turn : SameTurn(u)
  <2>1. ASSUME NEW u \in Turn
        PROVE  /\ InPlay(u)' => InPlay(u)
               /\ NotAsking(u) => NotAsking(u)'
               /\ Hand(u)' <=> Hand(u)
               /\ InQueue(u)' <=> InQueue(u)
    BY <1>1, <1>2, <1>5, <1>10, <1>11 DEF InPlay, NotAsking, Hand, InQueue
  <2> QED
    BY <1>2, <2>1 DEF SameTurn
<1>14. TurnOK(t)' /\ (t \in Live' => t \in Live)
  BY <1>3, <1>13, OtherTurn DEF Inv
<1> QED
  BY <1>2, <1>3, <1>7, <1>8, <1>9, <1>12, <1>13, <1>14, OneTurnMoves

LEMMA AsksAgain ==
  ASSUME Inv, NEW r \in Responder, AskAgain(r)
  PROVE  Inv' /\ Calm
<1> SUFFICES ASSUME NEW t, t = resp[r].turn PROVE Inv' /\ Calm
  OBVIOUS
<1>1. /\ TypeOK /\ LockOK /\ QueuesOK /\ resp[r].pc = "loop"
      /\ \A o \in Responder : ResponseOK(o)
  BY DEF Inv, AskAgain
<1>2. /\ asks' = [asks EXCEPT ![t] = @ + 1] /\ MarkState(t, "waiting")
      /\ pending' = [pending EXCEPT ![SessionOf[t]] = t]
      /\ resp' = [resp EXCEPT ![r] = [@ EXCEPT !.pc = "stop", !.outcome = "waiting"]]
      /\ up' = up /\ cancelled' = cancelled /\ sched' = sched /\ thread' = thread
      /\ outcome' = outcome /\ intr' = intr /\ event' = event /\ stamp' = stamp
      /\ aged' = aged /\ crashes' = crashes /\ starts' = starts /\ contested' = contested
  BY DEF AskAgain, ghosts
<1>3. t \in Turn /\ ~NotAsking(t)
  BY <1>1, AnsweredTurn
<1>4. TurnOK(t)
  BY <1>3 DEF Inv
<1>5. /\ thread[t] # "run"
      /\ starts[t] # 0 /\ starts[t] \in {0, 1} /\ thread[t] # "due"
      /\ ~Hand(t) /\ ~InQueue(t) /\ t \notin payload
      /\ job[t] # "queued" /\ record[t] # NoJob
  BY <1>3, <1>4, StartedTurn DEF TurnOK, BeforeItsStart
<1>6. /\ job' \in [Turn -> JobStatus] /\ index' \in [Turn -> JobStatus]
      /\ record' \in [Turn -> JobStatus]
      /\ queue' = queue /\ payload' = payload /\ leased' = leased
      /\ job[t] = NoJob => job'[t] = NoJob
      /\ IsTerminal(job[t]) => job'[t] = job[t]
      /\ IsActive(job[t]) => job'[t] = "waiting"
      /\ record'[t] # NoJob
      /\ \A u \in Turn \ {t} :
           job'[u] = job[u] /\ index'[u] = index[u] /\ record'[u] = record[u]
      /\ \A u \in Turn : InQueue(u)' <=> InQueue(u)
  BY <1>1, <1>2, <1>3, <1>5, MarkStateEffect
<1>7. \A u \in Turn : SessionOf[u] \in Session
  BY SchedulerAssumption
<1>8. /\ resp' \in [Responder -> [pc : {"idle", "tool", "loop", "stop"},
                                  turn : Turn \cup {NoTurn}, outcome : Outcome]]
      /\ resp'[r].pc = "stop" /\ resp'[r].turn = t /\ resp'[r].outcome = "waiting"
      /\ \A o \in Responder \ {r} : resp'[o] = resp[o]
  <2>1. resp[r] \in [pc : {"idle", "tool", "loop", "stop"},
                     turn : Turn \cup {NoTurn}, outcome : Outcome]
    BY <1>1 DEF TypeOK
  <2>2. resp'[r] = [pc |-> "stop", turn |-> t, outcome |-> "waiting"]
    BY <1>1, <1>2, <2>1 DEF TypeOK
  <2> QED
    BY <1>1, <1>2, <1>3, <2>2 DEF TypeOK, Outcome
<1>9. /\ pending' \in [Session -> Turn \cup {NoTurn}]
      /\ \A s \in Session : pending'[s] = IF s = SessionOf[t] THEN t ELSE pending[s]
  BY <1>1, <1>2, <1>3, <1>7 DEF TypeOK
<1>10. asks' \in [Turn -> Nat]
  BY <1>1, <1>2, <1>3 DEF TypeOK
<1>11. Answering(r, t)
  BY <1>1 DEF Answering
<1>12. TypeOK'
  BY <1>1, <1>2, <1>6, <1>8, <1>9, <1>10 DEF TypeOK
<1>13. LockOK'
  BY <1>1, <1>2, <1>3, <1>9 DEF LockOK
<1>14. QueuesOK'
  BY <1>1, <1>2, <1>6, QueuesUntouched
<1>15. \A o \in Responder : ResponseOK(o)'
  <2>1. OwnResponseOK(r)'
    BY <1>3, <1>8, SchedulerAssumption DEF OwnResponseOK
  <2>2. \A o \in Responder \ {r}, u \in Turn :
          Answering(r, u)' /\ Answering(o, u) => u \in contested'
    BY <1>8 DEF Answering
  <2>3. \A o \in Responder \ {r} : resp[o].pc = "loop" => resp[o].turn # t \/ t \in contested'
    BY <1>1, <1>2, <1>3, <1>11 DEF ResponseOK, Answering
  <2>4. \A u \in Turn : pending'[SessionOf[u]] = u =>
           \/ pending[SessionOf[u]] = u
           \/ \A o \in Responder \ {r} : resp[o].pc = "loop" => resp[o].turn # u \/ u \in contested'
    BY <1>7, <1>9, <2>3
  <2> QED
    BY <1>1, <1>2, <1>8, <2>1, <2>2, <2>4, OneResponds
<1>16. \A u \in Turn \ {t} : SameTurn(u)
  <2>1. ASSUME NEW u \in Turn \ {t}
        PROVE  /\ InPlay(u)' => InPlay(u)
               /\ NotAsking(u) => NotAsking(u)'
               /\ Hand(u)' <=> Hand(u)
    BY <1>2, <1>7, <1>8, <1>9 DEF InPlay, Answering, NotAsking, Hand
  <2> QED
    BY <1>2, <1>6, <2>1 DEF SameTurn
<1>17. /\ IsActive(job'[t]) => IsActive(job[t])
       /\ IsTerminal(job'[t]) => IsTerminal(job[t])
       /\ job'[t] # "queued" /\ (job'[t] = NoJob => job[t] = NoJob)
  <2>1. job[t] = NoJob \/ IsTerminal(job[t]) \/ IsActive(job[t])
    BY <1>1, <1>3, <1>5, Statuses DEF TypeOK
  <2> QED
    BY <1>6, <2>1, Statuses
<1>18. TurnOK(t)'
  <2>1. InPlay(t)
    BY <1>11 DEF InPlay
  <2>2. ~Hand(t)' /\ ~InQueue(t)' /\ Unborn(t)'
    BY <1>2, <1>3, <1>5, <1>6 DEF Hand, Unborn
  <2>3. BeforeItsStart(t)'
    BY <1>2, <1>5, <1>6, <2>2 DEF BeforeItsStart
  <2>4. QueuedIsKept(t)' /\ InHand(t)'
    BY <1>17, <2>2 DEF QueuedIsKept, InHand
  <2>5. PlaysFair(t)'
    BY <1>2, <1>4, <1>6, <1>17, <2>1, Statuses DEF TurnOK, PlaysFair
  <2> QED
    BY <2>2, <2>3, <2>4, <2>5 DEF TurnOK
<1>19. t \in Live' => t \in Live
  BY <1>2, <1>3, <1>17 DEF Live
<1> QED
  BY <1>2, <1>3, <1>5, <1>12, <1>13, <1>14, <1>15, <1>16, <1>18, <1>19, OneTurnMoves

LEMMA LoopFinishes ==
  ASSUME Inv, NEW r \in Responder, FinishLoop(r)
  PROVE  Inv' /\ Calm
<1> SUFFICES ASSUME NEW t, t = resp[r].turn PROVE Inv' /\ Calm
  OBVIOUS
<1>1. /\ TypeOK /\ LockOK /\ QueuesOK /\ resp[r].pc = "loop"
      /\ \A o \in Responder : ResponseOK(o)
  BY DEF Inv, FinishLoop
<1>2. /\ up' = up /\ job' = job /\ cancelled' = cancelled /\ queue' = queue /\ sched' = sched
      /\ thread' = thread /\ outcome' = outcome /\ intr' = intr /\ index' = index
      /\ record' = record /\ payload' = payload /\ leased' = leased /\ pending' = pending
      /\ stamp' = stamp /\ aged' = aged /\ asks' = asks /\ crashes' = crashes
      /\ starts' = starts /\ contested' = contested
  BY DEF FinishLoop, ghosts
<1>3. PICK o \in Outcome \ {"none", "waiting"} :
        /\ resp' = [resp EXCEPT ![r] = [@ EXCEPT !.pc = "stop", !.outcome = o]]
        /\ event' = [event EXCEPT ![t] = o]
  BY DEF FinishLoop, Results, Outcome
<1>4. t \in Turn /\ ~NotAsking(t)
  BY <1>1, AnsweredTurn
<1>5. TurnOK(t)
  BY <1>4 DEF Inv
<1>6. /\ thread[t] # "run"
      /\ starts[t] # 0 /\ starts[t] \in {0, 1} /\ thread[t] # "due"
      /\ ~Hand(t) /\ ~InQueue(t) /\ t \notin payload
      /\ job[t] # "queued" /\ record[t] # NoJob
  BY <1>4, <1>5, StartedTurn DEF TurnOK, BeforeItsStart
<1>7. /\ resp' \in [Responder -> [pc : {"idle", "tool", "loop", "stop"},
                                  turn : Turn \cup {NoTurn}, outcome : Outcome]]
      /\ resp'[r].pc = "stop" /\ resp'[r].turn = t /\ resp'[r].outcome = o
      /\ \A p \in Responder \ {r} : resp'[p] = resp[p]
  <2>1. resp[r] \in [pc : {"idle", "tool", "loop", "stop"},
                     turn : Turn \cup {NoTurn}, outcome : Outcome]
    BY <1>1 DEF TypeOK
  <2>2. resp'[r] = [pc |-> "stop", turn |-> t, outcome |-> o]
    BY <1>1, <1>3, <2>1 DEF TypeOK
  <2> QED
    BY <1>1, <1>3, <1>4, <2>2 DEF TypeOK
<1>8. /\ event' \in [Turn -> Outcome] /\ event'[t] # "none"
      /\ \A u \in Turn \ {t} : event'[u] = event[u]
  BY <1>1, <1>3, <1>4 DEF TypeOK
<1>9. Answering(r, t)
  BY <1>1 DEF Answering
<1>10. t \notin contested => pending[SessionOf[t]] # t
  BY <1>1 DEF ResponseOK, OwnResponseOK
<1>11. TypeOK'
  BY <1>1, <1>2, <1>7, <1>8 DEF TypeOK
<1>12. LockOK'
  BY <1>1, <1>2 DEF LockOK
<1>13. QueuesOK'
  BY <1>1, <1>2, QueuesUntouched
<1>14. \A p \in Responder : ResponseOK(p)'
  <2>1. OwnResponseOK(r)'
    BY <1>3, <1>4, <1>7, <1>8, SchedulerAssumption DEF OwnResponseOK
  <2>2. \A p \in Responder \ {r}, u \in Turn :
          Answering(r, u)' /\ Answering(p, u) => u \in contested'
    BY <1>7 DEF Answering
  <2>3. \A u \in Turn : event[u] # "none" => event'[u] # "none"
    BY <1>8
  <2> QED
    BY <1>1, <1>2, <1>7, <2>1, <2>2, <2>3, OneResponds
<1>15. \A u \in Turn : /\ NotAsking(u) => NotAsking(u)'
                       /\ Hand(u)' <=> Hand(u)
                       /\ InQueue(u)' <=> InQueue(u)
  BY <1>2, <1>7 DEF NotAsking, Hand, InQueue
<1>16. \A u \in Turn \ {t} : SameTurn(u)
  <2>1. \A u \in Turn \ {t} : InPlay(u)' => InPlay(u)
    BY <1>2, <1>7 DEF InPlay, Answering
  <2> QED
    BY <1>2, <1>8, <1>15, <2>1 DEF SameTurn
<1>17. TurnOK(t)'
  <2>1. ~Hand(t)' /\ ~InQueue(t)' /\ Unborn(t)'
    BY <1>2, <1>4, <1>6, <1>15 DEF Unborn
  <2>2. BeforeItsStart(t)'
    BY <1>2, <1>6, <2>1 DEF BeforeItsStart
  <2>3. QueuedIsKept(t)' /\ InHand(t)'
    BY <1>2, <1>6, <2>1 DEF QueuedIsKept, InHand
  <2>4. InPlay(t)' => t \in contested
    <3>1. \A p \in Responder \ {r} : Answering(p, t) => t \in contested
      BY <1>1, <1>4, <1>9 DEF ResponseOK
    <3> QED
      BY <1>2, <1>6, <1>7, <1>10, <3>1 DEF InPlay, Answering
  <2>5. PlaysFair(t)'
    BY <1>2, <1>5, <1>8, <2>4 DEF TurnOK, PlaysFair
  <2> QED
    BY <2>1, <2>2, <2>3, <2>5 DEF TurnOK
<1>18. t \in Live' => t \in Live
  BY <1>8 DEF Live
<1> QED
  BY <1>2, <1>4, <1>6, <1>11, <1>12, <1>13, <1>14, <1>16, <1>17, <1>18, OneTurnMoves

LEMMA ResponseMarks ==
  ASSUME Inv, NEW r \in Responder, MarkResponse(r)
  PROVE  Inv' /\ Calm
<1> SUFFICES ASSUME NEW t, t = resp[r].turn, NEW o, o = resp[r].outcome PROVE Inv' /\ Calm
  OBVIOUS
<1>1. /\ TypeOK /\ LockOK /\ QueuesOK /\ resp[r].pc = "stop"
      /\ \A p \in Responder : ResponseOK(p)
  BY DEF Inv, MarkResponse
<1>2. /\ resp' = [resp EXCEPT ![r] = Idle] /\ MarkStatus(t, o)
      /\ up' = up /\ cancelled' = cancelled /\ sched' = sched /\ thread' = thread
      /\ outcome' = outcome /\ intr' = intr /\ pending' = pending /\ event' = event
      /\ stamp' = stamp /\ aged' = aged /\ asks' = asks /\ crashes' = crashes
      /\ starts' = starts /\ contested' = contested
  BY DEF MarkResponse, ghosts
<1>3. t \in Turn /\ ~NotAsking(t)
  BY <1>1, AnsweredTurn
<1>4. TurnOK(t)
  BY <1>3 DEF Inv
<1>5. /\ thread[t] # "run"
      /\ starts[t] # 0 /\ starts[t] \in {0, 1} /\ thread[t] # "due"
      /\ ~Hand(t) /\ ~InQueue(t) /\ t \notin payload
      /\ job[t] # "queued" /\ record[t] # NoJob
  BY <1>3, <1>4, StartedTurn DEF TurnOK, BeforeItsStart
<1>6. /\ o \in Outcome \ {"none"}
      /\ o # "waiting" => event[t] # "none" /\ IsTerminal(o)
      /\ o \in Status
  BY <1>1 DEF TypeOK, ResponseOK, OwnResponseOK, Outcome, Status, IsTerminal, Terminal
<1>7. /\ resp' \in [Responder -> [pc : {"idle", "tool", "loop", "stop"},
                                  turn : Turn \cup {NoTurn}, outcome : Outcome]]
      /\ resp'[r] = Idle
      /\ \A p \in Responder \ {r} : resp'[p] = resp[p]
  BY <1>1, <1>2 DEF TypeOK, Idle, Outcome
<1>8. \A p \in Responder, u \in Turn : Answering(p, u)' => Answering(p, u)
  BY <1>1, <1>7 DEF Answering, Idle
<1>9. /\ job' \in [Turn -> JobStatus] /\ index' \in [Turn -> JobStatus]
      /\ record' \in [Turn -> JobStatus] /\ queue' \in [Session -> Seq(Turn)]
      /\ payload' \subseteq Turn /\ leased' \subseteq Turn
      /\ job'[t] = IF job[t] = NoJob THEN NoJob ELSE o
      /\ record'[t] = NoJob => record[t] = NoJob
      /\ t \in payload' => t \in payload
      /\ QueuesSorted(queue')
      /\ \A u \in Turn : InQueue(u)' => InQueue(u)
      /\ \A u \in Turn \ {t} :
           /\ job'[u] = job[u] /\ index'[u] = index[u] /\ record'[u] = record[u]
           /\ u \in payload' <=> u \in payload
           /\ u \in leased' <=> u \in leased
           /\ InQueue(u)' <=> InQueue(u)
  BY <1>1, <1>2, <1>3, <1>6, MarkStatusEffect
<1>10. TypeOK'
  BY <1>1, <1>2, <1>7, <1>9 DEF TypeOK
<1>11. LockOK'
  BY <1>1, <1>2 DEF LockOK
<1>12. QueuesOK'
  BY <1>1, <1>2, <1>9, QueuesStaySorted
<1>13. \A p \in Responder : ResponseOK(p)'
  <2>1. OwnResponseOK(r)'
    BY <1>7 DEF OwnResponseOK, Idle
  <2>2. \A p \in Responder \ {r}, u \in Turn :
          Answering(r, u)' /\ Answering(p, u) => u \in contested'
    BY <1>7 DEF Answering, Idle
  <2> QED
    BY <1>1, <1>2, <1>7, <2>1, <2>2, OneResponds
<1>14. \A u \in Turn : /\ Hand(u)' <=> Hand(u)
                       /\ NotAsking(u) => NotAsking(u)'
                       /\ InPlay(u)' => InPlay(u)
  BY <1>2, <1>7, <1>8, SchedulerAssumption DEF Hand, NotAsking, InPlay, Idle
<1>15. \A u \in Turn \ {t} : SameTurn(u)
  BY <1>2, <1>9, <1>14 DEF SameTurn
<1>16. job'[t] # "queued" /\ (job'[t] = NoJob <=> job[t] = NoJob)
  BY <1>6, <1>9, Statuses, SchedulerAssumption DEF Outcome
<1>17. event[t] = "none" => o = "waiting" /\ (job[t] # NoJob => job'[t] = "waiting")
  BY <1>6, <1>9
<1>18. TurnOK(t)'
  <2>1. ~Hand(t)' /\ ~InQueue(t)' /\ Unborn(t)'
    BY <1>3, <1>5, <1>9, <1>14 DEF Unborn
  <2>2. BeforeItsStart(t)'
    BY <1>2, <1>5, <1>9, <2>1 DEF BeforeItsStart
  <2>3. QueuedIsKept(t)' /\ InHand(t)'
    BY <1>16, <2>1 DEF QueuedIsKept, InHand
  <2>4. PlaysFair(t)'
    <3>1. /\ InPlay(t)' /\ intr[t] = "none" /\ job'[t] # NoJob /\ t \notin contested =>
               IsActive(job'[t]) /\ event[t] = "none"
      BY <1>3, <1>4, <1>14, <1>16, <1>17, Statuses DEF TurnOK, PlaysFair
    <3>2. IsTerminal(job'[t]) => event[t] # "none"
      BY <1>9, <1>17, Statuses
    <3> QED
      BY <1>2, <1>4, <3>1, <3>2 DEF TurnOK, PlaysFair
  <2> QED
    BY <2>1, <2>2, <2>3, <2>4 DEF TurnOK
<1>19. t \in Live' => t \in Live
  <2> SUFFICES ASSUME t \in Live' PROVE t \in Live
    OBVIOUS
  <2>1. event[t] = "none" /\ intr[t] = "none" /\ t \notin contested /\ IsActive(job'[t])
    BY <1>2 DEF Live
  <2>2. job[t] # NoJob
    BY <1>9, <2>1, Statuses
  <2>3. ~IsTerminal(job[t])
    BY <1>4, <1>5, <2>1 DEF TurnOK, PlaysFair
  <2>4. IsActive(job[t])
    BY <1>1, <1>3, <1>5, <2>2, <2>3, Statuses DEF TypeOK
  <2> QED
    BY <1>3, <2>1, <2>4 DEF Live
<1> QED
  BY <1>2, <1>3, <1>5, <1>10, <1>11, <1>12, <1>13, <1>15, <1>18, <1>19, OneTurnMoves

-----------------------------------------------------------------------------
(* Interrupts and polls.                                                   *)

\* A turn somebody can name was created; it is not being registered.
LEMMA KnownTurn ==
  ASSUME NEW t \in Turn, TurnOK(t), Known(t) # NoJob \/ intr[t] # "none" \/ event[t] # "none"
  PROVE  record[t] # NoJob /\ ~(Hand(t) /\ Registering)
BY DEF TurnOK, Unborn, InHand, Known

LEMMA Interrupts ==
  ASSUME Inv, NEW t \in Turn, RequestCancel(t) \/ RecordInterrupt(t)
  PROVE  Inv' /\ Calm
<1>1. /\ TypeOK /\ LockOK /\ QueuesOK /\ TurnOK(t)
      /\ \A o \in Responder : ResponseOK(o)
  BY DEF Inv
<1>2. /\ up' = up /\ sched' = sched /\ thread' = thread /\ outcome' = outcome /\ resp' = resp
      /\ pending' = pending /\ stamp' = stamp /\ aged' = aged /\ asks' = asks
      /\ crashes' = crashes /\ starts' = starts /\ contested' = contested
  BY DEF RequestCancel, RecordInterrupt, ghosts
<1>3. record[t] # NoJob /\ ~(Hand(t) /\ Registering)
  BY <1>1, KnownTurn DEF RequestCancel, RecordInterrupt
<1>4. PICK s \in {"interrupted", "waiting"} :
        /\ MarkStatus(t, s)
        /\ event'[t] # "none" => event[t] # "none" \/ s = "interrupted"
  BY DEF RequestCancel, RecordInterrupt
<1>5. /\ cancelled' \in [Turn -> BOOLEAN]
      /\ intr' \in [Turn -> {"none", "requested", "recorded"}] /\ intr'[t] # "none"
      /\ event' \in [Turn -> Outcome] /\ (event[t] # "none" => event'[t] # "none")
      /\ \A u \in Turn \ {t} : intr'[u] = intr[u] /\ event'[u] = event[u]
  <2>1. CASE RequestCancel(t)
    BY <1>1, <2>1 DEF RequestCancel, TypeOK
  <2>2. CASE RecordInterrupt(t)
    BY <1>1, <2>2 DEF RecordInterrupt, TypeOK, Outcome
  <2> QED
    BY <2>1, <2>2
<1>6. s \in Status /\ (s = "interrupted" => IsTerminal(s))
  BY Statuses DEF IsTerminal, Terminal
<1>7. /\ job' \in [Turn -> JobStatus] /\ index' \in [Turn -> JobStatus]
      /\ record' \in [Turn -> JobStatus] /\ queue' \in [Session -> Seq(Turn)]
      /\ payload' \subseteq Turn /\ leased' \subseteq Turn
      /\ job'[t] \in {NoJob, s} /\ record'[t] # NoJob
      /\ t \in payload' => t \in payload /\ s # "interrupted"
      /\ QueuesSorted(queue')
      /\ \A u \in Turn : InQueue(u)' => InQueue(u)
      /\ \A u \in Turn \ {t} :
           /\ job'[u] = job[u] /\ index'[u] = index[u] /\ record'[u] = record[u]
           /\ u \in payload' <=> u \in payload
           /\ u \in leased' <=> u \in leased
           /\ InQueue(u)' <=> InQueue(u)
  BY <1>1, <1>2, <1>3, <1>4, <1>6, MarkStatusEffect
<1>8. TypeOK'
  BY <1>1, <1>2, <1>5, <1>7 DEF TypeOK
<1>9. LockOK'
  BY <1>1, <1>2 DEF LockOK
<1>10. QueuesOK'
  BY <1>1, <1>2, <1>7, QueuesStaySorted
<1>11. \A o \in Responder : ResponseOK(o)'
  <2>1. \A u \in Turn : event[u] # "none" => event'[u] # "none"
    BY <1>5
  <2> QED
    BY <1>1, <1>2, <2>1, ResponsesStand
<1>12. \A u \in Turn : /\ Hand(u)' <=> Hand(u)
                       /\ NotAsking(u)' <=> NotAsking(u)
                       /\ InPlay(u)' <=> InPlay(u)
  BY <1>2 DEF Hand, NotAsking, InPlay, Answering
<1>13. \A u \in Turn \ {t} : SameTurn(u)
  BY <1>2, <1>5, <1>7, <1>12 DEF SameTurn
<1>14. job'[t] # "queued" /\ job'[t] # "running"
  BY <1>7, Statuses
<1>15. TurnOK(t)'
  <2>1. Unborn(t)'
    BY <1>7 DEF Unborn
  <2>2. BeforeItsStart(t)'
    BY <1>1, <1>2, <1>4, <1>5, <1>7, <1>12 DEF TurnOK, BeforeItsStart
  <2>3. QueuedIsKept(t)'
    BY <1>14 DEF QueuedIsKept
  <2>4. InHand(t)'
    BY <1>1, <1>2, <1>3, <1>5, <1>7, <1>12 DEF TurnOK, InHand
  <2>5. PlaysFair(t)'
    BY <1>1, <1>2, <1>5 DEF TurnOK, PlaysFair
  <2> QED
    BY <2>1, <2>2, <2>3, <2>4, <2>5 DEF TurnOK
<1>16. t \in Live' => t \in Live
  BY <1>5 DEF Live
<1> QED
  BY <1>2, <1>8, <1>9, <1>10, <1>11, <1>13, <1>14, <1>15, <1>16, OneTurnMoves

LEMMA Reconciles ==
  ASSUME Inv, NEW t \in Turn, ReconcileFromEvents(t)
  PROVE  Inv' /\ Calm
<1>1. /\ TypeOK /\ LockOK /\ QueuesOK /\ TurnOK(t)
      /\ \A o \in Responder : ResponseOK(o)
  BY DEF Inv
<1>2. /\ MarkStatus(t, event[t]) /\ event[t] # "none"
      /\ up' = up /\ cancelled' = cancelled /\ sched' = sched /\ thread' = thread
      /\ outcome' = outcome /\ resp' = resp /\ intr' = intr /\ pending' = pending
      /\ event' = event /\ stamp' = stamp /\ aged' = aged /\ asks' = asks
      /\ crashes' = crashes /\ starts' = starts /\ contested' = contested
  BY DEF ReconcileFromEvents, ghosts
<1>3. record[t] # NoJob /\ ~(Hand(t) /\ Registering)
  BY <1>1, <1>2, KnownTurn
<1>4. event[t] \in Outcome \ {"none"} /\ event[t] \in Status
  BY <1>1, <1>2 DEF TypeOK, Outcome, Status, Terminal
<1>5. /\ job' \in [Turn -> JobStatus] /\ index' \in [Turn -> JobStatus]
      /\ record' \in [Turn -> JobStatus] /\ queue' \in [Session -> Seq(Turn)]
      /\ payload' \subseteq Turn /\ leased' \subseteq Turn
      /\ job'[t] \in {NoJob, event[t]} /\ record'[t] # NoJob
      /\ t \in payload' => t \in payload
      /\ QueuesSorted(queue')
      /\ \A u \in Turn : InQueue(u)' => InQueue(u)
      /\ \A u \in Turn \ {t} :
           /\ job'[u] = job[u] /\ index'[u] = index[u] /\ record'[u] = record[u]
           /\ u \in payload' <=> u \in payload
           /\ u \in leased' <=> u \in leased
           /\ InQueue(u)' <=> InQueue(u)
      /\ job[t] = NoJob => job'[t] = NoJob
  BY <1>1, <1>2, <1>3, <1>4, MarkStatusEffect
<1>6. TypeOK'
  BY <1>1, <1>2, <1>5 DEF TypeOK
<1>7. LockOK'
  BY <1>1, <1>2 DEF LockOK
<1>8. QueuesOK'
  BY <1>1, <1>2, <1>5, QueuesStaySorted
<1>9. \A o \in Responder : ResponseOK(o)'
  BY <1>1, <1>2, ResponsesStand
<1>10. \A u \in Turn : /\ Hand(u)' <=> Hand(u)
                       /\ NotAsking(u)' <=> NotAsking(u)
                       /\ InPlay(u)' <=> InPlay(u)
  BY <1>2 DEF Hand, NotAsking, InPlay, Answering
<1>11. \A u \in Turn \ {t} : SameTurn(u)
  BY <1>2, <1>5, <1>10 DEF SameTurn
<1>12. job'[t] # "queued" /\ job'[t] # "running"
  BY <1>4, <1>5, Statuses DEF Outcome
<1>13. TurnOK(t)'
  <2>1. Unborn(t)'
    BY <1>5 DEF Unborn
  <2>2. BeforeItsStart(t)'
    BY <1>1, <1>2, <1>5, <1>10 DEF TurnOK, BeforeItsStart
  <2>3. QueuedIsKept(t)'
    BY <1>12 DEF QueuedIsKept
  <2>4. InHand(t)'
    BY <1>1, <1>2, <1>3, <1>5, <1>10 DEF TurnOK, InHand
  <2>5. PlaysFair(t)'
    BY <1>1, <1>2, <1>5, <1>10 DEF TurnOK, PlaysFair
  <2> QED
    BY <2>1, <2>2, <2>3, <2>4, <2>5 DEF TurnOK
<1>14. t \in Live' => t \in Live
  BY <1>2 DEF Live
<1> QED
  BY <1>2, <1>6, <1>7, <1>8, <1>9, <1>11, <1>12, <1>13, <1>14, OneTurnMoves

\* Polls of turns this process has no job for, and the clock.
LEMMA Polls ==
  ASSUME Inv, (\E t \in Turn : ListReconciles(t) \/ StatusReconciles(t)) \/ Age
  PROVE  Inv' /\ Calm
<1>1. /\ TypeOK /\ LockOK /\ QueuesOK /\ SlotsOK
      /\ \A t \in Turn : TurnOK(t)
      /\ \A o \in Responder : ResponseOK(o)
  BY DEF Inv
<1>2. /\ up' = up /\ job' = job /\ cancelled' = cancelled /\ queue' = queue /\ sched' = sched
      /\ thread' = thread /\ outcome' = outcome /\ resp' = resp /\ intr' = intr
      /\ payload' = payload /\ leased' = leased /\ pending' = pending /\ event' = event
      /\ stamp' = stamp /\ asks' = asks /\ crashes' = crashes /\ starts' = starts
      /\ contested' = contested
  BY DEF ListReconciles, StatusReconciles, Age, memory, files, ghosts
<1>3. /\ index' \in [Turn -> JobStatus] /\ record' \in [Turn -> JobStatus] /\ aged' \in Nat
      /\ \A t \in Turn : index'[t] # index[t] => index[t] # NoJob /\ job[t] = NoJob
      /\ \A t \in Turn : record'[t] = NoJob => record[t] = NoJob
  <2>1. ASSUME NEW t \in Turn, Orphan(t), aged' = aged,
               \/ Save([u \in {t} |-> "interrupted"])
               \/ index' = [index EXCEPT ![t] = "interrupted"] /\ record' = record
        PROVE  <1>3!:
    <3>1. "interrupted" \in JobStatus /\ "interrupted" # NoJob
      BY Statuses
    <3>2. CASE Save([u \in {t} |-> "interrupted"])
      <4>1. /\ index' \in [Turn -> JobStatus] /\ record' \in [Turn -> JobStatus]
            /\ \A u \in Turn \ {t} : index'[u] = index[u] /\ record'[u] = record[u]
            /\ record[t] # NoJob => record'[t] # NoJob
        BY <1>1, <3>1, <3>2, SaveOne
      <4>2. aged' \in Nat /\ index[t] # NoJob /\ job[t] = NoJob
        BY <1>1, <2>1 DEF Orphan, TypeOK
      <4> QED
        BY <4>1, <4>2
    <3>3. CASE index' = [index EXCEPT ![t] = "interrupted"] /\ record' = record
      BY <1>1, <2>1, <3>1, <3>3 DEF Orphan, TypeOK
    <3> QED
      BY <2>1, <3>2, <3>3
  <2>2. CASE Age
    BY <1>1, <2>2 DEF Age, files, TypeOK
  <2> QED
    BY <2>1, <2>2 DEF ListReconciles, StatusReconciles
<1>4. TypeOK'
  BY <1>1, <1>2, <1>3 DEF TypeOK
<1>5. LockOK' /\ QueuesOK'
  BY <1>1, <1>2, QueuesUntouched DEF LockOK
<1>6. \A o \in Responder : ResponseOK(o)'
  BY <1>1, <1>2, ResponsesStand
<1>7. ASSUME NEW t \in Turn PROVE TurnOK(t)'
  <2>1. /\ Hand(t)' <=> Hand(t)
        /\ NotAsking(t)' <=> NotAsking(t)
        /\ InPlay(t)' <=> InPlay(t)
        /\ InQueue(t)' <=> InQueue(t)
    BY <1>2 DEF Hand, NotAsking, InPlay, Answering, InQueue
  <2>2. TurnOK(t)
    BY <1>1
  <2>3. index'[t] # index[t] => index[t] # NoJob /\ job[t] = NoJob
    BY <1>3
  <2>4. Unborn(t)'
    BY <1>2, <1>3, <2>1, <2>2, <2>3 DEF TurnOK, Unborn
  <2>5. BeforeItsStart(t)' /\ PlaysFair(t)'
    BY <1>2, <2>1, <2>2 DEF TurnOK, BeforeItsStart, PlaysFair
  <2>6. QueuedIsKept(t)' /\ InHand(t)'
    BY <1>2, <2>1, <2>2, <2>3, Statuses DEF TurnOK, QueuedIsKept, InHand
  <2> QED
    BY <2>4, <2>5, <2>6 DEF TurnOK
<1>8. SlotsOK' /\ Calm
  BY <1>1, <1>2, NoNewLive, Statuses DEF Live, Calm
<1> QED
  BY <1>4, <1>5, <1>6, <1>7, <1>8 DEF Inv

-----------------------------------------------------------------------------
(* The holder of the scheduler lock, with one turn in its hand.            *)

LEMMA OneTurnSteps ==
  ASSUME Inv, NEW t \in Turn, TypeOK', LockOK', QueuesOK', SlotsOK',
         \A r \in Responder : ResponseOK(r)',
         \A u \in Turn \ {t} : SameTurn(u), TurnOK(t)'
  PROVE  Inv'
<1>1. \A u \in Turn \ {t} : TurnOK(u)'
  BY OtherTurn DEF Inv
<1>2. \A u \in Turn : TurnOK(u)'
  BY <1>1
<1> QED
  BY <1>2 DEF Inv

\* A turn takes a slot and a session that are free.
LEMMA OneMoreLive ==
  ASSUME TypeOK, SlotsOK, NEW t \in Turn, NEW A \in SUBSET Live, Live' \subseteq A \cup {t},
         Cardinality(A) < Quota, \A u \in A : SessionOf[u] # SessionOf[t],
         sched'.pc # "admitted"
  PROVE  SlotsOK'
<1>1. IsFiniteSet(Live) /\ IsFiniteSet(A)
  BY SchedulerAssumption, FS_Subset DEF Live
<1>2. IsFiniteSet(A \cup {t}) /\ Cardinality(A \cup {t}) <= Cardinality(A) + 1
  <2>1. Cardinality(A) \in Nat
    BY <1>1, FS_CardinalityType
  <2>2. /\ IsFiniteSet(A \cup {t})
        /\ Cardinality(A \cup {t}) = IF t \in A THEN Cardinality(A) ELSE Cardinality(A) + 1
    BY <1>1, FS_AddElement
  <2> QED
    BY <2>1, <2>2
<1>3. IsFiniteSet(Live') /\ Cardinality(Live') <= Cardinality(A \cup {t})
  BY <1>2, FS_Subset
<1>4. Cardinality(Live') \in Nat /\ Cardinality(A) \in Nat /\ Cardinality(A \cup {t}) \in Nat
  BY <1>1, <1>2, <1>3, FS_CardinalityType
<1>5. Cardinality(Live') <= Quota
  BY <1>2, <1>3, <1>4, SchedulerAssumption
<1>6. \A u, v \in Live' : SessionOf[u] = SessionOf[v] => u = v
  BY DEF SlotsOK
<1> QED
  BY <1>5, <1>6 DEF SlotsOK

LEMMA QueueMembers ==
  ASSUME TypeOK, QueuesOK, NEW s \in Session, NEW i \in 1..Len(queue[s])
  PROVE  queue[s][i] \in Turn /\ SessionOf[queue[s][i]] = s /\ InQueue(queue[s][i])
<1>1. queue[s] \in Seq(Turn)
  BY DEF TypeOK
<1>2. queue[s][i] \in Turn /\ DOMAIN queue[s] = 1..Len(queue[s])
  BY <1>1, LenProperties
<1>3. SessionOf[queue[s][i]] = s
  BY DEF QueuesOK
<1> QED
  BY <1>2, <1>3 DEF InQueue

LEMMA Admits ==
  ASSUME Inv, NEW t \in Turn, Admit(t)
  PROVE  Inv' /\ Calm
<1> DEFINE queued == MustQueue(SessionOf[t])
           active == {u \in Turn : IsActive(job[u])}
<1>1. /\ TypeOK /\ LockOK /\ QueuesOK /\ SlotsOK /\ TurnOK(t)
      /\ \A o \in Responder : ResponseOK(o)
  BY DEF Inv
<1>2. /\ up = "serving" /\ sched = LockFree /\ record[t] = NoJob
      /\ sched' = [pc |-> IF queued THEN "created" ELSE "admitted", turn |-> t,
                   queued |-> queued]
      /\ record' = [record EXCEPT ![t] = IF queued THEN "queued" ELSE "running"]
      /\ payload' = payload /\ leased' = leased /\ stamp' = stamp
      /\ up' = up /\ job' = job /\ cancelled' = cancelled /\ queue' = queue
      /\ thread' = thread /\ outcome' = outcome /\ resp' = resp /\ intr' = intr
      /\ index' = index /\ pending' = pending /\ event' = event /\ aged' = aged
      /\ asks' = asks /\ crashes' = crashes /\ starts' = starts /\ contested' = contested
  BY DEF Admit, ghosts
<1>3. /\ job[t] = NoJob /\ index[t] = NoJob /\ event[t] = "none" /\ intr[t] = "none"
      /\ starts[t] = 0 /\ thread[t] = "none" /\ stamp[t] = 0
      /\ NotAsking(t) /\ ~InQueue(t) /\ t \notin payload
  BY <1>1, <1>2 DEF TurnOK, Unborn, BeforeItsStart
<1>5. queued \in BOOLEAN
  BY DEF MustQueue, SessionHasRunningTurn
<1>6. /\ ~queued => \A u \in Live : SessionOf[u] # SessionOf[t]
      /\ ~queued => Cardinality(Live) < Quota
  <2>1. Live \in SUBSET active
    BY DEF Live
  <2>2. IsFiniteSet(active) /\ Cardinality(Live) <= Cardinality(active)
    BY <2>1, SchedulerAssumption, FS_Subset
  <2>3. Cardinality(active) \in Nat /\ Cardinality(Live) \in Nat
    BY <2>1, <2>2, FS_CardinalityType, FS_Subset
  <2>4. ~queued => ~(Cardinality(active) >= Quota)
    BY DEF MustQueue, RunningCount
  <2>5. ~queued => \A u \in active : SessionOf[u] # SessionOf[t]
    BY DEF MustQueue, SessionHasRunningTurn
  <2> HIDE DEF active, queued
  <2> QED
    BY <2>1, <2>2, <2>3, <2>4, <2>5, SchedulerAssumption
<1> HIDE DEF queued, active
<1>7. /\ record' \in [Turn -> JobStatus] /\ record'[t] # NoJob
      /\ \A u \in Turn \ {t} : record'[u] = record[u]
  BY <1>1, <1>2, Statuses DEF TypeOK
<1>8. TypeOK'
  BY <1>1, <1>2, <1>5, <1>7 DEF TypeOK
<1>9. LockOK'
  BY <1>1, <1>2 DEF LockOK
<1>10. \A u \in Turn : /\ InQueue(u)' <=> InQueue(u)
                       /\ NotAsking(u)' <=> NotAsking(u)
                       /\ InPlay(u)' <=> InPlay(u)
  BY <1>2 DEF InQueue, NotAsking, InPlay, Answering
<1>11. QueuesOK'
  <2>1. Stamped' = Stamped
    BY <1>2 DEF Stamped
  <2>2. ~(sched'.pc \in {"admitted", "entered"} /\ sched'.queued)
    BY <1>2
  <2> QED
    BY <1>1, <1>2, <1>10, <2>1, <2>2 DEF QueuesOK
<1>12. SlotsOK'
  <2>1. Live' = Live
    BY <1>2 DEF Live
  <2> QED
    BY <1>1, <1>2, <1>6, <2>1 DEF SlotsOK
<1>13. \A o \in Responder : ResponseOK(o)'
  BY <1>1, <1>2, ResponsesStand
<1>14. \A u \in Turn \ {t} : SameTurn(u)
  BY <1>2, <1>7, <1>10 DEF SameTurn, Hand, LockFree
<1>15. TurnOK(t)'
  <2>1. Unborn(t)' /\ QueuedIsKept(t)'
    BY <1>2, <1>3, <1>7, Statuses DEF Unborn, QueuedIsKept
  <2>2. BeforeItsStart(t)'
    BY <1>2, <1>3, <1>7, <1>10 DEF BeforeItsStart
  <2>3. InHand(t)'
    BY <1>2, <1>3, <1>7, <1>10 DEF InHand
  <2>4. PlaysFair(t)'
    BY <1>2, <1>3 DEF PlaysFair
  <2> QED
    BY <2>1, <2>2, <2>3, <2>4 DEF TurnOK
<1>16. Calm
  BY <1>2, Statuses DEF Calm
<1> QED
  BY <1>8, <1>9, <1>11, <1>12, <1>13, <1>14, <1>15, <1>16, OneTurnSteps

\* A turn that has to wait gets its lease and its payload, or the request fails.
LEMMA Registers ==
  ASSUME Inv, ClaimLease \/ PersistPayload \/ AdmitFails
  PROVE  Inv' /\ Calm
<1> SUFFICES ASSUME NEW t \in Turn, t = sched.turn PROVE Inv' /\ Calm
  BY DEF Inv, LockOK, ClaimLease, PersistPayload, AdmitFails
<1>1. /\ TypeOK /\ LockOK /\ QueuesOK /\ SlotsOK
      /\ sched.pc \in {"created", "leased"} /\ Hand(t) /\ TurnOK(t)
      /\ \A o \in Responder : ResponseOK(o)
  <2>1. sched.pc \in {"created", "leased"}
    BY DEF ClaimLease, PersistPayload, AdmitFails
  <2> QED
    BY <2>1 DEF Inv, LockOK, Hand
<1>2. /\ up' = up /\ job' = job /\ cancelled' = cancelled /\ queue' = queue
      /\ thread' = thread /\ outcome' = outcome /\ resp' = resp /\ intr' = intr
      /\ index' = index /\ pending' = pending /\ event' = event /\ aged' = aged
      /\ asks' = asks /\ crashes' = crashes /\ starts' = starts /\ contested' = contested
  BY DEF ClaimLease, PersistPayload, AdmitFails, ghosts
<1>3. /\ record[t] # NoJob /\ job[t] = NoJob /\ index[t] = NoJob /\ event[t] = "none"
      /\ intr[t] = "none" /\ starts[t] = 0 /\ thread[t] = "none" /\ stamp[t] = 0
      /\ sched.queued /\ NotAsking(t) /\ ~InQueue(t) /\ t \notin payload
      /\ sched.pc = "leased" => t \in leased
  BY <1>1 DEF TurnOK, InHand, Unborn, BeforeItsStart
<1>4. IsFiniteSet(Stamped) /\ Cardinality(Stamped) \in Nat
  BY SchedulerAssumption, FS_Subset, FS_CardinalityType DEF Stamped
<1>5. \/ /\ sched'.pc = "leased" /\ sched'.turn = t /\ sched'.queued /\ t \in leased'
         /\ stamp' = stamp /\ payload' = payload /\ record' = record
      \/ /\ sched'.pc = "admitted" /\ sched'.turn = t /\ sched'.queued /\ t \in leased'
         /\ stamp' = [stamp EXCEPT ![t] = Cardinality(Stamped) + 1]
         /\ payload' = payload \cup {t} /\ record' = record
      \/ /\ sched' = LockFree /\ stamp' = stamp /\ payload' = payload
         /\ record' \in {record, [record EXCEPT ![t] = "failed"]}
  <2>1. CASE ClaimLease
    BY <1>1, <1>3, <2>1 DEF ClaimLease, TypeOK
  <2>2. CASE PersistPayload
    BY <1>1, <1>3, <2>2 DEF PersistPayload, TypeOK, Stamped
  <2>3. CASE AdmitFails
    BY <2>3 DEF AdmitFails
  <2> QED
    BY <2>1, <2>2, <2>3
<1>6. /\ sched' \in [pc : {"free", "created", "leased", "admitted", "entered", "popped", "persisted"},
                     turn : Turn \cup {NoTurn}, queued : BOOLEAN]
      /\ leased' \subseteq Turn /\ \A u \in Turn \ {t} : u \in leased' <=> u \in leased
  <2>1. CASE ClaimLease
    BY <1>1, <2>1 DEF ClaimLease, TypeOK
  <2>2. CASE PersistPayload
    BY <1>1, <2>2 DEF PersistPayload, TypeOK
  <2>3. CASE AdmitFails
    BY <1>1, <2>3 DEF AdmitFails, TypeOK, LockFree
  <2> QED
    BY <2>1, <2>2, <2>3
<1>7. /\ record' \in [Turn -> JobStatus] /\ record'[t] # NoJob
      /\ \A u \in Turn \ {t} : record'[u] = record[u]
  <2>1. record \in [Turn -> JobStatus]
    BY <1>1 DEF TypeOK
  <2> QED
    BY <1>3, <1>5, <2>1, Statuses
<1>8. /\ stamp' \in [Turn -> Nat] /\ payload' \subseteq Turn
      /\ \A u \in Turn \ {t} : stamp'[u] = stamp[u] /\ (u \in payload' <=> u \in payload)
  <2>1. stamp \in [Turn -> Nat] /\ payload \subseteq Turn
    BY <1>1 DEF TypeOK
  <2> QED
    BY <1>1, <1>4, <1>5, <2>1
<1>9. TypeOK'
  BY <1>1, <1>2, <1>6, <1>7, <1>8 DEF TypeOK
<1>10. LockOK'
  BY <1>1, <1>2, <1>5 DEF LockOK, LockFree
<1>11. \A u \in Turn : /\ InQueue(u)' <=> InQueue(u)
                       /\ NotAsking(u)' <=> NotAsking(u)
                       /\ InPlay(u)' <=> InPlay(u)
  BY <1>2 DEF InQueue, NotAsking, InPlay, Answering
<1>12. QueuesOK'
  <2>1. \A u \in Turn : stamp[u] <= Cardinality(Stamped) /\ stamp[u] \in Nat
    BY <1>1 DEF QueuesOK, TypeOK
  <2>2. \A u, v \in Turn : stamp[u] # 0 /\ stamp[u] = stamp[v] => u = v
    BY <1>1 DEF QueuesOK
  <2>3. /\ \A u \in Turn : stamp'[u] <= Cardinality(Stamped')
        /\ \A u, v \in Turn : stamp'[u] # 0 /\ stamp'[u] = stamp'[v] => u = v
    <3>1. CASE sched'.pc = "admitted"
      <4>1. stamp'[t] = Cardinality(Stamped) + 1
        BY <1>1, <1>5, <3>1 DEF TypeOK, LockFree
      <4>2. Stamped' = Stamped \cup {t} /\ t \notin Stamped
        BY <1>1, <1>3, <1>4, <1>8, <4>1 DEF Stamped
      <4>3. Cardinality(Stamped') = Cardinality(Stamped) + 1
        BY <1>4, <4>2, FS_AddElement
      <4> QED
        BY <1>4, <1>8, <2>1, <2>2, <4>1, <4>3
    <3>2. CASE sched'.pc # "admitted"
      <4>1. stamp' = stamp
        BY <1>5, <3>2
      <4>2. Stamped' = Stamped
        BY <4>1 DEF Stamped
      <4> QED
        BY <2>1, <2>2, <4>1, <4>2
    <3> QED
      BY <3>1, <3>2
  <2>4. ASSUME NEW s \in Session PROVE SortedFor(queue[s], s)'
    <3>1. \A i \in 1..Len(queue[s]) :
            SessionOf[queue[s][i]] = s /\ stamp'[queue[s][i]] = stamp[queue[s][i]]
      BY <1>1, <1>3, <1>8, QueueMembers
    <3>2. \A i, j \in 1..Len(queue[s]) : i < j => stamp[queue[s][i]] < stamp[queue[s][j]]
      BY <1>1 DEF QueuesOK
    <3> QED
      BY <1>2, <3>1, <3>2 DEF SortedFor
  <2>5. sched'.pc \in {"admitted", "entered"} =>
          \A u \in Turn : InQueue(u)' => stamp'[u] < stamp'[sched'.turn]
    <3> SUFFICES ASSUME sched'.pc \in {"admitted", "entered"}, NEW u \in Turn, InQueue(u)
                 PROVE  stamp'[u] < stamp'[sched'.turn]
      BY <1>11
    <3>1. sched'.turn = t /\ stamp'[t] = Cardinality(Stamped) + 1
      BY <1>1, <1>5 DEF TypeOK, LockFree
    <3>2. u # t /\ stamp'[u] = stamp[u]
      BY <1>3, <1>8
    <3> QED
      BY <1>4, <2>1, <3>1, <3>2
  <2> QED
    BY <2>3, <2>4, <2>5 DEF QueuesOK, SortedFor
<1>13. SlotsOK'
  <2>1. Live' = Live
    BY <1>2 DEF Live
  <2>2. ~(sched'.pc = "admitted" /\ ~sched'.queued)
    BY <1>5 DEF LockFree
  <2> QED
    BY <1>1, <2>1, <2>2 DEF SlotsOK
<1>14. \A o \in Responder : ResponseOK(o)'
  BY <1>1, <1>2, ResponsesStand
<1>15. \A u \in Turn \ {t} : SameTurn(u)
  <2>1. \A u \in Turn \ {t} : ~Hand(u) /\ ~Hand(u)'
    BY <1>5 DEF Hand, LockFree
  <2> QED
    BY <1>2, <1>6, <1>7, <1>8, <1>11, <2>1 DEF SameTurn
<1>16. TurnOK(t)'
  <2>1. Unborn(t)' /\ QueuedIsKept(t)'
    BY <1>2, <1>3, <1>7, Statuses DEF Unborn, QueuedIsKept
  <2>2. BeforeItsStart(t)'
    <3>1. t \in payload' => stamp'[t] # 0
      BY <1>1, <1>3, <1>4, <1>5 DEF TypeOK
    <3> QED
      BY <1>2, <1>3, <1>11, <3>1 DEF BeforeItsStart
  <2>3. InHand(t)'
    <3>1. CASE sched'.pc = "admitted"
      <4>1. stamp'[t] # 0 /\ sched'.queued /\ t \in payload' /\ t \in leased'
        BY <1>1, <1>4, <1>5, <3>1 DEF TypeOK, LockFree
      <4> QED
        BY <1>2, <1>3, <1>11, <3>1, <4>1 DEF InHand
    <3>2. CASE sched'.pc # "admitted"
      BY <1>2, <1>3, <1>5, <1>11, <3>2 DEF InHand, Hand, LockFree
    <3> QED
      BY <3>1, <3>2
  <2>4. PlaysFair(t)'
    BY <1>2, <1>3 DEF PlaysFair
  <2> QED
    BY <2>1, <2>2, <2>3, <2>4 DEF TurnOK
<1>17. Calm
  BY <1>2, Statuses DEF Calm
<1> QED
  BY <1>9, <1>10, <1>12, <1>13, <1>14, <1>15, <1>16, <1>17, OneTurnSteps

LEMMA Enters ==
  ASSUME Inv, Enter
  PROVE  Inv' /\ Calm
<1> SUFFICES ASSUME NEW t, t = sched.turn PROVE Inv' /\ Calm
  OBVIOUS
<1>1. /\ TypeOK /\ LockOK /\ QueuesOK /\ SlotsOK /\ sched.pc = "admitted" /\ t \in Turn
      /\ \A o \in Responder : ResponseOK(o)
  BY DEF Inv, Enter, LockOK
<1>2. /\ sched' = [sched EXCEPT !.pc = "entered"]
      /\ job' = [job EXCEPT ![t] = IF sched.queued THEN "queued" ELSE "running"]
      /\ up' = up /\ cancelled' = cancelled /\ queue' = queue /\ thread' = thread
      /\ outcome' = outcome /\ resp' = resp /\ intr' = intr /\ index' = index
      /\ record' = record /\ payload' = payload /\ leased' = leased /\ pending' = pending
      /\ event' = event /\ stamp' = stamp /\ aged' = aged /\ asks' = asks
      /\ crashes' = crashes /\ starts' = starts /\ contested' = contested
  BY DEF Enter, files, ghosts
<1>3. TurnOK(t) /\ Hand(t)
  BY <1>1 DEF Inv, Hand
<1>4. /\ record[t] # NoJob /\ job[t] = NoJob /\ index[t] = NoJob
      /\ event[t] = "none" /\ intr[t] = "none"
      /\ starts[t] = 0 /\ thread[t] = "none" /\ ~InQueue(t) /\ NotAsking(t)
      /\ sched.queued <=> stamp[t] # 0
      /\ sched.queued => t \in payload /\ t \in leased
      /\ t \in payload => stamp[t] # 0
  BY <1>1, <1>3 DEF TurnOK, InHand, Unborn, BeforeItsStart
<1>5. /\ sched' \in [pc : {"free", "created", "leased", "admitted", "entered", "popped", "persisted"},
                     turn : Turn \cup {NoTurn}, queued : BOOLEAN]
      /\ sched'.pc = "entered" /\ sched'.turn = t /\ sched'.queued = sched.queued
  BY <1>1, <1>2 DEF TypeOK
<1>6. /\ job' \in [Turn -> JobStatus]
      /\ job'[t] = IF sched.queued THEN "queued" ELSE "running"
      /\ \A u \in Turn \ {t} : job'[u] = job[u]
  BY <1>1, <1>2, Statuses DEF TypeOK
<1>7. TypeOK'
  BY <1>1, <1>2, <1>5, <1>6 DEF TypeOK
<1>8. LockOK'
  BY <1>1, <1>2, <1>5 DEF LockOK
<1>9. \A u \in Turn : /\ InQueue(u)' <=> InQueue(u)
                      /\ NotAsking(u)' <=> NotAsking(u)
                      /\ InPlay(u)' <=> InPlay(u)
                      /\ Hand(u)' <=> Hand(u)
  BY <1>1, <1>2, <1>5 DEF InQueue, NotAsking, InPlay, Answering, Hand
<1>10. QueuesOK'
  <2>1. Stamped' = Stamped
    BY <1>2 DEF Stamped
  <2>2. \A u \in Turn : sched.queued /\ InQueue(u) => stamp[u] < stamp[t]
    BY <1>1 DEF QueuesOK
  <2>3. sched'.pc \in {"admitted", "entered"} /\ sched'.queued =>
          \A u \in Turn : InQueue(u)' => stamp'[u] < stamp'[sched'.turn]
    BY <1>2, <1>5, <1>9, <2>2
  <2> QED
    BY <1>1, <1>2, <2>1, <2>3 DEF QueuesOK
<1>11. SlotsOK'
  <2>1. CASE sched.queued
    <3>1. \A u \in Turn : u \in Live' => u \in Live
      BY <1>2, <1>6, <2>1, Statuses DEF Live
    <3> QED
      BY <1>1, <1>5, <3>1, NoNewLive
  <2>2. CASE ~sched.queued
    <3>1. Live' \subseteq Live \cup {t}
      BY <1>2, <1>6 DEF Live
    <3>2. /\ Cardinality(Live) < Quota
          /\ \A u \in Live : SessionOf[u] # SessionOf[t]
      BY <1>1, <2>2 DEF SlotsOK
    <3> QED
      BY <1>1, <1>5, <3>1, <3>2, OneMoreLive
  <2> QED
    BY <2>1, <2>2
<1>12. \A o \in Responder : ResponseOK(o)'
  BY <1>1, <1>2, ResponsesStand
<1>13. \A u \in Turn \ {t} : SameTurn(u)
  BY <1>1, <1>2, <1>6, <1>9 DEF SameTurn, Hand
<1>14. TurnOK(t)'
  <2>1. Unborn(t)' /\ QueuedIsKept(t)'
    BY <1>2, <1>3, <1>4, <1>5, <1>6, <1>9, Statuses DEF Unborn, QueuedIsKept
  <2>2. BeforeItsStart(t)'
    BY <1>1, <1>2, <1>4, <1>9 DEF BeforeItsStart
  <2>3. InHand(t)'
    BY <1>2, <1>4, <1>5, <1>6, <1>9 DEF InHand
  <2>4. PlaysFair(t)'
    <3>1. ~InPlay(t)
      BY <1>4 DEF InPlay, NotAsking, Answering
    <3> QED
      BY <1>1, <1>2, <1>4, <1>9, <3>1 DEF PlaysFair
  <2> QED
    BY <2>1, <2>2, <2>3, <2>4 DEF TurnOK
<1>15. Calm
  BY <1>4, <1>6, Statuses DEF Calm
<1> QED
  BY <1>1, <1>7, <1>8, <1>10, <1>11, <1>12, <1>13, <1>14, <1>15, OneTurnSteps

Joined(q, t) == Append(q, t)

ComesAfter(t, q) == \A i \in 1..Len(q) : stamp[q[i]] < stamp[t]

\* A turn that joins its queue comes last in the order of the stamps.
LEMMA AppendSorted ==
  ASSUME NEW q \in Seq(Turn), NEW t \in Turn, SortedFor(q, SessionOf[t]),
         ComesAfter(t, q), NEW r, r = Joined(q, t)
  PROVE  /\ r \in Seq(Turn) /\ SortedFor(r, SessionOf[t])
         /\ \A u : Among(u, r) <=> Among(u, q) \/ u = t
<1>1. /\ r \in Seq(Turn) /\ Len(r) = Len(q) + 1 /\ Len(q) \in Nat
      /\ \A i \in 1..Len(q) : r[i] = q[i]
      /\ r[Len(q) + 1] = t
  BY AppendProperties, LenProperties DEF Joined
<1>2. \A i \in 1..Len(r) : i \in 1..Len(q) \/ i = Len(q) + 1
  BY <1>1
<1>3. \A i \in 1..Len(r) : SessionOf[r[i]] = SessionOf[t]
  BY <1>1, <1>2 DEF SortedFor
<1>4. ASSUME NEW i \in 1..Len(r), NEW j \in 1..Len(r), i < j PROVE stamp[r[i]] < stamp[r[j]]
  <2>1. i \in 1..Len(q) /\ r[i] = q[i]
    BY <1>1, <1>2, <1>4
  <2>2. CASE j \in 1..Len(q)
    BY <1>1, <1>4, <2>1, <2>2 DEF SortedFor
  <2>3. CASE j = Len(q) + 1
    BY <1>1, <2>1, <2>3 DEF ComesAfter
  <2> QED
    BY <1>2, <2>2, <2>3
<1>5. ASSUME NEW u PROVE Among(u, r) <=> Among(u, q) \/ u = t
  <2>1. Among(u, q) => Among(u, r)
    BY <1>1 DEF Among
  <2>2. Among(t, r)
    BY <1>1 DEF Among
  <2>3. Among(u, r) => Among(u, q) \/ u = t
    BY <1>1, <1>2 DEF Among
  <2> QED
    BY <2>1, <2>2, <2>3
<1> QED
  BY <1>1, <1>3, <1>4, <1>5 DEF SortedFor

LEMMA Pushes ==
  ASSUME Inv, Push
  PROVE  Inv' /\ Calm
<1> SUFFICES ASSUME NEW t, t = sched.turn PROVE Inv' /\ Calm
  OBVIOUS
<1>1. /\ TypeOK /\ LockOK /\ QueuesOK /\ SlotsOK /\ sched.pc = "entered" /\ t \in Turn
      /\ \A o \in Responder : ResponseOK(o)
  BY DEF Inv, Push, LockOK
<1>2. /\ sched' = LockFree
      /\ queue' = IF sched.queued THEN [queue EXCEPT ![SessionOf[t]] = Append(@, t)] ELSE queue
      /\ Save([u \in {t} |-> IF sched.queued THEN "queued" ELSE "running"])
      /\ thread' = IF sched.queued THEN thread ELSE [thread EXCEPT ![t] = "due"]
      /\ up' = up /\ job' = job /\ cancelled' = cancelled /\ outcome' = outcome
      /\ resp' = resp /\ intr' = intr /\ payload' = payload /\ leased' = leased
      /\ pending' = pending /\ event' = event /\ stamp' = stamp /\ aged' = aged
      /\ asks' = asks /\ crashes' = crashes /\ starts' = starts /\ contested' = contested
  BY DEF Push, ghosts
<1>3. TurnOK(t) /\ Hand(t)
  BY <1>1 DEF Inv, Hand
<1>4. /\ record[t] # NoJob /\ starts[t] = 0 /\ thread[t] = "none"
      /\ ~InQueue(t) /\ NotAsking(t)
      /\ sched.queued <=> stamp[t] # 0
      /\ intr[t] = "none" => event[t] = "none" /\ job[t] = IF sched.queued THEN "queued"
                                                           ELSE "running"
      /\ job[t] = "queued" => t \in payload /\ t \in leased /\ event[t] = "none" /\ sched.queued
      /\ t \in payload => stamp[t] # 0 /\ event[t] = "none"
  BY <1>1, <1>3 DEF TurnOK, InHand, Unborn, BeforeItsStart, QueuedIsKept
<1>5. \A u \in Turn : SessionOf[u] \in Session
  BY SchedulerAssumption
<1>6. /\ index' \in [Turn -> JobStatus] /\ record' \in [Turn -> JobStatus]
      /\ index'[t] = IF sched.queued THEN "queued" ELSE "running"
      /\ \A u \in Turn \ {t} : index'[u] = index[u] /\ record'[u] = record[u]
      /\ record'[t] # NoJob
  <2> DEFINE s == IF sched.queued THEN "queued" ELSE "running"
  <2>1. s \in JobStatus /\ s # NoJob
    BY Statuses
  <2>2. Save([u \in {t} |-> s])
    BY <1>2
  <2> HIDE DEF s
  <2>3. /\ index' \in [Turn -> JobStatus] /\ record' \in [Turn -> JobStatus] /\ index'[t] = s
        /\ \A u \in Turn \ {t} : index'[u] = index[u] /\ record'[u] = record[u]
        /\ record'[t] # NoJob
    BY <1>1, <1>4, <2>1, <2>2, SaveOne
  <2> QED
    BY <2>3 DEF s
<1>7. /\ queue' \in [Session -> Seq(Turn)] /\ QueuesSorted(queue')
      /\ \A u \in Turn : Among(u, queue'[SessionOf[u]])
           <=> Among(u, queue[SessionOf[u]]) \/ (u = t /\ sched.queued)
  <2>1. queue \in [Session -> Seq(Turn)] /\ QueuesSorted(queue)
    BY <1>1, QueuesSortedNow DEF TypeOK
  <2>2. CASE sched.queued
    <3> DEFINE q == queue[SessionOf[t]]
               r == Joined(q, t)
    <3>1. q \in Seq(Turn) /\ SortedFor(q, SessionOf[t]) /\ r = Joined(q, t)
      BY <1>1, <1>5, <2>1 DEF QueuesSorted
    <3>2. ComesAfter(t, q)
      <4> SUFFICES ASSUME NEW i \in 1..Len(q) PROVE stamp[q[i]] < stamp[t]
        BY DEF ComesAfter
      <4>1. q[i] \in Turn /\ InQueue(q[i])
        BY <1>1, <1>5, QueueMembers
      <4> HIDE DEF q
      <4> QED
        BY <1>1, <2>2, <4>1 DEF QueuesOK
    <3>3. queue' = [queue EXCEPT ![SessionOf[t]] = r]
      BY <1>2, <2>2 DEF Joined
    <3> HIDE DEF q, r
    <3>4. /\ r \in Seq(Turn) /\ SortedFor(r, SessionOf[t])
          /\ \A u : Among(u, r) <=> Among(u, q) \/ u = t
      BY <1>1, <3>1, <3>2, AppendSorted
    <3>5. /\ queue' \in [Session -> Seq(Turn)] /\ queue'[SessionOf[t]] = r
          /\ \A s \in Session : s # SessionOf[t] => queue'[s] = queue[s]
      BY <1>1, <1>5, <2>1, <3>3, <3>4
    <3>6. QueuesSorted(queue')
      BY <2>1, <3>4, <3>5 DEF QueuesSorted
    <3>7. ASSUME NEW u \in Turn
          PROVE  Among(u, queue'[SessionOf[u]]) <=> Among(u, queue[SessionOf[u]]) \/ u = t
      BY <1>1, <1>5, <3>4, <3>5 DEF q
    <3> QED
      BY <2>2, <3>5, <3>6, <3>7
  <2>3. CASE ~sched.queued
    BY <1>2, <2>1, <2>3
  <2> QED
    BY <2>2, <2>3
<1>8. \A u \in Turn : InQueue(u)' <=> InQueue(u) \/ (u = t /\ sched.queued)
  <2>1. ASSUME NEW u \in Turn PROVE InQueue(u) <=> Among(u, queue[SessionOf[u]])
    BY <1>1, InQueueIsAmong DEF InQueue, TypeOK
  <2>2. ASSUME NEW u \in Turn PROVE InQueue(u)' <=> Among(u, queue'[SessionOf[u]])
    BY <1>7, InQueueIsAmong DEF InQueue
  <2> QED
    BY <1>7, <2>1, <2>2
<1>9. /\ thread' \in [Turn -> {"none", "due", "run", "stop", "next"}]
      /\ thread'[t] = IF sched.queued THEN "none" ELSE "due"
      /\ \A u \in Turn \ {t} : thread'[u] = thread[u]
  BY <1>1, <1>2, <1>4 DEF TypeOK
<1>10. TypeOK'
  BY <1>1, <1>2, <1>6, <1>7, <1>9 DEF TypeOK, LockFree
<1>11. LockOK'
  BY <1>1, <1>2 DEF LockOK, LockFree
<1>12. QueuesOK'
  <2>1. Stamped' = Stamped
    BY <1>2 DEF Stamped
  <2> QED
    BY <1>1, <1>2, <1>7, <2>1 DEF QueuesOK, QueuesSorted, SortedFor, LockFree
<1>13. SlotsOK'
  <2>1. Live' = Live
    BY <1>2 DEF Live
  <2> QED
    BY <1>1, <1>2, <2>1, NoNewLive DEF LockFree
<1>14. \A o \in Responder : ResponseOK(o)'
  BY <1>1, <1>2, ResponsesStand
<1>15. \A u \in Turn : /\ NotAsking(u)' <=> NotAsking(u)
                       /\ InPlay(u)' => InPlay(u)
                       /\ ~Hand(u)'
  <2>1. \A u \in Turn : thread'[u] = "run" => thread[u] = "run"
    BY <1>9
  <2> QED
    BY <1>2, <2>1 DEF NotAsking, InPlay, Answering, Hand, LockFree
<1>16. \A u \in Turn \ {t} : SameTurn(u)
  BY <1>1, <1>2, <1>6, <1>8, <1>9, <1>15 DEF SameTurn, Hand
<1>17. TurnOK(t)'
  <2>1. Unborn(t)' /\ InHand(t)'
    BY <1>1, <1>6, <1>15 DEF Unborn, InHand
  <2>2. QueuedIsKept(t)'
    BY <1>1, <1>2, <1>4, <1>6, <1>8 DEF QueuedIsKept
  <2>3. BeforeItsStart(t)'
    BY <1>1, <1>2, <1>4, <1>8, <1>9, <1>15 DEF BeforeItsStart
  <2>4. PlaysFair(t)'
    <3>1. ~InPlay(t)
      BY <1>4 DEF InPlay, NotAsking, Answering
    <3> QED
      BY <1>1, <1>2, <1>4, <1>9, <1>15, <3>1 DEF PlaysFair
  <2> QED
    BY <2>1, <2>2, <2>3, <2>4 DEF TurnOK
<1>18. Calm
  BY <1>2, Statuses DEF Calm
<1> QED
  BY <1>1, <1>10, <1>11, <1>12, <1>13, <1>14, <1>16, <1>17, <1>18, OneTurnSteps

\* The turn taken from its queue: what the holder of the lock knows of it.
LEMMA PoppedTurn ==
  ASSUME Inv, sched.pc \in {"popped", "persisted"}, NEW t, t = sched.turn
  PROVE  /\ t \in Turn /\ TurnOK(t) /\ Hand(t) /\ record[t] # NoJob
         /\ starts[t] = 0 /\ thread[t] = "none" /\ ~InQueue(t) /\ NotAsking(t) /\ ~InPlay(t)
         /\ job[t] # "queued"
         /\ sched.queued /\ intr[t] = "none" => job[t] = "running" /\ event[t] = "none"
<1>1. t \in Turn /\ TurnOK(t) /\ Hand(t)
  BY DEF Inv, LockOK, Hand
<1>2. record[t] # NoJob /\ starts[t] = 0 /\ thread[t] = "none" /\ ~InQueue(t) /\ NotAsking(t)
  BY <1>1 DEF TurnOK, InHand, Unborn, BeforeItsStart
<1>3. job[t] # "queued"
  BY <1>1, <1>2 DEF TurnOK, QueuedIsKept
<1>4. ~InPlay(t)
  BY <1>2 DEF InPlay, NotAsking, Answering
<1> QED
  BY <1>1, <1>2, <1>3, <1>4 DEF TurnOK, InHand

LEMMA PopsPersist ==
  ASSUME Inv, PopPersist
  PROVE  Inv' /\ Calm
<1> SUFFICES ASSUME NEW t, t = sched.turn PROVE Inv' /\ Calm
  OBVIOUS
<1>1. /\ TypeOK /\ LockOK /\ QueuesOK /\ SlotsOK /\ sched.pc = "popped"
      /\ \A o \in Responder : ResponseOK(o)
  BY DEF Inv, PopPersist
<1>2. /\ sched' = [sched EXCEPT !.pc = "persisted"]
      /\ IF sched.queued THEN Save([u \in {t} |-> "running"])
         ELSE index' = index /\ record' = record
      /\ up' = up /\ job' = job /\ cancelled' = cancelled /\ queue' = queue
      /\ thread' = thread /\ outcome' = outcome /\ resp' = resp /\ intr' = intr
      /\ payload' = payload /\ leased' = leased /\ pending' = pending /\ event' = event
      /\ stamp' = stamp /\ aged' = aged /\ asks' = asks /\ crashes' = crashes
      /\ starts' = starts /\ contested' = contested
  BY DEF PopPersist, ghosts
<1>3. /\ t \in Turn /\ TurnOK(t) /\ Hand(t) /\ record[t] # NoJob
      /\ starts[t] = 0 /\ thread[t] = "none" /\ ~InQueue(t) /\ NotAsking(t) /\ ~InPlay(t)
      /\ job[t] # "queued"
      /\ sched.queued /\ intr[t] = "none" => job[t] = "running" /\ event[t] = "none"
  BY <1>1, PoppedTurn
<1>4. /\ sched' \in [pc : {"free", "created", "leased", "admitted", "entered", "popped", "persisted"},
                     turn : Turn \cup {NoTurn}, queued : BOOLEAN]
      /\ sched'.pc = "persisted" /\ sched'.turn = t /\ sched'.queued = sched.queued
  BY <1>1, <1>2 DEF TypeOK
<1>5. /\ index' \in [Turn -> JobStatus] /\ record' \in [Turn -> JobStatus]
      /\ \A u \in Turn \ {t} : index'[u] = index[u] /\ record'[u] = record[u]
      /\ record'[t] # NoJob
  <2>1. "running" \in JobStatus /\ "running" # NoJob
    BY Statuses
  <2>2. CASE sched.queued
    <3>1. Save([u \in {t} |-> "running"])
      BY <1>2, <2>2
    <3> QED
      BY <1>1, <1>3, <2>1, <3>1, SaveOne
  <2>3. CASE ~sched.queued
    BY <1>1, <1>2, <1>3, <2>3 DEF TypeOK
  <2> QED
    BY <2>2, <2>3
<1>6. TypeOK'
  BY <1>1, <1>2, <1>4, <1>5 DEF TypeOK
<1>7. LockOK'
  BY <1>1, <1>2, <1>3, <1>4 DEF LockOK
<1>8. QueuesOK'
  BY <1>1, <1>2, <1>4, QueuesUntouched
<1>9. \A o \in Responder : ResponseOK(o)'
  BY <1>1, <1>2, ResponsesStand
<1>10. \A u \in Turn : /\ InQueue(u)' <=> InQueue(u)
                       /\ NotAsking(u)' <=> NotAsking(u)
                       /\ InPlay(u)' <=> InPlay(u)
                       /\ Hand(u)' <=> Hand(u)
  BY <1>1, <1>2, <1>4 DEF InQueue, NotAsking, InPlay, Answering, Hand
<1>11. SlotsOK'
  <2>1. Live' = Live
    BY <1>2 DEF Live
  <2> QED
    BY <1>1, <1>4, <2>1, NoNewLive
<1>12. \A u \in Turn \ {t} : SameTurn(u)
  BY <1>2, <1>5, <1>10 DEF SameTurn, Hand
<1>13. TurnOK(t)'
  <2>1. Unborn(t)' /\ QueuedIsKept(t)'
    BY <1>2, <1>3, <1>5 DEF Unborn, QueuedIsKept
  <2>2. BeforeItsStart(t)'
    BY <1>2, <1>3, <1>10 DEF TurnOK, BeforeItsStart
  <2>3. InHand(t)'
    BY <1>2, <1>3, <1>4, <1>10 DEF InHand
  <2>4. PlaysFair(t)'
    BY <1>2, <1>3, <1>10 DEF TurnOK, PlaysFair
  <2> QED
    BY <2>1, <2>2, <2>3, <2>4 DEF TurnOK
<1>14. Calm
  BY <1>2, Statuses DEF Calm
<1> QED
  BY <1>3, <1>6, <1>7, <1>8, <1>9, <1>11, <1>12, <1>13, <1>14, OneTurnSteps

\* Its worker is spawned, or it has failed, or it was called off before.
LEMMA PopsEnd ==
  ASSUME Inv, PopDone
  PROVE  Inv' /\ Calm
<1> SUFFICES ASSUME NEW t, t = sched.turn PROVE Inv' /\ Calm
  OBVIOUS
<1>1. /\ TypeOK /\ LockOK /\ QueuesOK /\ SlotsOK /\ sched.pc = "persisted"
      /\ \A o \in Responder : ResponseOK(o)
  BY DEF Inv, PopDone
<1>2. /\ sched' = LockFree /\ payload' = payload \ {t} /\ leased' = leased \ {t}
      /\ up' = up /\ cancelled' = cancelled /\ queue' = queue /\ outcome' = outcome
      /\ resp' = resp /\ intr' = intr /\ pending' = pending /\ stamp' = stamp
      /\ aged' = aged /\ asks' = asks /\ crashes' = crashes /\ contested' = contested
  BY DEF PopDone
<1>3. \/ /\ sched.queued
         /\ thread' = [thread EXCEPT ![t] = "run"] /\ starts' = [starts EXCEPT ![t] = @ + 1]
         /\ job' = job /\ index' = index /\ record' = record /\ event' = event
      \/ /\ event' = [event EXCEPT ![t] = "failed"] /\ job' = [job EXCEPT ![t] = "failed"]
         /\ Save([u \in {t} |-> "failed"])
         /\ thread' = thread /\ starts' = starts
      \/ /\ job' = job /\ index' = index /\ record' = record /\ event' = event
         /\ thread' = thread /\ starts' = starts
  BY DEF PopDone
<1>4. /\ t \in Turn /\ TurnOK(t) /\ Hand(t) /\ record[t] # NoJob
      /\ starts[t] = 0 /\ thread[t] = "none" /\ ~InQueue(t) /\ NotAsking(t) /\ ~InPlay(t)
      /\ job[t] # "queued"
      /\ sched.queued /\ intr[t] = "none" => job[t] = "running" /\ event[t] = "none"
  BY <1>1, PoppedTurn
<1>5. /\ thread' \in [Turn -> {"none", "due", "run", "stop", "next"}]
      /\ starts' \in [Turn -> Nat] /\ thread'[t] \in {"none", "run"}
      /\ starts'[t] = IF thread'[t] = "run" THEN 1 ELSE 0
      /\ \A u \in Turn \ {t} : thread'[u] = thread[u] /\ starts'[u] = starts[u]
      /\ thread'[t] = "run" => sched.queued /\ job' = job /\ event' = event
  <2>1. /\ thread \in [Turn -> {"none", "due", "run", "stop", "next"}]
        /\ starts \in [Turn -> Nat]
    BY <1>1 DEF TypeOK
  <2> QED
    BY <1>3, <1>4, <2>1
<1>6. /\ job' \in [Turn -> JobStatus] /\ event' \in [Turn -> Outcome]
      /\ \/ job'[t] = job[t] /\ event'[t] = event[t]
         \/ job'[t] = "failed" /\ event'[t] = "failed"
      /\ \A u \in Turn \ {t} : job'[u] = job[u] /\ event'[u] = event[u]
  <2>1. job \in [Turn -> JobStatus] /\ event \in [Turn -> Outcome]
    BY <1>1 DEF TypeOK
  <2>2. "failed" \in JobStatus /\ "failed" \in Outcome
    BY Statuses DEF Outcome
  <2> QED
    BY <1>3, <1>4, <2>1, <2>2
<1>7. /\ index' \in [Turn -> JobStatus] /\ record' \in [Turn -> JobStatus]
      /\ \A u \in Turn \ {t} : index'[u] = index[u] /\ record'[u] = record[u]
      /\ record'[t] # NoJob
  <2>1. "failed" \in JobStatus /\ "failed" # NoJob
    BY Statuses
  <2>2. CASE Save([u \in {t} |-> "failed"])
    BY <1>1, <1>4, <2>1, <2>2, SaveOne
  <2>3. CASE index' = index /\ record' = record
    BY <1>1, <1>4, <2>3 DEF TypeOK
  <2> QED
    BY <1>3, <2>2, <2>3
<1>8. TypeOK'
  BY <1>1, <1>2, <1>5, <1>6, <1>7 DEF TypeOK, LockFree
<1>9. LockOK'
  BY <1>1, <1>2 DEF LockOK, LockFree
<1>10. QueuesOK'
  BY <1>1, <1>2, QueuesUntouched DEF LockFree
<1>11. \A o \in Responder : ResponseOK(o)'
  <2>1. \A u \in Turn : event[u] # "none" => event'[u] # "none"
    BY <1>6
  <2> QED
    BY <1>1, <1>2, <2>1, ResponsesStand
<1>12. \A u \in Turn : /\ InQueue(u)' <=> InQueue(u)
                       /\ NotAsking(u)' <=> NotAsking(u)
                       /\ ~Hand(u)'
  BY <1>2 DEF InQueue, NotAsking, Hand, LockFree
<1>13. \A u \in Turn : InPlay(u)' => InPlay(u) \/ (u = t /\ thread'[t] = "run")
  BY <1>2, <1>5 DEF InPlay, Answering
<1>14. SlotsOK'
  <2>1. \A u \in Turn : u \in Live' => u \in Live
    BY <1>2, <1>6 DEF Live
  <2> QED
    BY <1>1, <1>2, <2>1, NoNewLive DEF LockFree
<1>15. \A u \in Turn \ {t} : SameTurn(u)
  BY <1>2, <1>4, <1>5, <1>6, <1>7, <1>12, <1>13 DEF SameTurn, Hand
<1>16. TurnOK(t)'
  <2>1. Unborn(t)' /\ QueuedIsKept(t)' /\ InHand(t)'
    BY <1>2, <1>4, <1>6, <1>7, <1>12 DEF Unborn, QueuedIsKept, InHand
  <2>2. BeforeItsStart(t)'
    BY <1>2, <1>4, <1>5, <1>12 DEF BeforeItsStart
  <2>3. PlaysFair(t)'
    BY <1>2, <1>4, <1>5, <1>6, <1>13, Statuses DEF TurnOK, PlaysFair
  <2> QED
    BY <2>1, <2>2, <2>3 DEF TurnOK
<1>17. Calm
  BY <1>4, <1>6, Statuses DEF Calm
<1> QED
  BY <1>4, <1>8, <1>9, <1>10, <1>11, <1>14, <1>15, <1>16, <1>17, OneTurnSteps

-----------------------------------------------------------------------------
(* Expiry, and the turn that is popped next.                               *)

LEMMA SaveMany ==
  ASSUME TypeOK, NEW S \in SUBSET Turn, NEW c \in [S -> JobStatus \ {NoJob}], Save(c)
  PROVE  /\ index' \in [Turn -> JobStatus] /\ record' \in [Turn -> JobStatus]
         /\ \A u \in Turn : index'[u] = IF u \in S THEN c[u] ELSE index[u]
         /\ \A u \in Turn \ S : record'[u] = record[u]
         /\ \A u \in Turn : record'[u] = NoJob => record[u] = NoJob
<1>1. DOMAIN c = S /\ \A u \in S : c[u] \in JobStatus /\ c[u] # NoJob
  OBVIOUS
<1>2. /\ index' = [u \in Turn |-> IF u \in S THEN c[u] ELSE index[u]]
      /\ record' = [u \in Turn |-> IF u \in S /\ CanTransition(record[u], c[u])
                                   THEN c[u] ELSE record[u]]
  BY <1>1 DEF Save
<1>3. index \in [Turn -> JobStatus] /\ record \in [Turn -> JobStatus]
  BY DEF TypeOK
<1>4. \A u \in Turn : index'[u] = IF u \in S THEN c[u] ELSE index[u]
  BY <1>2
<1>5. \A u \in Turn : record'[u] = IF u \in S /\ CanTransition(record[u], c[u])
                                   THEN c[u] ELSE record[u]
  BY <1>2
<1>6. index' \in [Turn -> JobStatus]
  BY <1>1, <1>2, <1>3, <1>4
<1>7. record' \in [Turn -> JobStatus]
  BY <1>1, <1>2, <1>3, <1>5
<1> QED
  BY <1>1, <1>4, <1>5, <1>6, <1>7

LEMMA UnexpiredQueues ==
  ASSUME TypeOK, QueuesOK
  PROVE  /\ Unexpired \in [Session -> Seq(Turn)] /\ QueuesSorted(Unexpired)
         /\ \A s \in Session, t \in Turn :
              Among(t, Unexpired[s]) <=> Among(t, queue[s]) /\ ~TimedOut(t)
         /\ \A t \in Turn : InQueue(t) <=> Among(t, queue[SessionOf[t]])
<1> DEFINE keep == {t \in Turn : ~TimedOut(t)}
<1>1. QueuesSorted(queue)
  BY QueuesSortedNow
<1>2. Unexpired = [s \in Session |-> Retain(queue[s], keep)]
  BY DEF Unexpired
<1>3. \A t \in Turn : t \in keep <=> ~TimedOut(t)
  OBVIOUS
<1> HIDE DEF keep
<1>4. /\ Unexpired \in [Session -> Seq(Turn)] /\ QueuesSorted(Unexpired)
      /\ \A s \in Session, t \in Turn :
           Among(t, Unexpired[s]) <=> Among(t, queue[s]) /\ t \in keep
  BY <1>1, <1>2, RetainedQueues
<1>5. ASSUME NEW t \in Turn PROVE InQueue(t) <=> Among(t, queue[SessionOf[t]])
  BY InQueueIsAmong DEF InQueue, TypeOK
<1> QED
  BY <1>3, <1>4, <1>5

\* What a turn goes through that is not popped while the queues are looked at.
LEMMA UnpoppedTurn ==
  ASSUME Inv, sched = LockFree, NEW u \in Turn,
         Save([v \in Expired |-> "cancelled"]),
         job'[u] = JobsUnexpired[u],
         payload' = payload \ Expired, leased' = leased \ Expired,
         InQueue(u)' <=> InQueue(u) /\ ~TimedOut(u),
         thread'[u] = thread[u] \/ (thread[u] = "next" /\ thread'[u] = "none"),
         ~Hand(u)', outcome' = outcome, resp' = resp, intr' = intr, pending' = pending,
         event' = event, stamp' = stamp, starts' = starts, contested' = contested
  PROVE  /\ TurnOK(u)'
         /\ u \in Live' => u \in Live /\ u \notin Expired
         /\ job[u] = "queued" => job'[u] # "running"
<1>1. TypeOK /\ TurnOK(u) /\ ~Hand(u)
  BY DEF Inv, Hand, LockFree
<1>2. /\ \A v \in Turn \ Expired : index'[v] = index[v] /\ record'[v] = record[v]
      /\ \A v \in Turn : record'[v] = NoJob => record[v] = NoJob
  <2> DEFINE c == [v \in Expired |-> "cancelled"]
  <2>1. Expired \in SUBSET Turn /\ c \in [Expired -> JobStatus \ {NoJob}] /\ Save(c)
    BY Statuses DEF Expired
  <2> HIDE DEF c
  <2> QED
    BY <1>1, <2>1, SaveMany
<1>3. /\ NotAsking(u)' <=> NotAsking(u)
      /\ InPlay(u)' => InPlay(u)
  BY DEF NotAsking, InPlay, Answering
<1>4. job'[u] = IF u \in Expired THEN "cancelled" ELSE job[u]
  BY DEF JobsUnexpired
<1>5. u \in Expired <=> InQueue(u) /\ TimedOut(u)
  BY DEF Expired
<1>6. u \in Expired => /\ starts[u] = 0 /\ thread[u] = "none" /\ stamp[u] # 0
                       /\ record[u] # NoJob /\ NotAsking(u) /\ ~InPlay(u)
  <2>1. u \in Expired => /\ starts[u] = 0 /\ thread[u] = "none" /\ stamp[u] # 0
                         /\ record[u] # NoJob /\ NotAsking(u)
    BY <1>1, <1>5 DEF TurnOK, BeforeItsStart, Unborn
  <2> QED
    BY <2>1 DEF InPlay, NotAsking, Answering
<1>7. Unborn(u)'
  BY <1>1, <1>2, <1>4, <1>6 DEF TurnOK, Unborn
<1>8. BeforeItsStart(u)'
  BY <1>1, <1>3, <1>4, <1>6 DEF TurnOK, BeforeItsStart
<1>9. QueuedIsKept(u)'
  BY <1>1, <1>2, <1>4, <1>5 DEF TurnOK, QueuedIsKept
<1>10. InHand(u)'
  BY DEF InHand
<1>11. PlaysFair(u)'
  BY <1>1, <1>3, <1>4, <1>6, Statuses DEF TurnOK, PlaysFair
<1>12. u \in Live' => u \in Live /\ u \notin Expired
  BY <1>4, Statuses DEF Live, IsTerminal, Terminal
<1> QED
  BY <1>4, <1>7, <1>8, <1>9, <1>10, <1>11, <1>12 DEF TurnOK

LEMMA Expires ==
  ASSUME Inv, Expire \/ PopNothing
  PROVE  Inv' /\ Calm
<1>1. /\ TypeOK /\ LockOK /\ QueuesOK /\ SlotsOK
      /\ \A o \in Responder : ResponseOK(o)
  BY DEF Inv
<1>2. /\ sched = LockFree /\ job' = JobsUnexpired /\ queue' = Unexpired
      /\ Save([u \in Expired |-> "cancelled"])
      /\ payload' = payload \ Expired /\ leased' = leased \ Expired
      /\ cancelled' = cancelled /\ sched' = sched /\ outcome' = outcome /\ resp' = resp
      /\ intr' = intr /\ pending' = pending /\ event' = event /\ stamp' = stamp
      /\ aged' = aged /\ asks' = asks /\ crashes' = crashes /\ starts' = starts
      /\ contested' = contested
  BY DEF Expire, PopNothing, MayPop, ghosts
<1>3. /\ up' \in {"serving", "starting", "down"} /\ (up' = "down" => up = "down")
      /\ thread' \in [Turn -> {"none", "due", "run", "stop", "next"}]
      /\ \A u \in Turn : thread'[u] = thread[u] \/ (thread[u] = "next" /\ thread'[u] = "none")
  <2>1. CASE Expire
    BY <1>1, <2>1 DEF Expire, TypeOK
  <2>2. CASE PopNothing
    BY <1>1, <2>2 DEF PopNothing, TypeOK
  <2> QED
    BY <2>1, <2>2
<1>4. /\ Unexpired \in [Session -> Seq(Turn)] /\ QueuesSorted(Unexpired)
      /\ \A s \in Session, t \in Turn :
           Among(t, Unexpired[s]) <=> Among(t, queue[s]) /\ ~TimedOut(t)
      /\ \A t \in Turn : InQueue(t) <=> Among(t, queue[SessionOf[t]])
  BY <1>1, UnexpiredQueues
<1>5. \A u \in Turn : InQueue(u)' <=> InQueue(u) /\ ~TimedOut(u)
  <2>1. ASSUME NEW u \in Turn PROVE InQueue(u)' <=> Among(u, queue'[SessionOf[u]])
    BY <1>2, <1>4, InQueueIsAmong DEF InQueue
  <2> QED
    BY <1>2, <1>4, <2>1, SchedulerAssumption
<1>6. index' \in [Turn -> JobStatus] /\ record' \in [Turn -> JobStatus]
  <2> DEFINE c == [v \in Expired |-> "cancelled"]
  <2>1. Expired \in SUBSET Turn /\ c \in [Expired -> JobStatus \ {NoJob}] /\ Save(c)
    BY <1>2, Statuses DEF Expired
  <2> HIDE DEF c
  <2> QED
    BY <1>1, <2>1, SaveMany
<1>7. job' \in [Turn -> JobStatus]
  BY <1>1, <1>2, Statuses DEF JobsUnexpired, TypeOK
<1>8. TypeOK'
  BY <1>1, <1>2, <1>3, <1>4, <1>6, <1>7 DEF TypeOK
<1>9. LockOK'
  BY <1>1, <1>2, <1>3 DEF LockOK
<1>10. QueuesOK'
  BY <1>1, <1>2, <1>4, <1>5, QueuesStaySorted
<1>11. \A o \in Responder : ResponseOK(o)'
  BY <1>1, <1>2, ResponsesStand
<1>12. ASSUME NEW u \in Turn
       PROVE  /\ TurnOK(u)'
              /\ u \in Live' => u \in Live /\ u \notin Expired
              /\ job[u] = "queued" => job'[u] # "running"
  <2>1. ~Hand(u)'
    BY <1>2 DEF Hand, LockFree
  <2>2. job'[u] = JobsUnexpired[u]
    BY <1>2
  <2> QED
    BY <1>2, <1>3, <1>5, <2>1, <2>2, UnpoppedTurn
<1>13. SlotsOK'
  BY <1>1, <1>2, <1>12, NoNewLive
<1> QED
  BY <1>8, <1>9, <1>10, <1>11, <1>12, <1>13 DEF Inv, Calm

Rest(q) == Tail(q)

\* Without its first turn a queue holds the later ones.
LEMMA RestSorted ==
  ASSUME TypeOK, NEW q \in Seq(Turn), q # <<>>, NEW s, SortedFor(q, s), NEW r, r = Rest(q)
  PROVE  /\ r \in Seq(Turn) /\ SortedFor(r, s)
         /\ q[1] \in Turn /\ SessionOf[q[1]] = s /\ Among(q[1], q)
         /\ \A u : Among(u, r) <=> Among(u, q) /\ u # q[1]
         /\ \A u : Among(u, r) => stamp[q[1]] < stamp[u]
<1>1. Len(q) \in Nat /\ Len(q) # 0
  BY LenProperties, EmptySeq
<1>2. /\ r \in Seq(Turn) /\ Len(r) = Len(q) - 1
      /\ \A i \in 1..Len(r) : r[i] = q[i + 1]
  BY HeadTailProperties DEF Rest
<1>3. \A i \in 1..Len(r) : i + 1 \in 1..Len(q) /\ 1 < i + 1
  BY <1>1, <1>2
<1>4. 1 \in 1..Len(q) /\ \A i \in 1..Len(q) : i = 1 \/ (i - 1 \in 1..Len(r) /\ r[i - 1] = q[i])
  <2>1. \A i \in 1..Len(q) : i = 1 \/ (i - 1 \in 1..Len(r) /\ (i - 1) + 1 = i)
    BY <1>1, <1>2
  <2> QED
    BY <1>1, <1>2, <2>1
<1>5. q[1] \in Turn /\ SessionOf[q[1]] = s /\ Among(q[1], q)
  BY <1>4, LenProperties DEF SortedFor, Among
<1>6. SortedFor(r, s)
  <2>1. \A i \in 1..Len(r) : SessionOf[r[i]] = s
    BY <1>2, <1>3 DEF SortedFor
  <2>2. ASSUME NEW i \in 1..Len(r), NEW j \in 1..Len(r), i < j PROVE stamp[r[i]] < stamp[r[j]]
    <3>1. i + 1 < j + 1
      BY <1>1, <1>2, <2>2
    <3> QED
      BY <1>2, <1>3, <3>1 DEF SortedFor
  <2> QED
    BY <2>1, <2>2 DEF SortedFor
<1>7. ASSUME NEW u, Among(u, r) PROVE Among(u, q) /\ stamp[q[1]] < stamp[u]
  <2>1. PICK i \in 1..Len(r) : r[i] = u
    BY <1>7 DEF Among
  <2>2. q[i + 1] = u /\ i + 1 \in 1..Len(q) /\ 1 < i + 1
    BY <1>2, <1>3, <2>1
  <2>3. stamp[q[1]] < stamp[q[i + 1]]
    BY <1>4, <2>2 DEF SortedFor
  <2> QED
    BY <2>2, <2>3 DEF Among
<1>8. ASSUME NEW u, Among(u, q), u # q[1] PROVE Among(u, r)
  BY <1>4, <1>8 DEF Among
<1>9. ASSUME NEW u, Among(u, r) PROVE u # q[1]
  <2>1. stamp[q[1]] < stamp[u] /\ stamp[q[1]] \in Nat
    BY <1>5, <1>7, <1>9 DEF TypeOK
  <2> QED
    BY <2>1
<1> QED
  BY <1>2, <1>5, <1>6, <1>7, <1>8, <1>9

\* Turns are started in the order of their stamps.
OrderKept ==
  \A t \in Turn :
    job[t] = "queued" /\ job'[t] = "running" =>
      \A u \in Turn : SessionOf[u] = SessionOf[t] /\ InQueue(u)' => stamp[t] < stamp[u]

\* The turn a pop takes off its queue, and what is left of the queues.
LEMMA PoppedOne ==
  ASSUME TypeOK, QueuesOK, PopSelect
  PROVE  \E t \in Turn :
           /\ InQueue(t) /\ ~TimedOut(t)
           /\ ~SessionHasRunningTurn(JobsUnexpired, SessionOf[t])
           /\ ~(RunningCount(JobsUnexpired) >= Quota)
           /\ queue' \in [Session -> Seq(Turn)] /\ QueuesSorted(queue')
           /\ \A u \in Turn : InQueue(u)' <=> InQueue(u) /\ ~TimedOut(u) /\ u # t
           /\ \A u \in Turn : SessionOf[u] = SessionOf[t] /\ InQueue(u)' => stamp[t] < stamp[u]
           /\ job' \in [Turn -> JobStatus]
           /\ \A u \in Turn \ {t} : job'[u] = JobsUnexpired[u]
           /\ job'[t] = IF job[t] = "queued" THEN "running" ELSE job[t]
           /\ sched' = [pc |-> "popped", turn |-> t, queued |-> job[t] = "queued"]
<1>1. PICK t \in Schedulable(JobsUnexpired, Unexpired) :
        /\ job' = [JobsUnexpired EXCEPT ![t] =
                     IF JobsUnexpired[t] = "queued" THEN "running" ELSE JobsUnexpired[t]]
        /\ queue' = [Unexpired EXCEPT ![SessionOf[t]] = Rest(@)]
        /\ sched' = [pc |-> "popped", turn |-> t, queued |-> JobsUnexpired[t] = "queued"]
  BY DEF PopSelect, Rest
<1>2. /\ Unexpired \in [Session -> Seq(Turn)] /\ QueuesSorted(Unexpired)
      /\ \A s \in Session, u \in Turn :
           Among(u, Unexpired[s]) <=> Among(u, queue[s]) /\ ~TimedOut(u)
      /\ \A u \in Turn : InQueue(u) <=> Among(u, queue[SessionOf[u]])
  BY UnexpiredQueues
<1>3. PICK s \in Session :
        /\ Unexpired[s] # <<>> /\ t = Unexpired[s][1]
        /\ ~SessionHasRunningTurn(JobsUnexpired, s)
        /\ ~(RunningCount(JobsUnexpired) >= Quota)
  BY <1>1 DEF Schedulable, Candidates
<1> DEFINE r == Rest(Unexpired[s])
<1>4. /\ t \in Turn /\ SessionOf[t] = s /\ Among(t, Unexpired[s])
      /\ r \in Seq(Turn) /\ SortedFor(r, s)
      /\ \A u : Among(u, r) <=> Among(u, Unexpired[s]) /\ u # t
      /\ \A u : Among(u, r) => stamp[t] < stamp[u]
  <2>1. Unexpired[s] \in Seq(Turn) /\ SortedFor(Unexpired[s], s)
    BY <1>2 DEF QueuesSorted
  <2> QED
    BY <1>3, <2>1, RestSorted
<1>5. InQueue(t) /\ ~TimedOut(t) /\ t \notin Expired /\ JobsUnexpired[t] = job[t]
  BY <1>2, <1>4 DEF Expired, JobsUnexpired
<1>6. /\ queue' \in [Session -> Seq(Turn)] /\ queue'[s] = r
      /\ \A o \in Session : o # s => queue'[o] = Unexpired[o]
  BY <1>1, <1>2, <1>4
<1> HIDE DEF r
<1>7. QueuesSorted(queue')
  BY <1>2, <1>4, <1>6 DEF QueuesSorted
<1>8. \A u \in Turn : InQueue(u)' <=> InQueue(u) /\ ~TimedOut(u) /\ u # t
  <2>1. ASSUME NEW u \in Turn PROVE InQueue(u)' <=> Among(u, queue'[SessionOf[u]])
    BY <1>6, InQueueIsAmong DEF InQueue
  <2>2. \A u \in Turn : SessionOf[u] \in Session
    BY SchedulerAssumption
  <2> QED
    BY <1>2, <1>4, <1>6, <2>1, <2>2
<1>9. \A u \in Turn : SessionOf[u] = s /\ InQueue(u)' => stamp[t] < stamp[u]
  <2>1. ASSUME NEW u \in Turn PROVE InQueue(u)' <=> Among(u, queue'[SessionOf[u]])
    BY <1>6, InQueueIsAmong DEF InQueue
  <2> QED
    BY <1>4, <1>6, <2>1
<1>10. /\ job' \in [Turn -> JobStatus]
       /\ \A u \in Turn \ {t} : job'[u] = JobsUnexpired[u]
       /\ job'[t] = IF job[t] = "queued" THEN "running" ELSE job[t]
  <2>1. JobsUnexpired \in [Turn -> JobStatus]
    BY Statuses DEF JobsUnexpired, TypeOK
  <2> QED
    BY <1>1, <1>4, <1>5, <2>1, Statuses
<1>11. /\ sched' = [pc |-> "popped", turn |-> t, queued |-> job[t] = "queued"]
       /\ ~SessionHasRunningTurn(JobsUnexpired, SessionOf[t])
       /\ ~(RunningCount(JobsUnexpired) >= Quota)
       /\ \A u \in Turn : SessionOf[u] = SessionOf[t] /\ InQueue(u)' => stamp[t] < stamp[u]
  BY <1>1, <1>3, <1>4, <1>5, <1>9
<1> QED
  BY <1>4, <1>5, <1>6, <1>7, <1>8, <1>10, <1>11

LEMMA Pops ==
  ASSUME Inv, PopSelect
  PROVE  Inv' /\ OrderKept
<1>1. /\ TypeOK /\ LockOK /\ QueuesOK /\ SlotsOK
      /\ \A o \in Responder : ResponseOK(o)
  BY DEF Inv
<1>2. PICK t \in Turn :
        /\ InQueue(t) /\ ~TimedOut(t)
        /\ ~SessionHasRunningTurn(JobsUnexpired, SessionOf[t])
        /\ ~(RunningCount(JobsUnexpired) >= Quota)
        /\ queue' \in [Session -> Seq(Turn)] /\ QueuesSorted(queue')
        /\ \A u \in Turn : InQueue(u)' <=> InQueue(u) /\ ~TimedOut(u) /\ u # t
        /\ \A u \in Turn : SessionOf[u] = SessionOf[t] /\ InQueue(u)' => stamp[t] < stamp[u]
        /\ job' \in [Turn -> JobStatus]
        /\ \A u \in Turn \ {t} : job'[u] = JobsUnexpired[u]
        /\ job'[t] = IF job[t] = "queued" THEN "running" ELSE job[t]
        /\ sched' = [pc |-> "popped", turn |-> t, queued |-> job[t] = "queued"]
  BY <1>1, PoppedOne
<1>3. /\ sched = LockFree /\ (up = "starting" \/ \E u \in Turn : thread[u] = "next")
      /\ Save([u \in Expired |-> "cancelled"])
      /\ payload' = payload \ Expired /\ leased' = leased \ Expired
      /\ up' = up /\ cancelled' = cancelled /\ thread' = thread /\ outcome' = outcome
      /\ resp' = resp /\ intr' = intr /\ pending' = pending /\ event' = event
      /\ stamp' = stamp /\ aged' = aged /\ asks' = asks /\ crashes' = crashes
      /\ starts' = starts /\ contested' = contested
  BY DEF PopSelect, MayPop, ghosts
<1>4. /\ index' \in [Turn -> JobStatus] /\ record' \in [Turn -> JobStatus]
      /\ \A v \in Turn : record'[v] = NoJob => record[v] = NoJob
  <2> DEFINE c == [v \in Expired |-> "cancelled"]
  <2>1. Expired \in SUBSET Turn /\ c \in [Expired -> JobStatus \ {NoJob}] /\ Save(c)
    BY <1>3, Statuses DEF Expired
  <2> HIDE DEF c
  <2> QED
    BY <1>1, <2>1, SaveMany
<1>5. TypeOK'
  BY <1>1, <1>2, <1>3, <1>4 DEF TypeOK
<1>6. LockOK'
  BY <1>1, <1>2, <1>3 DEF LockOK
<1>7. QueuesOK'
  BY <1>1, <1>2, <1>3, QueuesStaySorted
<1>8. \A o \in Responder : ResponseOK(o)'
  BY <1>1, <1>3, ResponsesStand
<1>9. ASSUME NEW u \in Turn \ {t}
      PROVE  /\ TurnOK(u)'
             /\ u \in Live' => u \in Live /\ u \notin Expired
             /\ job[u] = "queued" => job'[u] # "running"
  <2>1. ~Hand(u)'
    BY <1>2 DEF Hand
  <2> QED
    BY <1>2, <1>3, <2>1, UnpoppedTurn
<1>10. TurnOK(t) /\ ~Hand(t)
  BY <1>2, <1>3 DEF Inv, Hand, LockFree
<1>11. /\ starts[t] = 0 /\ thread[t] = "none" /\ stamp[t] # 0 /\ NotAsking(t)
       /\ record[t] # NoJob
  BY <1>2, <1>10 DEF TurnOK, BeforeItsStart, Unborn
<1>12. TurnOK(t)'
  <2>1. Unborn(t)' /\ ~InQueue(t)'
    BY <1>2, <1>4, <1>11 DEF Unborn
  <2>2. NotAsking(t)'
    BY <1>3, <1>11 DEF NotAsking
  <2>3. BeforeItsStart(t)'
    BY <1>3, <1>10, <1>11, <2>1, <2>2 DEF TurnOK, BeforeItsStart
  <2>4. QueuedIsKept(t)'
    BY <1>2 DEF QueuedIsKept
  <2>5. InHand(t)'
    BY <1>2, <1>3, <1>10, <1>11, <2>1 DEF TurnOK, QueuedIsKept, InHand
  <2>6. ~InPlay(t)'
    BY <1>3, <1>11, <2>2 DEF InPlay, NotAsking, Answering
  <2>7. PlaysFair(t)'
    BY <1>3, <1>11, <2>6 DEF PlaysFair
  <2> QED
    BY <2>1, <2>3, <2>4, <2>5, <2>7 DEF TurnOK
<1>13. SlotsOK'
  <2> DEFINE A == {u \in Live : u \notin Expired}
             active == {u \in Turn : IsActive(JobsUnexpired[u])}
  <2>1. A \in SUBSET active /\ active \subseteq Turn
    BY DEF Live, JobsUnexpired
  <2>2. \A u \in active : SessionOf[u] # SessionOf[t]
    BY <1>2 DEF SessionHasRunningTurn
  <2>3. ~(Cardinality(active) >= Quota)
    BY <1>2 DEF RunningCount
  <2>4. A \in SUBSET Live /\ Live' \subseteq A \cup {t}
    <3>1. \A u \in Live' : u \in Turn
      BY DEF Live
    <3> QED
      BY <1>9, <3>1
  <2> HIDE DEF A, active
  <2>5. /\ Cardinality(A) <= Cardinality(active)
        /\ Cardinality(active) \in Nat /\ Cardinality(A) \in Nat
    BY <2>1, SchedulerAssumption, FS_Subset, FS_CardinalityType
  <2>6. Cardinality(A) < Quota
    BY <2>3, <2>5, SchedulerAssumption
  <2>7. \A u \in A : SessionOf[u] # SessionOf[t]
    BY <1>2, <2>1, <2>2
  <2> QED
    BY <1>1, <1>2, <2>4, <2>6, <2>7, OneMoreLive
<1>14. OrderKept
  BY <1>2, <1>9 DEF OrderKept
<1> QED
  BY <1>5, <1>6, <1>7, <1>8, <1>9, <1>12, <1>13, <1>14 DEF Inv

-----------------------------------------------------------------------------
(* Crash and restart.                                                      *)

\* A dead process has no jobs, queues, threads or answers; the disk stays.
LEMMA Crashes ==
  ASSUME Inv, Crash
  PROVE  Inv' /\ Calm
<1>1. /\ TypeOK /\ LockOK /\ QueuesOK /\ SlotsOK
  BY DEF Inv
<1>2. /\ crashes' = crashes + 1 /\ up' = "down" /\ sched' = LockFree
      /\ job' = [t \in Turn |-> NoJob] /\ cancelled' = [t \in Turn |-> FALSE]
      /\ queue' = [s \in Session |-> <<>>]
      /\ thread' = [t \in Turn |-> "none"] /\ outcome' = [t \in Turn |-> "none"]
      /\ resp' = [r \in Responder |-> Idle]
      /\ intr' = [t \in Turn |-> IF intr[t] = "requested" THEN "recorded" ELSE intr[t]]
      /\ index' = index /\ record' = record /\ payload' = payload /\ leased' = leased
      /\ pending' = pending /\ event' = event /\ stamp' = stamp /\ aged' = aged
      /\ asks' = asks /\ starts' = starts /\ contested' = contested
  BY DEF Crash, files, ghosts
<1>3. /\ NoTurn \notin Turn /\ \A t \in Turn : SessionOf[t] \in Session
  BY SchedulerAssumption
<1>4. TypeOK'
  <2>1. NoJob \in JobStatus /\ "none" \in Outcome
    BY Statuses DEF Outcome
  <2>2. crashes' \in Nat
    BY <1>1, <1>2 DEF TypeOK
  <2>3. intr' \in [Turn -> {"none", "requested", "recorded"}]
    BY <1>1, <1>2 DEF TypeOK
  <2>4. queue' \in [Session -> Seq(Turn)]
    BY <1>2
  <2>5. sched' \in [pc : {"free", "created", "leased", "admitted", "entered", "popped", "persisted"},
                    turn : Turn \cup {NoTurn}, queued : BOOLEAN]
    BY <1>2 DEF LockFree
  <2>6. resp' \in [Responder -> [pc : {"idle", "tool", "loop", "stop"},
                                 turn : Turn \cup {NoTurn}, outcome : Outcome]]
    BY <1>2, <2>1 DEF Idle
  <2> QED
    BY <1>1, <1>2, <2>1, <2>2, <2>3, <2>4, <2>5, <2>6 DEF TypeOK
<1>5. LockOK'
  BY <1>1, <1>2 DEF LockOK, LockFree
<1>6. \A u \in Turn : ~InQueue(u)'
  BY <1>2, <1>3 DEF InQueue
<1>7. QueuesOK'
  <2>1. \A s \in Session : queue'[s] = <<>> /\ Len(queue'[s]) = 0
    BY <1>2
  <2>2. QueuesSorted(queue')
    BY <2>1 DEF QueuesSorted, SortedFor
  <2> QED
    BY <1>1, <1>2, <1>6, <2>2, QueuesStaySorted DEF LockFree
<1>8. \A r \in Responder : ResponseOK(r)'
  BY <1>2, <1>3 DEF ResponseOK, OwnResponseOK, Answering, Idle
<1>9. \A u \in Turn : job'[u] = NoJob /\ u \notin Live'
  BY <1>2, Statuses DEF Live
<1>10. SlotsOK'
  BY <1>1, <1>2, <1>9, NoNewLive DEF LockFree
<1>11. ASSUME NEW u \in Turn PROVE TurnOK(u)'
  <2>1. TurnOK(u)
    BY DEF Inv
  <2>2. /\ ~Hand(u)' /\ thread'[u] = "none" /\ outcome'[u] = "none"
        /\ intr[u] = "none" => intr'[u] = "none"
        /\ NotAsking(u) => NotAsking(u)'
    BY <1>2, <1>3 DEF Hand, LockFree, NotAsking, Idle
  <2>3. Unborn(u)'
    BY <1>2, <1>9, <2>1, <2>2 DEF TurnOK, Unborn
  <2>4. BeforeItsStart(u)'
    BY <1>2, <1>6, <2>1, <2>2 DEF TurnOK, BeforeItsStart
  <2>5. QueuedIsKept(u)' /\ InHand(u)' /\ PlaysFair(u)'
    BY <1>9, <2>2, Statuses DEF QueuedIsKept, InHand, PlaysFair
  <2> QED
    BY <2>3, <2>4, <2>5 DEF TurnOK
<1>12. Calm
  BY <1>9, Statuses DEF Calm
<1> QED
  BY <1>4, <1>5, <1>7, <1>8, <1>10, <1>11, <1>12 DEF Inv

\* The queues a restart builds hold what it recovered, oldest first.
LEMMA RequeuedQueues ==
  ASSUME TypeOK, QueuesOK, NEW R \in SUBSET Turn, \A u \in R : stamp[u] # 0
  PROVE  /\ Requeued(R) \in [Session -> Seq(Turn)] /\ QueuesSorted(Requeued(R))
         /\ \A s \in Session, u \in Turn :
              Among(u, Requeued(R)[s]) <=> u \in R /\ SessionOf[u] = s
<1>1. ASSUME NEW s \in Session
      PROVE  /\ Requeued(R)[s] \in Seq(Turn) /\ SortedFor(Requeued(R)[s], s)
             /\ \A u \in Turn : Among(u, Requeued(R)[s]) <=> u \in R /\ SessionOf[u] = s
  <2> DEFINE S == {t \in R : SessionOf[t] = s}
             q == Requeued(R)[s]
  <2>1. q = InOrder(S, stamp)
    BY DEF Requeued, ByStamp
  <2>2. S \in SUBSET Turn /\ \A u \in Turn : u \in S <=> u \in R /\ SessionOf[u] = s
    OBVIOUS
  <2>3. \A e \in S : stamp[e] \in Nat /\ stamp[e] # 0
    BY DEF TypeOK
  <2> HIDE DEF S, q
  <2>4. IsFiniteSet(S)
    BY <2>2, SchedulerAssumption, FS_Subset
  <2>5. \A d, e \in S : stamp[d] = stamp[e] => d = e
    BY <2>2, <2>3 DEF QueuesOK
  <2>6. /\ q \in Seq(S)
        /\ \A i, j \in 1..Len(q) : i < j => stamp[q[i]] < stamp[q[j]]
        /\ \A e \in S : \E i \in 1..Len(q) : q[i] = e
    BY <2>1, <2>3, <2>4, <2>5, InOrderSorts
  <2>7. \A i \in 1..Len(q) : q[i] \in S
    BY <2>6, LenProperties
  <2>8. q \in Seq(Turn)
    BY <2>2, <2>6, <2>7, LenProperties, IsASeq
  <2>9. SortedFor(q, s)
    BY <2>2, <2>6, <2>7 DEF SortedFor
  <2>10. \A u \in Turn : Among(u, q) <=> u \in R /\ SessionOf[u] = s
    BY <2>2, <2>6, <2>7 DEF Among
  <2> QED
    BY <2>8, <2>9, <2>10 DEF q
<1>2. Requeued(R) = [s \in Session |-> Requeued(R)[s]]
  BY DEF Requeued
<1>3. Requeued(R) \in [Session -> Seq(Turn)]
  BY <1>1, <1>2
<1> QED
  BY <1>1, <1>3 DEF QueuesSorted

\* The restarted process queues only what was queued and never started.
LEMMA Restarts ==
  ASSUME Inv, Restart
  PROVE  Inv' /\ Calm
<1>1. /\ TypeOK /\ LockOK /\ QueuesOK /\ SlotsOK
      /\ \A r \in Responder : ResponseOK(r)
  BY DEF Inv
<1>2. PICK stale \in SUBSET leased :
        LET recovered == Recoverable(stale)
            lost == Abandoned(recovered)
            new == [t \in Turn |-> CASE t \in Late -> "cancelled"
                                     [] t \in lost -> "interrupted"
                                     [] OTHER      -> index[t]]
        IN /\ job' = [t \in Turn |-> IF t \in recovered THEN "queued" ELSE NoJob]
           /\ queue' = Requeued(recovered)
           /\ IF new = index THEN index' = index /\ record' = record
              ELSE Save([t \in {u \in Turn : new[u] # NoJob} |-> new[t]])
           /\ up' = IF recovered = {} THEN "serving" ELSE "starting"
           /\ leased' = Claimed(recovered)
  BY DEF Restart
<1> DEFINE R == Recoverable(stale)
           new == [t \in Turn |-> CASE t \in Late -> "cancelled"
                                    [] t \in Abandoned(R) -> "interrupted"
                                    [] OTHER -> index[t]]
<1>3. /\ job' = [t \in Turn |-> IF t \in R THEN "queued" ELSE NoJob]
      /\ queue' = Requeued(R) /\ up' \in {"serving", "starting"}
      /\ IF new = index THEN index' = index /\ record' = record
         ELSE Save([t \in {u \in Turn : new[u] # NoJob} |-> new[t]])
      /\ leased' = Claimed(R)
  BY <1>2
<1>4. /\ payload' = payload \ (Unwanted \cup Late)
      /\ cancelled' = cancelled /\ sched' = sched /\ thread' = thread /\ outcome' = outcome
      /\ resp' = resp /\ intr' = intr /\ pending' = pending /\ event' = event
      /\ stamp' = stamp /\ aged' = aged /\ asks' = asks /\ crashes' = crashes
      /\ starts' = starts /\ contested' = contested
      /\ sched = LockFree /\ \A u \in Turn : thread[u] = "none"
  BY <1>1 DEF Restart, ghosts, LockOK
<1>5. /\ R \in SUBSET payload /\ payload \in SUBSET Turn /\ leased \in SUBSET Turn
      /\ \A u \in R : u \notin Unwanted /\ u \notin Late /\ index[u] = "queued"
      /\ Late \in SUBSET payload
  BY <1>1 DEF Recoverable, Unwanted, Late, TypeOK
<1>6. \A u \in Abandoned(R) : u \in Turn /\ index[u] # "queued" /\ IsActive(index[u])
  BY DEF Abandoned
<1>7. \A u \in payload : /\ starts[u] = 0 /\ stamp[u] # 0 /\ event[u] = "none"
                         /\ record[u] # NoJob /\ NotAsking(u) /\ ~InPlay(u)
  <2>1. \A u \in payload : TurnOK(u) /\ u \in Turn
    BY <1>5 DEF Inv
  <2>2. \A u \in payload : /\ starts[u] = 0 /\ stamp[u] # 0 /\ event[u] = "none"
                           /\ record[u] # NoJob /\ NotAsking(u)
    BY <2>1 DEF TurnOK, BeforeItsStart, Unborn
  <2> QED
    BY <1>4, <1>5, <2>2 DEF NotAsking, InPlay, Answering
<1>8. /\ new \in [Turn -> JobStatus]
      /\ \A u \in Turn : /\ u \notin Late /\ u \notin Abandoned(R) => new[u] = index[u]
                         /\ new[u] = NoJob => index[u] = NoJob
  <2>1. index \in [Turn -> JobStatus]
    BY <1>1 DEF TypeOK
  <2>2. "cancelled" \in JobStatus \ {NoJob} /\ "interrupted" \in JobStatus \ {NoJob}
    BY Statuses
  <2> QED
    BY <2>1, <2>2
<1> HIDE DEF R, new
<1>9. /\ index' \in [Turn -> JobStatus] /\ record' \in [Turn -> JobStatus]
      /\ \A u \in Turn : index'[u] = new[u] /\ (record'[u] = NoJob => record[u] = NoJob)
  <2>1. CASE new = index
    BY <1>1, <1>3, <2>1 DEF TypeOK
  <2>2. CASE new # index
    <3> DEFINE S == {u \in Turn : new[u] # NoJob}
               c == [t \in S |-> new[t]]
    <3>1. S \in SUBSET Turn /\ c \in [S -> JobStatus \ {NoJob}] /\ Save(c)
      BY <1>3, <1>8, <2>2
    <3>2. \A u \in Turn : (u \in S => c[u] = new[u]) /\ (u \notin S => index[u] = new[u])
      BY <1>8
    <3> HIDE DEF S, c
    <3>3. /\ index' \in [Turn -> JobStatus] /\ record' \in [Turn -> JobStatus]
          /\ \A u \in Turn : index'[u] = IF u \in S THEN c[u] ELSE index[u]
          /\ \A u \in Turn : record'[u] = NoJob => record[u] = NoJob
      BY <1>1, <3>1, SaveMany
    <3> QED
      BY <3>2, <3>3
  <2> QED
    BY <2>1, <2>2
<1>10. /\ queue' \in [Session -> Seq(Turn)] /\ QueuesSorted(queue')
       /\ \A s \in Session, u \in Turn : Among(u, queue'[s]) <=> u \in R /\ SessionOf[u] = s
  BY <1>1, <1>3, <1>5, <1>7, RequeuedQueues
<1>11. \A u \in Turn : InQueue(u)' <=> u \in R
  <2>1. ASSUME NEW u \in Turn PROVE InQueue(u)' <=> Among(u, queue'[SessionOf[u]])
    BY <1>10, InQueueIsAmong DEF InQueue
  <2> QED
    BY <1>10, <2>1, SchedulerAssumption
<1>12. /\ job' \in [Turn -> JobStatus]
       /\ \A u \in Turn : job'[u] = IF u \in R THEN "queued" ELSE NoJob
  BY <1>3, Statuses
<1>13. leased' \subseteq Turn /\ R \subseteq leased'
  BY <1>3, <1>5 DEF Claimed
<1>14. TypeOK'
  BY <1>1, <1>3, <1>4, <1>9, <1>10, <1>12, <1>13 DEF TypeOK
<1>15. LockOK'
  BY <1>1, <1>3, <1>4 DEF LockOK, LockFree
<1>16. QueuesOK'
  <2>1. Stamped' = Stamped
    BY <1>4 DEF Stamped
  <2> QED
    BY <1>1, <1>4, <1>10, <2>1 DEF QueuesOK, QueuesSorted, SortedFor, LockFree
<1>17. \A r \in Responder : ResponseOK(r)'
  BY <1>1, <1>4, ResponsesStand
<1>18. SlotsOK'
  <2>1. \A u \in Turn : u \notin Live'
    BY <1>12, Statuses DEF Live
  <2> QED
    BY <1>1, <1>4, <2>1, NoNewLive
<1>19. ASSUME NEW u \in Turn PROVE TurnOK(u)'
  <2>1. TurnOK(u) /\ ~Hand(u)' /\ ~Hand(u)
    BY <1>4 DEF Inv, Hand, LockFree
  <2>2. /\ NotAsking(u)' <=> NotAsking(u)
        /\ InPlay(u)' <=> InPlay(u)
    BY <1>4 DEF NotAsking, InPlay, Answering
  <2>3. index[u] = NoJob => u \notin Abandoned(R)
    BY <1>6, Statuses
  <2>4. Unborn(u)'
    BY <1>4, <1>5, <1>7, <1>8, <1>9, <1>12, <2>1, <2>3 DEF TurnOK, Unborn
  <2>5. BeforeItsStart(u)'
    BY <1>4, <1>5, <1>7, <1>11, <2>1, <2>2 DEF TurnOK, BeforeItsStart
  <2>6. QueuedIsKept(u)'
    <3>1. u \in R => u \notin Abandoned(R)
      BY <1>5, <1>6
    <3> QED
      BY <1>4, <1>5, <1>7, <1>8, <1>9, <1>11, <1>12, <1>13, <3>1, Statuses DEF QueuedIsKept
  <2>7. InHand(u)'
    BY <2>1 DEF InHand
  <2>8. PlaysFair(u)'
    <3>1. IsTerminal(job'[u]) = FALSE
      BY <1>12, Statuses
    <3>2. InPlay(u)' => job'[u] = NoJob
      BY <1>5, <1>7, <1>12, <2>2
    <3> QED
      BY <1>4, <3>1, <3>2 DEF PlaysFair
  <2> QED
    BY <2>4, <2>5, <2>6, <2>7, <2>8 DEF TurnOK
<1>20. Calm
  BY <1>12, Statuses DEF Calm
<1> QED
  BY <1>14, <1>15, <1>16, <1>17, <1>18, <1>19, <1>20 DEF Inv

-----------------------------------------------------------------------------
(* The invariant holds, and what it says.                                  *)

LEMMA InvStarts == Init => Inv
<1> SUFFICES ASSUME Init PROVE Inv
  OBVIOUS
<1>1. NoTurn \notin Turn /\ \A t \in Turn : SessionOf[t] \in Session
  BY SchedulerAssumption
<1>2. /\ \A t \in Turn : /\ job[t] = NoJob /\ thread[t] = "none" /\ intr[t] = "none"
                         /\ index[t] = NoJob /\ event[t] = "none" /\ stamp[t] = 0
                         /\ starts[t] = 0 /\ outcome[t] = "none" /\ record[t] = NoJob
      /\ sched = LockFree /\ payload = {} /\ leased = {} /\ contested = {}
      /\ \A r \in Responder : resp[r] = Idle
      /\ \A s \in Session : pending[s] = NoTurn /\ queue[s] = <<>>
      /\ up = "serving"
  BY DEF Init
<1>3. TypeOK
  <2>1. NoJob \in JobStatus /\ "none" \in Outcome
    BY Statuses DEF Outcome
  <2>2. sched \in [pc : {"free", "created", "leased", "admitted", "entered", "popped", "persisted"},
                   turn : Turn \cup {NoTurn}, queued : BOOLEAN]
    BY <1>2 DEF LockFree
  <2>3. resp \in [Responder -> [pc : {"idle", "tool", "loop", "stop"},
                                turn : Turn \cup {NoTurn}, outcome : Outcome]]
    BY <2>1 DEF Init, Idle
  <2>4. queue \in [Session -> Seq(Turn)]
    BY DEF Init
  <2> QED
    BY <2>1, <2>2, <2>3, <2>4 DEF TypeOK, Init
<1>4. LockOK
  BY <1>1, <1>2 DEF LockOK, LockFree
<1>5. \A t \in Turn : ~InQueue(t) /\ ~Hand(t) /\ NotAsking(t) /\ ~InPlay(t)
  BY <1>1, <1>2 DEF InQueue, Hand, NotAsking, InPlay, Answering, LockFree, Idle
<1>6. QueuesOK
  <2>1. \A s \in Session : Len(queue[s]) = 0
    BY <1>2
  <2>2. Stamped = {} /\ Cardinality(Stamped) = 0
    BY <1>2, FS_EmptySet DEF Stamped
  <2> QED
    BY <1>2, <2>1, <2>2 DEF QueuesOK, LockFree
<1>7. SlotsOK
  <2>1. Live = {} /\ Cardinality(Live) = 0
    BY <1>2, FS_EmptySet, Statuses DEF Live
  <2> QED
    BY <1>2, <2>1, SchedulerAssumption DEF SlotsOK, LockFree
<1>8. \A t \in Turn : TurnOK(t)
  BY <1>2, <1>5, Statuses DEF TurnOK, Unborn, BeforeItsStart, QueuedIsKept, InHand, PlaysFair
<1>9. \A r \in Responder : ResponseOK(r)
  BY <1>1, <1>2 DEF ResponseOK, OwnResponseOK, Answering, Idle
<1> QED
  BY <1>3, <1>4, <1>6, <1>7, <1>8, <1>9 DEF Inv

LEMMA Stutters ==
  ASSUME Inv, UNCHANGED vars
  PROVE  Inv' /\ Calm
<1>1. /\ up' = up /\ job' = job /\ cancelled' = cancelled /\ queue' = queue /\ sched' = sched
      /\ thread' = thread /\ outcome' = outcome /\ resp' = resp /\ intr' = intr
      /\ index' = index /\ record' = record /\ payload' = payload /\ leased' = leased
      /\ pending' = pending /\ event' = event /\ stamp' = stamp /\ aged' = aged
      /\ asks' = asks /\ crashes' = crashes /\ starts' = starts /\ contested' = contested
  BY DEF vars, memory, files, ghosts
<1>2. TypeOK' /\ LockOK'
  BY <1>1 DEF Inv, TypeOK, LockOK
<1>3. QueuesOK' /\ \A r \in Responder : ResponseOK(r)'
  BY <1>1, QueuesUntouched, ResponsesStand DEF Inv
<1>4. SlotsOK'
  BY <1>1 DEF Inv, SlotsOK, Live
<1>5. \A u \in Turn : SameTurn(u)
  BY <1>1 DEF SameTurn, InQueue, NotAsking, InPlay, Answering, Hand
<1>6. \A u \in Turn : TurnOK(u)'
  BY <1>5, OtherTurn DEF Inv
<1>7. Calm
  BY <1>1, Statuses DEF Calm
<1> QED
  BY <1>2, <1>3, <1>4, <1>6, <1>7 DEF Inv

LEMMA InvSteps == Inv /\ [Next]_vars => Inv' /\ OrderKept
<1> SUFFICES ASSUME Inv, [Next]_vars PROVE Inv' /\ OrderKept
  OBVIOUS
<1>1. Calm => OrderKept
  BY DEF Calm, OrderKept
<1>2. CASE Scheduler
  BY <1>1, <1>2, Registers, Enters, Pushes, Pops, PopsPersist, PopsEnd, Expires DEF Scheduler
<1>3. CASE Expire \/ Age \/ Crash \/ Restart
  BY <1>1, <1>3, Expires, Polls, Crashes, Restarts
<1>4. ASSUME NEW t \in Turn, Worker(t) PROVE Inv' /\ OrderKept
  BY <1>1, <1>4, WorkerStarts, WorkerAsks, WorkerFinishes, WorkerMarks DEF Worker
<1>5. ASSUME NEW t \in Turn, Client(t) PROVE Inv' /\ OrderKept
  BY <1>1, <1>5, Admits, Interrupts, Reconciles, Polls DEF Client
<1>6. ASSUME NEW r \in Responder, Response(r) PROVE Inv' /\ OrderKept
  BY <1>1, <1>6, Responds, Denies, ToolIsDone, AsksAgain, LoopFinishes, ResponseMarks
  DEF Response
<1>7. CASE UNCHANGED vars
  BY <1>1, <1>7, Stutters
<1> QED
  BY <1>2, <1>3, <1>4, <1>5, <1>6, <1>7 DEF Next

\* In every reachable state of any number of sessions, turns and responding
\* threads the registry, its queues, the threads and the files keep their
\* types, a queue holding turns only and the lock's holder one turn or none.
THEOREM SchedulerTypeCorrect == Spec => []TypeOK
<1>1. Inv => TypeOK
  BY DEF Inv
<1> QED
  BY <1>1, InvStarts, InvSteps, PTL DEF Spec

LEMMA DrivenTurnsAreLive == Inv => StillDriven \subseteq Live
<1> SUFFICES ASSUME Inv, NEW t \in StillDriven PROVE t \in Live
  OBVIOUS
<1>1. t \in Turn /\ InPlay(t)
  <2>1. CASE t \in Turn /\ thread[t] = "run"
    BY <2>1 DEF InPlay
  <2>2. CASE \E r \in Responder : resp[r].turn = t /\ resp[r].pc \in {"tool", "loop"}
    BY <2>2, AnsweredTurn DEF InPlay, Answering
  <2> QED
    BY <2>1, <2>2 DEF StillDriven, Driven
<1>2. PlaysFair(t) /\ intr[t] = "none" /\ job[t] # NoJob /\ t \notin contested
  BY <1>1 DEF Inv, TurnOK, StillDriven
<1> QED
  BY <1>1, <1>2 DEF PlaysFair, Live

\* However many sessions, turns, worker slots and answering threads there are,
\* and however requests, pops, interrupts, polls, crashes and restarts fall
\* between the steps of register_turn_job and pop_next_schedulable_queued_turn:
\* the turns that are driven and that nobody has called off never exceed
\* max_running_turn_workers, and no two of them are turns of one session.
THEOREM TurnsAreKeptApart == Spec => []TurnsKeepApart
<1>1. Inv => TurnsKeepApart
  <2> SUFFICES ASSUME Inv PROVE TurnsKeepApart
    OBVIOUS
  <2>1. StillDriven \in SUBSET Live
    BY DrivenTurnsAreLive
  <2>2. Cardinality(Live) <= Quota /\ \A t, u \in Live : SessionOf[t] = SessionOf[u] => t = u
    BY DEF Inv, SlotsOK
  <2>3. IsFiniteSet(Live)
    BY SchedulerAssumption, FS_Subset DEF Live
  <2>4. /\ Cardinality(StillDriven) <= Cardinality(Live)
        /\ Cardinality(Live) \in Nat /\ Cardinality(StillDriven) \in Nat
    BY <2>1, <2>3, FS_Subset, FS_CardinalityType
  <2>5. WorkersBounded
    BY <2>2, <2>4, SchedulerAssumption DEF WorkersBounded
  <2>6. OneTurnPerSession
    BY <2>1, <2>2 DEF OneTurnPerSession
  <2> QED
    BY <2>5, <2>6 DEF TurnsKeepApart
<1> QED
  BY <1>1, InvStarts, InvSteps, PTL DEF Spec

\* However often the runtime dies and restarts, and whatever is interrupted or
\* expires between the steps: an accepted turn that waits is in the queue of
\* its session exactly once, or in the hand of the request that is entering
\* it; its payload and its lease are on the disk and the index shows it
\* queued; and no turn is ever given a second worker.
THEOREM AcceptedTurnsSurvive == Spec => []QueuedTurnsSurvive
<1>1. Inv => QueuedTurnsSurvive
  <2> SUFFICES ASSUME Inv PROVE QueuedTurnsSurvive
    OBVIOUS
  <2>1. TypeOK /\ QueuesOK /\ \A t \in Turn : TurnOK(t)
    BY DEF Inv
  <2>2. ASSUME NEW t \in Turn, InQueue(t)
        PROVE  Cardinality({i \in DOMAIN queue[SessionOf[t]] : queue[SessionOf[t]][i] = t}) = 1
    <3> DEFINE q == queue[SessionOf[t]]
    <3>1. q \in Seq(Turn) /\ \A i, j \in 1..Len(q) : i < j => stamp[q[i]] < stamp[q[j]]
      <4>1. SessionOf[t] \in Session
        BY SchedulerAssumption
      <4>2. \A s \in Session : queue[s] \in Seq(Turn)
        BY <2>1 DEF TypeOK
      <4>3. \A s \in Session : \A i, j \in 1..Len(queue[s]) :
              i < j => stamp[queue[s][i]] < stamp[queue[s][j]]
        BY <2>1 DEF QueuesOK
      <4> QED
        BY <4>1, <4>2, <4>3
    <3>2. DOMAIN q = 1..Len(q) /\ Len(q) \in Nat
      BY <3>1, LenProperties
    <3>3. PICK i \in DOMAIN q : q[i] = t
      BY <2>2 DEF InQueue
    <3>4. stamp[t] \in Nat
      BY <2>1 DEF TypeOK
    <3> HIDE DEF q
    <3>5. ASSUME NEW j \in DOMAIN q, q[j] = t PROVE j = i
      <4>1. ~(stamp[t] < stamp[t])
        BY <3>4
      <4>2. ~(i < j) /\ ~(j < i)
        BY <3>1, <3>2, <3>3, <3>5, <4>1
      <4> QED
        BY <3>2, <4>2
    <3>6. {j \in DOMAIN q : q[j] = t} = {i}
      BY <3>3, <3>5
    <3>7. Cardinality({j \in DOMAIN q : q[j] = t}) = 1
      BY <3>6, FS_Singleton
    <3> QED
      BY <3>7 DEF q
  <2>3. QueuedOnce
    BY <2>1, <2>2 DEF QueuedOnce, TurnOK, QueuedIsKept, Hand
  <2>4. QueueIsDurable
    BY <2>1 DEF QueueIsDurable, TurnOK, QueuedIsKept
  <2>5. StartedOnce
    BY <2>1 DEF StartedOnce, TurnOK, BeforeItsStart
  <2> QED
    BY <2>3, <2>4, <2>5 DEF QueuedTurnsSurvive
<1> QED
  BY <1>1, InvStarts, InvSteps, PTL DEF Spec

\* When a queued turn is made running, every turn of its session that is left
\* in the queue was queued later: pops take the front, expiry and interrupts
\* keep the order, and a restart rebuilds the queue by queued_at_ms.
THEOREM QueuesAreServedInOrder == Spec => QueueOrder
<1>1. Inv /\ [Next]_vars => [OrderKept]_vars
  BY InvSteps
<1> QED
  BY <1>1, InvStarts, InvSteps, PTL DEF Spec, QueueOrder, OrderKept

-----------------------------------------------------------------------------
(* What the registry tells while no turn is asked about or interrupted.    *)

\* Nobody waits for an answer, answers or interrupts.
Quiet ==
  /\ \A s \in Session : pending[s] = NoTurn
  /\ \A r \in Responder : resp[r] = Idle
  /\ \A t \in Turn : intr[t] = "none"

\* Somebody is about to look for a turn to start.
Looking == up = "starting" \/ \E t \in Turn : thread[t] \in {"stop", "next"}

\* A slot is free, and an idle session has a queued turn that has not expired.
Startable ==
  /\ ~(RunningCount(job) >= Quota)
  /\ \E t \in Turn : InQueue(t) /\ ~TimedOut(t) /\ ~SessionHasRunningTurn(job, SessionOf[t])

\* Where nobody is about to look there is nothing to start, and the turn that
\* is about to join a queue has to wait.
Watched ==
  \/ Looking
  \/ /\ ~Startable
     /\ sched.pc \notin {"popped", "persisted"}
     /\ sched.pc # "free" /\ sched.queued => MustQueue(SessionOf[sched.turn])

\* The job of a turn follows its worker.
Works(t) ==
  /\ up = "down" => job[t] = NoJob
  /\ InQueue(t) => job[t] = "queued"
  /\ thread[t] \in {"due", "run"} => job[t] = "running"
  /\ thread[t] = "stop" => /\ outcome[t] = event[t] /\ IsTerminal(event[t])
                           /\ job[t] \in {"running", event[t]}
  /\ IsActive(job[t]) /\ event[t] # "none" => thread[t] = "stop"

\* Job index and ledger follow the job, one locked step behind it.
Told(t) ==
  /\ index[t] = "queued" => record[t] = "queued"
  /\ Hand(t) /\ Registering =>
       record[t] = IF sched.queued THEN "queued" ELSE "running"
  /\ job[t] # NoJob =>
       \/ Hand(t) /\ sched.pc = "entered" /\ record[t] = job[t]
       \/ /\ Hand(t) /\ sched.pc = "popped" /\ sched.queued
          /\ index[t] = "queued" /\ record[t] = "queued"
       \/ /\ ~(Hand(t) /\ sched.pc = "entered")
          /\ ~(Hand(t) /\ sched.pc = "popped" /\ sched.queued)
          /\ index[t] = job[t] /\ record[t] = job[t]

Served == Quiet /\ Watched /\ \A t \in Turn : Works(t) /\ Told(t)

\* What a step keeps, besides the quiet.
StaysFinal(t) == IsTerminal(job[t]) /\ up' # "down" => job'[t] = job[t]

Kept == Watched' /\ \A t \in Turn : Works(t)' /\ Told(t)' /\ StaysFinal(t)

LEMMA Endings ==
  /\ \A s : IsTerminal(s) => s # "queued" /\ s # "running" /\ s # "none" /\ s # NoJob
  /\ \A s : IsTerminal(s) => /\ CanTransition("running", s) /\ CanTransition(s, s)
                             /\ s \in JobStatus
  /\ CanTransition("queued", "cancelled") /\ CanTransition("queued", "running")
  /\ CanTransition("queued", "queued") /\ CanTransition("running", "running")
  /\ CanTransition("running", "failed")
  /\ IsTerminal("cancelled") /\ IsTerminal("failed") /\ IsTerminal("interrupted")
  /\ ~IsTerminal("none") /\ IsTerminal("completed")
<1>1. \A s : IsTerminal(s) <=> s \in {"completed", "failed", "cancelled", "interrupted"}
  BY DEF IsTerminal, Terminal
<1>2. \A s : IsTerminal(s) => s # "queued" /\ s # "running" /\ s # "none" /\ s # NoJob
  BY <1>1, Statuses, SchedulerAssumption
<1>3. \A s : IsTerminal(s) => CanTransition("running", s) /\ CanTransition(s, s)
  BY <1>1 DEF CanTransition, Successors, Terminal
<1>4. /\ CanTransition("queued", "cancelled") /\ CanTransition("queued", "running")
      /\ CanTransition("queued", "queued") /\ CanTransition("running", "running")
      /\ CanTransition("running", "failed")
  BY DEF CanTransition, Successors, Terminal
<1> QED
  BY <1>1, <1>2, <1>3, <1>4, Statuses

\* Save, exactly.
LEMMA SaveTells ==
  ASSUME TypeOK, NEW S \in SUBSET Turn, NEW c \in [S -> JobStatus], Save(c), NEW u \in Turn
  PROVE  /\ index'[u] = IF u \in S THEN c[u] ELSE index[u]
         /\ record'[u] = IF u \in S /\ CanTransition(record[u], c[u])
                         THEN c[u] ELSE record[u]
<1>1. DOMAIN c = S
  OBVIOUS
<1> QED
  BY <1>1 DEF Save

LEMMA SaveOneTells ==
  ASSUME TypeOK, NEW t \in Turn, NEW s \in JobStatus, Save([u \in {t} |-> s])
  PROVE  /\ index'[t] = s
         /\ record'[t] = IF CanTransition(record[t], s) THEN s ELSE record[t]
         /\ \A u \in Turn \ {t} : index'[u] = index[u] /\ record'[u] = record[u]
<1> DEFINE c == [u \in {t} |-> s]
<1>1. {t} \in SUBSET Turn /\ c \in [{t} -> JobStatus] /\ Save(c) /\ c[t] = s
  OBVIOUS
<1> HIDE DEF c
<1>2. \A u \in Turn : /\ index'[u] = IF u \in {t} THEN c[u] ELSE index[u]
                      /\ record'[u] = IF u \in {t} /\ CanTransition(record[u], c[u])
                                      THEN c[u] ELSE record[u]
  BY <1>1, SaveTells
<1> QED
  BY <1>1, <1>2

\* What expires is cancelled in the index, and in the ledger if it was queued.
LEMMA SaveExpired ==
  ASSUME TypeOK, Save([v \in Expired |-> "cancelled"]), NEW u \in Turn
  PROVE  /\ index'[u] = IF u \in Expired THEN "cancelled" ELSE index[u]
         /\ u \in Expired /\ record[u] = "queued" => record'[u] = "cancelled"
         /\ u \notin Expired => record'[u] = record[u]
<1> DEFINE c == [v \in Expired |-> "cancelled"]
<1>1. /\ Expired \in SUBSET Turn /\ c \in [Expired -> JobStatus] /\ Save(c)
      /\ \A v \in Expired : c[v] = "cancelled"
  BY Statuses DEF Expired
<1> HIDE DEF c
<1>2. /\ index'[u] = IF u \in Expired THEN c[u] ELSE index[u]
      /\ record'[u] = IF u \in Expired /\ CanTransition(record[u], c[u])
                      THEN c[u] ELSE record[u]
  BY <1>1, SaveTells
<1> QED
  BY <1>1, <1>2, Endings

\* A turn the step is not about.
SameStory(u) ==
  /\ record'[u] = record[u] /\ job'[u] = job[u] /\ index'[u] = index[u]
  /\ thread'[u] = thread[u] /\ outcome'[u] = outcome[u] /\ event'[u] = event[u]
  /\ InQueue(u)' => InQueue(u)
  /\ Hand(u)' <=> Hand(u)
  /\ Hand(u) => sched' = sched
  /\ up' = "down" => up = "down"

LEMMA OtherStory ==
  ASSUME NEW u \in Turn, Works(u), Told(u), SameStory(u)
  PROVE  Works(u)' /\ Told(u)' /\ StaysFinal(u)
<1>1. Works(u)'
  BY DEF Works, SameStory
<1>2. Told(u)'
  BY DEF Told, SameStory
<1> QED
  BY <1>1, <1>2 DEF SameStory, StaysFinal

\* While no active job ends, sessions and slots stay taken.
LEMMA MoreActive ==
  ASSUME NEW jobs, NEW more, \A t \in Turn : IsActive(jobs[t]) => IsActive(more[t])
  PROVE  /\ \A s : SessionHasRunningTurn(jobs, s) => SessionHasRunningTurn(more, s)
         /\ RunningCount(jobs) >= Quota => RunningCount(more) >= Quota
<1> DEFINE A == {t \in Turn : IsActive(jobs[t])}
           B == {t \in Turn : IsActive(more[t])}
<1>1. A \in SUBSET B /\ B \in SUBSET Turn
  OBVIOUS
<1>2. RunningCount(jobs) = Cardinality(A) /\ RunningCount(more) = Cardinality(B)
  BY DEF RunningCount
<1>3. \A s : SessionHasRunningTurn(jobs, s) => SessionHasRunningTurn(more, s)
  BY DEF SessionHasRunningTurn
<1> HIDE DEF A, B
<1>4. IsFiniteSet(B) /\ IsFiniteSet(A)
  BY <1>1, SchedulerAssumption, FS_Subset
<1>5. Cardinality(A) <= Cardinality(B) /\ Cardinality(A) \in Nat /\ Cardinality(B) \in Nat
  BY <1>1, <1>4, FS_Subset, FS_CardinalityType
<1> QED
  BY <1>2, <1>3, <1>5, SchedulerAssumption

\* What could not start before cannot start after, if no active job has ended
\* and no turn has joined a queue.
LEMMA StillNotStartable ==
  ASSUME ~Startable, \A t \in Turn : IsActive(job[t]) => IsActive(job'[t]),
         \A t \in Turn : (InQueue(t) /\ ~TimedOut(t))' => InQueue(t) /\ ~TimedOut(t)
  PROVE  ~Startable'
<1>1. /\ \A s : SessionHasRunningTurn(job, s) => SessionHasRunningTurn(job', s)
      /\ RunningCount(job) >= Quota => RunningCount(job') >= Quota
  BY MoreActive
<1> QED
  BY <1>1 DEF Startable

LEMMA StillWatched ==
  ASSUME Watched, Looking => Looking',
         \A t \in Turn : IsActive(job[t]) => IsActive(job'[t]),
         \A t \in Turn : (InQueue(t) /\ ~TimedOut(t))' => InQueue(t) /\ ~TimedOut(t),
         \/ sched' = sched
         \/ sched'.pc \notin {"popped", "persisted"} /\
            (sched'.pc # "free" /\ sched'.queued => MustQueue(SessionOf[sched'.turn]))
  PROVE  Watched'
<1> SUFFICES ASSUME ~Looking' PROVE Watched'
  BY DEF Watched
<1>1. /\ ~Looking /\ ~Startable
      /\ sched.pc \notin {"popped", "persisted"}
      /\ sched.pc # "free" /\ sched.queued => MustQueue(SessionOf[sched.turn])
  BY DEF Watched
<1>2. ~Startable'
  BY <1>1, StillNotStartable
<1>3. \A s : MustQueue(s) => MustQueue(s)'
  BY MoreActive DEF MustQueue
<1> QED
  BY <1>1, <1>2, <1>3 DEF Watched

\* A step of one turn.
LEMMA OneStory ==
  ASSUME Served, NEW t \in Turn, Watched', Works(t)', Told(t)', StaysFinal(t),
         \A u \in Turn \ {t} : SameStory(u)
  PROVE  Kept
<1>1. ASSUME NEW u \in Turn \ {t} PROVE Works(u)' /\ Told(u)' /\ StaysFinal(u)
  BY OtherStory DEF Served
<1> QED
  BY <1>1 DEF Kept

-----------------------------------------------------------------------------
(* The steps that are left when nothing is asked or interrupted.           *)

LEMMA WorkersServe ==
  ASSUME Inv, Served, NEW t \in Turn, SpawnWorker(t) \/ SpawnFails(t) \/ Finish(t)
  PROVE  Kept
<1>1. TypeOK /\ Works(t) /\ Told(t) /\ Watched /\ TurnOK(t)
  BY DEF Inv, Served
<1>2. /\ up' = up /\ job' = job /\ queue' = queue /\ sched' = sched /\ index' = index
      /\ record' = record /\ stamp' = stamp /\ aged' = aged
      /\ thread[t] \in {"due", "run"} /\ thread'[t] \in {"none", "run", "stop"}
      /\ \A u \in Turn \ {t} : /\ thread'[u] = thread[u] /\ outcome'[u] = outcome[u]
                               /\ event'[u] = event[u]
      /\ thread'[t] # "stop" => event'[t] = event[t]
      /\ thread'[t] = "stop" => outcome'[t] = event'[t] /\ IsTerminal(event'[t])
  <2>1. CASE SpawnWorker(t) \/ SpawnFails(t)
    BY <1>1, <2>1 DEF SpawnWorker, SpawnFails, files, ghosts, TypeOK
  <2>2. CASE Finish(t)
    <3>1. PICK o \in Results(t) : outcome' = [outcome EXCEPT ![t] = o]
                                  /\ event' = [event EXCEPT ![t] = o]
      BY <2>2 DEF Finish
    <3>2. IsTerminal(o)
      BY <3>1, Endings DEF Results
    <3> QED
      BY <1>1, <2>2, <3>1, <3>2 DEF Finish, ghosts, TypeOK
  <2> QED
    BY <2>1, <2>2
<1>3. \A u \in Turn : /\ InQueue(u)' <=> InQueue(u)
                      /\ TimedOut(u)' <=> TimedOut(u)
                      /\ Hand(u)' <=> Hand(u)
  BY <1>2 DEF InQueue, TimedOut, Hand
<1>4. \A u \in Turn \ {t} : SameStory(u)
  BY <1>2, <1>3 DEF SameStory
<1>5. Works(t)' /\ StaysFinal(t)
  BY <1>1, <1>2, <1>3 DEF Works, StaysFinal
<1>6. Told(t)'
  BY <1>1, <1>2, <1>3 DEF Told
<1>7. Looking => Looking'
  <2>1. \A u \in Turn : thread[u] \in {"stop", "next"} => thread'[u] = thread[u]
    BY <1>2
  <2> QED
    BY <1>2, <2>1 DEF Looking
<1>8. Watched'
  BY <1>1, <1>2, <1>3, <1>7, StillWatched
<1> QED
  BY <1>4, <1>5, <1>6, <1>8, OneStory

LEMMA MarksServe ==
  ASSUME Inv, Served, NEW t \in Turn, Mark(t)
  PROVE  Kept
<1>1. /\ TypeOK /\ QueuesOK /\ LockOK /\ TurnOK(t) /\ Works(t) /\ Told(t)
  BY DEF Inv, Served
<1>2. /\ thread[t] = "stop" /\ thread' = [thread EXCEPT ![t] = "next"]
      /\ outcome' = [outcome EXCEPT ![t] = "none"] /\ MarkStatus(t, outcome[t])
      /\ up' = up /\ sched' = sched /\ event' = event /\ stamp' = stamp
  BY DEF Mark
<1>3. ~Hand(t) /\ ~InQueue(t)
  BY <1>1, <1>2, StartedTurn
<1>4. /\ outcome[t] = event[t] /\ IsTerminal(event[t]) /\ job[t] \in {"running", event[t]}
      /\ outcome[t] \in Status
  BY <1>1, <1>2, Statuses DEF Works
<1>5. job[t] # NoJob /\ record[t] = job[t]
  BY <1>1, <1>3, <1>4, Endings, Statuses DEF Told
<1>6. /\ job'[t] = event[t] /\ index'[t] = event[t]
      /\ InQueue(t)' => InQueue(t)
      /\ \A u \in Turn \ {t} :
           /\ job'[u] = job[u] /\ index'[u] = index[u] /\ record'[u] = record[u]
           /\ InQueue(u)' <=> InQueue(u)
  BY <1>1, <1>2, <1>4, <1>5, MarkStatusEffect
<1>7. record'[t] = event[t]
  <2>1. event[t] \in JobStatus /\ Save([u \in {t} |-> event[t]])
    BY <1>2, <1>4, Endings DEF MarkStatus
  <2>2. record'[t] = IF CanTransition(record[t], event[t]) THEN event[t] ELSE record[t]
    BY <1>1, <2>1, SaveOneTells
  <2> QED
    BY <1>4, <1>5, <2>2, Endings
<1>8. thread'[t] = "next" /\ \A u \in Turn \ {t} : /\ thread'[u] = thread[u]
                                                   /\ outcome'[u] = outcome[u]
  BY <1>1, <1>2 DEF TypeOK
<1>9. \A u \in Turn : Hand(u)' <=> Hand(u)
  BY <1>2 DEF Hand
<1>10. \A u \in Turn \ {t} : SameStory(u)
  BY <1>2, <1>6, <1>8, <1>9 DEF SameStory
<1>11. Works(t)' /\ StaysFinal(t)
  <2>1. ~IsActive(job'[t])
    BY <1>4, <1>6, Statuses
  <2>2. IsTerminal(job[t]) => job[t] = event[t]
    BY <1>4, Endings
  <2>3. up # "down"
    BY <1>1, <1>2 DEF LockOK
  <2> QED
    BY <1>2, <1>3, <1>6, <1>8, <2>1, <2>2, <2>3 DEF Works, StaysFinal
<1>12. Told(t)'
  <2>1. event[t] # "queued"
    BY <1>4, Endings
  <2> QED
    BY <1>3, <1>6, <1>7, <1>9, <2>1 DEF Told
<1>13. Watched'
  BY <1>8 DEF Watched, Looking
<1> QED
  BY <1>10, <1>11, <1>12, <1>13, OneStory

LEMMA ReconciliationsServe ==
  ASSUME Inv, Served, NEW t \in Turn, ReconcileFromEvents(t)
  PROVE  Kept
<1>1. /\ TypeOK /\ QueuesOK /\ TurnOK(t) /\ Works(t) /\ Told(t) /\ Watched
      /\ intr[t] = "none"
  BY DEF Inv, Served, Quiet
<1>2. /\ up = "serving" /\ ~IsTerminal(Known(t)) /\ Known(t) # NoJob
      /\ event[t] # "none" /\ MarkStatus(t, event[t])
      /\ up' = up /\ sched' = sched /\ thread' = thread /\ outcome' = outcome
      /\ event' = event /\ stamp' = stamp /\ aged' = aged
  BY DEF ReconcileFromEvents
<1>3. event[t] \in Status /\ event[t] # "queued" /\ event[t] \in JobStatus /\ event[t] # NoJob
  BY <1>1, <1>2, Statuses DEF TypeOK, Outcome
<1>4. /\ job'[t] = IF job[t] = NoJob THEN NoJob ELSE event[t]
      /\ index'[t] = event[t]
      /\ \A u \in Turn : InQueue(u)' => InQueue(u)
      /\ \A u \in Turn \ {t} :
           job'[u] = job[u] /\ index'[u] = index[u] /\ record'[u] = record[u]
  BY <1>1, <1>2, <1>3, MarkStatusEffect
<1>5. record'[t] = IF CanTransition(record[t], event[t]) THEN event[t] ELSE record[t]
  <2>1. Save([u \in {t} |-> event[t]])
    BY <1>2 DEF MarkStatus
  <2> QED
    BY <1>1, <1>3, <2>1, SaveOneTells
<1>6. \A u \in Turn : Hand(u)' <=> Hand(u)
  BY <1>2 DEF Hand
<1>7. \A u \in Turn \ {t} : SameStory(u)
  BY <1>2, <1>4, <1>6 DEF SameStory
<1>8. ~(Hand(t) /\ Registering)
  BY <1>1, <1>2, KnownTurn
<1>9. Looking => Looking'
  BY <1>2 DEF Looking
<1>10. CASE job[t] = NoJob
  <2>1. job' [t] = job[t] /\ ~IsActive(job[t]) /\ ~IsTerminal(job[t])
    BY <1>4, <1>10, Statuses
  <2>2. Works(t)' /\ StaysFinal(t)
    BY <1>1, <1>2, <1>4, <2>1 DEF Works, StaysFinal
  <2>3. Told(t)'
    BY <1>2, <1>3, <1>4, <1>6, <1>8, <1>10 DEF Told
  <2>4. \A u \in Turn : IsActive(job[u]) => IsActive(job'[u])
    BY <1>4, <2>1
  <2>5. \A u \in Turn : (InQueue(u) /\ ~TimedOut(u))' => InQueue(u) /\ ~TimedOut(u)
    BY <1>2, <1>4 DEF TimedOut
  <2>6. Watched'
    BY <1>1, <1>2, <1>9, <2>4, <2>5, StillWatched
  <2> QED
    BY <1>7, <2>2, <2>3, <2>6, OneStory
<1>11. CASE job[t] # NoJob
  <2>1. job[t] # "queued" /\ ~IsTerminal(job[t])
    BY <1>1, <1>2, <1>11 DEF TurnOK, QueuedIsKept, Known
  <2>2. IsActive(job[t])
    BY <1>11, <2>1 DEF IsActive
  <2>3. thread[t] = "stop"
    BY <1>1, <1>2, <2>2 DEF Works
  <2>4. ~Hand(t) /\ ~InQueue(t)
    BY <1>1, <2>3, StartedTurn
  <2>5. outcome[t] = event[t] /\ IsTerminal(event[t]) /\ job[t] = "running" /\ record[t] = job[t]
    BY <1>1, <1>11, <2>1, <2>3, <2>4 DEF Works, Told
  <2>6. job'[t] = event[t] /\ record'[t] = event[t] /\ ~IsActive(job'[t])
    BY <1>4, <1>5, <1>11, <2>5, Endings, Statuses
  <2>7. Works(t)' /\ StaysFinal(t)
    BY <1>2, <1>4, <2>1, <2>3, <2>4, <2>5, <2>6 DEF Works, StaysFinal
  <2>8. Told(t)'
    BY <1>3, <1>4, <1>6, <2>4, <2>6 DEF Told
  <2>9. Watched'
    BY <1>2, <2>3 DEF Watched, Looking
  <2> QED
    BY <1>7, <2>7, <2>8, <2>9, OneStory
<1> QED
  BY <1>10, <1>11

\* Polls of turns this process has no job for, and the clock.
LEMMA PollsServe ==
  ASSUME Inv, Served, (\E t \in Turn : ListReconciles(t) \/ StatusReconciles(t)) \/ Age
  PROVE  Kept
<1>1. TypeOK /\ Watched /\ \A u \in Turn : TurnOK(u) /\ Works(u) /\ Told(u)
  BY DEF Inv, Served
<1>2. /\ up' = up /\ job' = job /\ queue' = queue /\ sched' = sched /\ thread' = thread
      /\ outcome' = outcome /\ event' = event /\ stamp' = stamp
  BY DEF ListReconciles, StatusReconciles, Age, memory, files, ghosts
<1>3. /\ \A u \in Turn : (InQueue(u) /\ ~TimedOut(u))' => InQueue(u) /\ ~TimedOut(u)
      /\ \A u \in Turn : /\ InQueue(u)' <=> InQueue(u)
                         /\ Hand(u)' <=> Hand(u)
  <2>1. aged' = aged \/ aged' = aged + 1
    BY DEF ListReconciles, StatusReconciles, Age
  <2>2. aged \in Nat /\ \A u \in Turn : stamp[u] \in Nat
    BY <1>1 DEF TypeOK
  <2>3. \A u \in Turn : TimedOut(u) => TimedOut(u)'
    BY <1>2, <2>1, <2>2 DEF TimedOut
  <2> QED
    BY <1>2, <2>3 DEF InQueue, Hand
<1>4. Watched'
  <2>1. Looking => Looking'
    BY <1>2 DEF Looking
  <2> QED
    BY <1>1, <1>2, <1>3, <2>1, StillWatched
<1>5. ASSUME NEW u \in Turn
      PROVE  \/ index'[u] = index[u] /\ record'[u] = record[u]
             \/ job[u] = NoJob /\ index[u] # NoJob /\ index'[u] = "interrupted"
  <2>1. CASE Age
    BY <2>1 DEF Age, files
  <2>2. ASSUME NEW t \in Turn, ListReconciles(t) PROVE <1>5!2
    <3>1. Save([v \in {t} |-> "interrupted"]) /\ job[t] = NoJob /\ index[t] # NoJob
      BY <2>2 DEF ListReconciles, Orphan
    <3>2. /\ index'[t] = "interrupted"
          /\ \A v \in Turn \ {t} : index'[v] = index[v] /\ record'[v] = record[v]
      BY <1>1, <3>1, SaveOneTells, Statuses
    <3> QED
      BY <3>1, <3>2
  <2>3. ASSUME NEW t \in Turn, StatusReconciles(t) PROVE <1>5!2
    BY <1>1, <2>3 DEF StatusReconciles, Orphan, TypeOK
  <2> QED
    BY <2>1, <2>2, <2>3
<1>6. ASSUME NEW u \in Turn PROVE Works(u)' /\ Told(u)' /\ StaysFinal(u)
  <2>1. Works(u)' /\ StaysFinal(u)
    BY <1>1, <1>2, <1>3 DEF Works, StaysFinal
  <2>2. CASE index'[u] = index[u] /\ record'[u] = record[u]
    <3>1. Told(u) /\ (Hand(u)' <=> Hand(u))
      BY <1>1, <1>3
    <3> QED
      BY <1>2, <2>1, <2>2, <3>1 DEF Told
  <2>3. CASE job[u] = NoJob /\ index[u] # NoJob /\ index'[u] = "interrupted"
    <3>1. ~(Hand(u) /\ Registering) /\ (Hand(u)' <=> Hand(u))
      BY <1>1, <1>3, <2>3 DEF TurnOK, InHand
    <3> QED
      BY <1>2, <2>1, <2>3, <3>1 DEF Told
  <2> QED
    BY <1>5, <2>1, <2>2, <2>3
<1> QED
  BY <1>4, <1>6 DEF Kept

LEMMA AdmissionsServe ==
  ASSUME Inv, Served, NEW t \in Turn, Admit(t)
  PROVE  Kept
<1> DEFINE queued == MustQueue(SessionOf[t])
<1>1. TypeOK /\ Watched /\ TurnOK(t) /\ Works(t) /\ Told(t)
  BY DEF Inv, Served
<1>2. /\ sched' = [pc |-> IF queued THEN "created" ELSE "admitted", turn |-> t,
                   queued |-> queued]
      /\ record' = [record EXCEPT ![t] = IF queued THEN "queued" ELSE "running"]
      /\ stamp' = stamp
  BY DEF Admit
<1>3. /\ up' = up /\ job' = job /\ queue' = queue /\ thread' = thread /\ aged' = aged
      /\ outcome' = outcome /\ event' = event /\ index' = index
      /\ sched = LockFree /\ record[t] = NoJob
  BY DEF Admit
<1>4. job[t] = NoJob /\ index[t] = NoJob /\ ~InQueue(t)
  <2>1. job[t] = NoJob /\ index[t] = NoJob
    BY <1>1, <1>3 DEF TurnOK, Unborn
  <2> QED
    BY <1>1, <2>1, Statuses, SchedulerAssumption DEF Works
<1>5. \A u \in Turn : InQueue(u)' <=> InQueue(u)
  BY <1>3 DEF InQueue
<1>6. \A u \in Turn \ {t} : ~Hand(u) /\ ~Hand(u)'
  BY <1>2, <1>3 DEF Hand, LockFree
<1>7. \A u \in Turn \ {t} : SameStory(u)
  BY <1>2, <1>3, <1>5, <1>6 DEF SameStory
<1>8. Works(t)' /\ StaysFinal(t)
  BY <1>1, <1>3, <1>5 DEF Works, StaysFinal
<1>9. Told(t)'
  <2>1. record'[t] = IF queued THEN "queued" ELSE "running"
    BY <1>1, <1>2 DEF TypeOK
  <2> QED
    BY <1>2, <1>3, <1>4, <2>1, Statuses DEF Told
<1>10. Watched'
  <2>1. Looking => Looking'
    BY <1>3 DEF Looking
  <2>2. \A u \in Turn : (InQueue(u) /\ ~TimedOut(u))' => InQueue(u) /\ ~TimedOut(u)
    <3>1. \A u \in Turn \ {t} : TimedOut(u)' <=> TimedOut(u)
      BY <1>2, <1>3 DEF TimedOut
    <3> QED
      BY <1>4, <1>5, <3>1
  <2> QED
    BY <1>1, <1>2, <1>3, <2>1, <2>2, StillWatched
<1> QED
  BY <1>7, <1>8, <1>9, <1>10, OneStory

LEMMA RegistrationsServe ==
  ASSUME Inv, Served, ClaimLease \/ PersistPayload \/ AdmitFails
  PROVE  Kept
<1> SUFFICES ASSUME NEW t \in Turn, t = sched.turn PROVE Kept
  BY DEF Inv, LockOK, ClaimLease, PersistPayload, AdmitFails
<1>1. TypeOK /\ Watched /\ TurnOK(t) /\ Works(t) /\ Told(t)
  BY DEF Inv, Served
<1>2. /\ sched.pc \in {"created", "leased"} /\ Hand(t)
      /\ up' = up /\ job' = job /\ queue' = queue /\ thread' = thread /\ aged' = aged
      /\ outcome' = outcome /\ event' = event /\ index' = index
      /\ \A u \in Turn \ {t} : stamp'[u] = stamp[u] /\ record'[u] = record[u]
  BY <1>1 DEF ClaimLease, PersistPayload, AdmitFails, Hand, TypeOK
<1>3. \/ /\ sched'.pc \in {"leased", "admitted"} /\ sched'.turn = t
         /\ sched'.queued = sched.queued /\ record' = record
      \/ sched' = LockFree
  BY <1>1 DEF ClaimLease, PersistPayload, AdmitFails, TypeOK
<1>4. /\ job[t] = NoJob /\ index[t] = NoJob /\ ~InQueue(t)
      /\ record[t] = IF sched.queued THEN "queued" ELSE "running"
  BY <1>1, <1>2 DEF TurnOK, InHand, Told
<1>5. \A u \in Turn : InQueue(u)' <=> InQueue(u)
  BY <1>2 DEF InQueue
<1>6. \A u \in Turn \ {t} : ~Hand(u) /\ ~Hand(u)'
  BY <1>3 DEF Hand, LockFree
<1>7. \A u \in Turn \ {t} : SameStory(u)
  BY <1>2, <1>5, <1>6 DEF SameStory
<1>8. Works(t)' /\ StaysFinal(t)
  BY <1>1, <1>2, <1>5 DEF Works, StaysFinal
<1>9. Told(t)'
  BY <1>2, <1>3, <1>4, Statuses DEF Told, Hand, LockFree
<1>10. Watched'
  <2>1. Looking => Looking'
    BY <1>2 DEF Looking
  <2>2. \A u \in Turn : (InQueue(u) /\ ~TimedOut(u))' => InQueue(u) /\ ~TimedOut(u)
    <3>1. \A u \in Turn \ {t} : TimedOut(u)' <=> TimedOut(u)
      BY <1>2 DEF TimedOut
    <3> QED
      BY <1>4, <1>5, <3>1
  <2>3. CASE Looking
    BY <2>1, <2>3 DEF Watched
  <2>4. CASE ~Looking
    <3>1. \/ sched' = sched
          \/ /\ sched'.pc \notin {"popped", "persisted"}
             /\ sched'.pc # "free" /\ sched'.queued => MustQueue(SessionOf[sched'.turn])
      BY <1>1, <1>2, <1>3, <2>4 DEF Watched, LockFree
    <3> QED
      BY <1>1, <1>2, <2>1, <2>2, <3>1, StillWatched
  <2> QED
    BY <2>3, <2>4
<1> QED
  BY <1>7, <1>8, <1>9, <1>10, OneStory

LEMMA EntriesServe ==
  ASSUME Inv, Served, Enter
  PROVE  Kept
<1>1. PICK t \in Turn : t = sched.turn
  BY DEF Inv, Enter, LockOK
<1>2. /\ TypeOK /\ LockOK /\ Watched /\ TurnOK(t) /\ Works(t) /\ Told(t)
      /\ sched.pc = "admitted" /\ Hand(t)
  BY <1>1 DEF Inv, Served, Enter, Hand
<1>3. /\ sched'.pc = "entered" /\ sched'.turn = t /\ sched'.queued = sched.queued
      /\ job'[t] = IF sched.queued THEN "queued" ELSE "running"
      /\ \A u \in Turn \ {t} : job'[u] = job[u]
      /\ up' = up /\ queue' = queue /\ thread' = thread /\ aged' = aged
      /\ outcome' = outcome /\ event' = event /\ index' = index
      /\ record' = record /\ stamp' = stamp
  BY <1>1, <1>2 DEF Enter, TypeOK, files
<1>4. /\ job[t] = NoJob /\ index[t] = NoJob /\ event[t] = "none" /\ ~InQueue(t)
      /\ thread[t] = "none" /\ up # "down"
      /\ record[t] = IF sched.queued THEN "queued" ELSE "running"
  BY <1>2 DEF TurnOK, InHand, Told, LockOK
<1>5. \A u \in Turn : /\ InQueue(u)' <=> InQueue(u)
                      /\ Hand(u)' <=> Hand(u)
                      /\ TimedOut(u)' <=> TimedOut(u)
  BY <1>1, <1>2, <1>3 DEF InQueue, Hand, TimedOut
<1>6. \A u \in Turn \ {t} : SameStory(u)
  <2>1. \A u \in Turn \ {t} : ~Hand(u)
    BY <1>1 DEF Hand
  <2> QED
    BY <1>3, <1>5, <2>1 DEF SameStory
<1>7. Works(t)' /\ Told(t)' /\ StaysFinal(t)
  <2>1. ~IsTerminal(job[t])
    BY <1>4, Statuses
  <2>2. Works(t)' /\ StaysFinal(t)
    BY <1>3, <1>4, <1>5, <2>1 DEF Works, StaysFinal
  <2>3. Told(t)'
    BY <1>2, <1>3, <1>4, <1>5, Statuses DEF Told
  <2> QED
    BY <2>2, <2>3
<1>8. Watched'
  <2>1. Looking => Looking'
    BY <1>3 DEF Looking
  <2>2. \A u \in Turn : IsActive(job[u]) => IsActive(job'[u])
    BY <1>3, <1>4, Statuses
  <2>3. CASE Looking
    BY <2>1, <2>3 DEF Watched
  <2>4. CASE ~Looking
    BY <1>1, <1>2, <1>3, <1>5, <2>1, <2>2, <2>4, StillWatched DEF Watched
  <2> QED
    BY <2>3, <2>4
<1> QED
  BY <1>6, <1>7, <1>8, OneStory

\* A turn that is appended to its queue, and no other, comes into a queue.
LEMMA PushedQueue ==
  ASSUME TypeOK, NEW t \in Turn,
         queue' = [queue EXCEPT ![SessionOf[t]] = Append(@, t)],
         NEW u \in Turn, InQueue(u)'
  PROVE  InQueue(u) \/ u = t
<1> DEFINE s == SessionOf[u]
           q == queue[SessionOf[t]]
<1>1. s \in Session /\ SessionOf[t] \in Session
  BY SchedulerAssumption
<1>2. CASE s # SessionOf[t]
  BY <1>1, <1>2 DEF TypeOK, InQueue
<1>3. CASE s = SessionOf[t]
  <2>1. q \in Seq(Turn)
    BY <1>1 DEF TypeOK
  <2>2. queue'[s] = Append(q, t)
    BY <1>1, <1>3 DEF TypeOK
  <2>3. \E i \in DOMAIN Append(q, t) : Append(q, t)[i] = u
    BY <2>2 DEF InQueue
  <2>4. InQueue(u) <=> \E i \in DOMAIN q : q[i] = u
    BY <1>3 DEF InQueue
  <2> HIDE DEF q, s
  <2>5. /\ DOMAIN q = 1..Len(q) /\ Len(q) \in Nat
        /\ DOMAIN Append(q, t) = 1..(Len(q) + 1)
        /\ \A i \in 1..Len(q) : Append(q, t)[i] = q[i]
        /\ Append(q, t)[Len(q) + 1] = t
    BY <2>1, AppendProperties, LenProperties
  <2>6. \A i \in 1..(Len(q) + 1) : i \in 1..Len(q) \/ i = Len(q) + 1
    BY <2>5
  <2> QED
    BY <2>3, <2>4, <2>5, <2>6
<1> QED
  BY <1>2, <1>3

LEMMA PushesServe ==
  ASSUME Inv, Served, Push
  PROVE  Kept
<1>1. PICK t \in Turn : t = sched.turn
  BY DEF Inv, Push, LockOK
<1>2. /\ TypeOK /\ LockOK /\ Watched /\ TurnOK(t) /\ Works(t) /\ Told(t)
      /\ sched.pc = "entered" /\ Hand(t) /\ intr[t] = "none"
  BY <1>1 DEF Inv, Served, Push, Hand, Quiet
<1> DEFINE s == IF sched.queued THEN "queued" ELSE "running"
<1>3. /\ sched' = LockFree /\ Save([u \in {t} |-> s])
      /\ queue' = IF sched.queued THEN [queue EXCEPT ![SessionOf[t]] = Append(@, t)] ELSE queue
      /\ thread' = IF sched.queued THEN thread ELSE [thread EXCEPT ![t] = "due"]
      /\ up' = up /\ job' = job /\ aged' = aged
      /\ outcome' = outcome /\ event' = event /\ stamp' = stamp
  BY <1>1 DEF Push
<1>4. /\ job[t] = s /\ event[t] = "none" /\ ~InQueue(t) /\ thread[t] = "none" /\ up # "down"
      /\ record[t] = s /\ s \in JobStatus /\ CanTransition(s, s)
  <2>1. job[t] = s /\ event[t] = "none" /\ ~InQueue(t) /\ thread[t] = "none"
    BY <1>2 DEF TurnOK, InHand
  <2>2. s \in JobStatus /\ s # NoJob /\ CanTransition(s, s)
    BY Statuses, Endings
  <2> QED
    BY <1>2, <2>1, <2>2 DEF Told, LockOK
<1>5. /\ index'[t] = s /\ record'[t] = s
      /\ \A u \in Turn \ {t} : index'[u] = index[u] /\ record'[u] = record[u]
  BY <1>2, <1>3, <1>4, SaveOneTells
<1>6. /\ thread'[t] = IF sched.queued THEN "none" ELSE "due"
      /\ \A u \in Turn \ {t} : thread'[u] = thread[u]
  BY <1>2, <1>3, <1>4 DEF TypeOK
<1>7. \A u \in Turn : /\ InQueue(u)' => InQueue(u) \/ (u = t /\ sched.queued)
                      /\ ~Hand(u)'
                      /\ TimedOut(u)' <=> TimedOut(u)
  <2>1. sched.queued => \A u \in Turn : InQueue(u)' => InQueue(u) \/ u = t
    BY <1>2, <1>3, PushedQueue
  <2>2. ~sched.queued => \A u \in Turn : InQueue(u)' => InQueue(u)
    BY <1>3 DEF InQueue
  <2>3. \A u \in Turn : ~Hand(u)' /\ (TimedOut(u)' <=> TimedOut(u))
    BY <1>3 DEF Hand, LockFree, TimedOut
  <2> QED
    BY <2>1, <2>2, <2>3
<1>8. \A u \in Turn \ {t} : SameStory(u)
  <2>1. \A u \in Turn \ {t} : ~Hand(u)
    BY <1>1 DEF Hand
  <2> QED
    BY <1>3, <1>5, <1>6, <1>7, <2>1 DEF SameStory
<1>9. Works(t)' /\ StaysFinal(t)
  BY <1>3, <1>4, <1>6, <1>7 DEF Works, StaysFinal
<1>10. Told(t)'
  BY <1>3, <1>4, <1>5, <1>7 DEF Told
<1>11. Watched'
  <2>1. Looking => Looking'
    <3>1. \A u \in Turn : thread[u] \in {"stop", "next"} => thread'[u] = thread[u]
      BY <1>4, <1>6
    <3> QED
      BY <1>3, <3>1 DEF Looking
  <2>2. CASE Looking
    BY <2>1, <2>2 DEF Watched
  <2>3. CASE ~Looking
    <3>1. ~Startable /\ (sched.queued => MustQueue(SessionOf[t]))
      BY <1>1, <1>2, <2>3 DEF Watched
    <3>2. ~Startable'
      BY <1>3, <1>7, <3>1 DEF Startable, MustQueue
    <3> QED
      BY <1>3, <3>2 DEF Watched, LockFree
  <2> QED
    BY <2>2, <2>3
<1> QED
  BY <1>8, <1>9, <1>10, <1>11, OneStory

\* Only queued jobs expire, so the active jobs stay the active ones.
LEMMA ExpiredWereQueued ==
  ASSUME TypeOK, \A t \in Turn : Works(t)
  PROVE  /\ \A t \in Turn : JobsUnexpired[t] = IF t \in Expired THEN "cancelled" ELSE job[t]
         /\ \A t \in Turn : t \in Expired => job[t] = "queued" /\ InQueue(t) /\ TimedOut(t)
         /\ \A t \in Turn : IsActive(job[t]) <=> IsActive(JobsUnexpired[t])
         /\ \A s : SessionHasRunningTurn(JobsUnexpired, s) <=> SessionHasRunningTurn(job, s)
         /\ RunningCount(JobsUnexpired) >= Quota <=> RunningCount(job) >= Quota
<1>1. \A t \in Turn : JobsUnexpired[t] = IF t \in Expired THEN "cancelled" ELSE job[t]
  BY DEF JobsUnexpired
<1>2. \A t \in Turn : t \in Expired => job[t] = "queued" /\ InQueue(t) /\ TimedOut(t)
  BY DEF Expired, Works
<1>3. \A t \in Turn : IsActive(job[t]) <=> IsActive(JobsUnexpired[t])
  BY <1>1, <1>2, Statuses, Endings
<1> DEFINE jobs == JobsUnexpired
<1> HIDE DEF jobs
<1>4. jobs = JobsUnexpired
  BY DEF jobs
<1>5. \A t \in Turn : IsActive(job[t]) <=> IsActive(jobs[t])
  BY <1>3, <1>4
<1>6. /\ \A s : SessionHasRunningTurn(job, s) => SessionHasRunningTurn(jobs, s)
      /\ RunningCount(job) >= Quota => RunningCount(jobs) >= Quota
  BY <1>5, MoreActive
<1>7. /\ \A s : SessionHasRunningTurn(jobs, s) => SessionHasRunningTurn(job, s)
      /\ RunningCount(jobs) >= Quota => RunningCount(job) >= Quota
  BY <1>5, MoreActive
<1> QED
  BY <1>1, <1>2, <1>3, <1>4, <1>6, <1>7

\* A turn that is not popped while the queues are looked at.
LEMMA UnpoppedStory ==
  ASSUME TypeOK, sched = LockFree, NEW u \in Turn, Works(u), Told(u),
         Save([v \in Expired |-> "cancelled"]),
         job'[u] = IF u \in Expired THEN "cancelled" ELSE job[u],
         InQueue(u)' => InQueue(u) /\ ~TimedOut(u),
         thread'[u] = thread[u] \/ (thread[u] = "next" /\ thread'[u] = "none"),
         ~Hand(u)', outcome' = outcome, event' = event, up' = "down" => up = "down"
  PROVE  Works(u)' /\ Told(u)' /\ StaysFinal(u)
<1>1. u \in Expired => job[u] = "queued" /\ ~InQueue(u)' /\ job[u] # NoJob
  BY Statuses DEF Expired, Works
<1>2. ~Hand(u)
  BY DEF Hand, LockFree
<1>3. /\ index'[u] = IF u \in Expired THEN "cancelled" ELSE index[u]
      /\ u \in Expired /\ record[u] = "queued" => record'[u] = "cancelled"
      /\ u \notin Expired => record'[u] = record[u]
  BY SaveExpired
<1>4. CASE u \in Expired
  <2>1. /\ job[u] = "queued" /\ job'[u] = "cancelled" /\ index'[u] = "cancelled"
        /\ record'[u] = "cancelled" /\ ~InQueue(u)'
    BY <1>1, <1>2, <1>3, <1>4 DEF Told
  <2>2. thread[u] \notin {"due", "run", "stop"} /\ up # "down"
    BY <1>1, <1>4, Endings DEF Works
  <2>3. thread'[u] \notin {"due", "run", "stop"} /\ ~IsActive("cancelled") /\ ~IsTerminal("queued")
    BY <2>2, Endings, Statuses
  <2>4. Works(u)' /\ StaysFinal(u)
    BY <2>1, <2>2, <2>3 DEF Works, StaysFinal
  <2> QED
    BY <2>1, <2>4 DEF Told
<1>5. CASE u \notin Expired
  <2>1. job'[u] = job[u] /\ index'[u] = index[u] /\ record'[u] = record[u]
    BY <1>3, <1>5
  <2>2. Works(u)' /\ StaysFinal(u)
    BY <2>1 DEF Works, StaysFinal
  <2> QED
    BY <1>2, <2>1, <2>2 DEF Told
<1> QED
  BY <1>4, <1>5

LEMMA PopsServe ==
  ASSUME Inv, Served, PopSelect
  PROVE  Kept
<1>1. TypeOK /\ QueuesOK /\ \A u \in Turn : Works(u) /\ Told(u)
  BY DEF Inv, Served
<1>2. PICK t \in Turn :
        /\ InQueue(t) /\ ~TimedOut(t)
        /\ job'[t] = IF job[t] = "queued" THEN "running" ELSE job[t]
        /\ \A u \in Turn \ {t} : job'[u] = JobsUnexpired[u]
        /\ \A u \in Turn : InQueue(u)' => InQueue(u) /\ ~TimedOut(u) /\ u # t
        /\ sched' = [pc |-> "popped", turn |-> t, queued |-> job[t] = "queued"]
  BY PoppedOne, <1>1
<1>3. /\ sched = LockFree /\ (up = "starting" \/ \E u \in Turn : thread[u] = "next")
      /\ Save([u \in Expired |-> "cancelled"])
      /\ up' = up /\ thread' = thread /\ outcome' = outcome /\ event' = event
  BY DEF PopSelect, MayPop
<1>4. \A u \in Turn : JobsUnexpired[u] = IF u \in Expired THEN "cancelled" ELSE job[u]
  BY <1>1, ExpiredWereQueued
<1>5. ASSUME NEW u \in Turn \ {t} PROVE Works(u)' /\ Told(u)' /\ StaysFinal(u)
  <2>1. ~Hand(u)'
    BY <1>2 DEF Hand
  <2> QED
    BY <1>1, <1>2, <1>3, <1>4, <2>1, UnpoppedStory
<1>6. Works(t) /\ Told(t) /\ job[t] = "queued" /\ t \notin Expired
  BY <1>1, <1>2 DEF Works, Expired
<1>7. ~Hand(t) /\ Hand(t)' /\ sched'.pc = "popped" /\ sched'.queued
  BY <1>2, <1>3, <1>6 DEF Hand, LockFree
<1>8. index[t] = "queued" /\ record[t] = "queued" /\ index'[t] = "queued" /\ record'[t] = "queued"
  BY <1>1, <1>3, <1>6, <1>7, Statuses, SaveExpired DEF Told
<1>9. job'[t] = "running" /\ ~InQueue(t)' /\ thread[t] \notin {"due", "run", "stop"}
  BY <1>2, <1>6, Endings DEF Works
<1>10. Works(t)' /\ StaysFinal(t)
  <2>1. event[t] = "none" \/ thread[t] = "stop"
    BY <1>1, <1>6 DEF Inv, TurnOK, QueuedIsKept
  <2>2. up # "down" /\ ~IsTerminal(job[t])
    BY <1>6, Statuses DEF Works
  <2> QED
    BY <1>3, <1>9, <2>1, <2>2 DEF Works, StaysFinal
<1>11. Told(t)'
  BY <1>7, <1>8 DEF Told
<1>12. Watched'
  BY <1>3 DEF Watched, Looking
<1> QED
  BY <1>5, <1>10, <1>11, <1>12 DEF Kept

LEMMA PersistsServe ==
  ASSUME Inv, Served, PopPersist
  PROVE  Kept
<1>1. PICK t \in Turn : t = sched.turn
  BY DEF Inv, PopPersist, LockOK
<1>2. /\ TypeOK /\ Watched /\ TurnOK(t) /\ Works(t) /\ Told(t) /\ intr[t] = "none"
      /\ sched.pc = "popped" /\ Hand(t)
  BY <1>1 DEF Inv, Served, PopPersist, Hand, Quiet
<1>3. /\ sched'.pc = "persisted" /\ sched'.turn = t /\ sched'.queued = sched.queued
      /\ up' = up /\ job' = job /\ queue' = queue /\ thread' = thread
      /\ outcome' = outcome /\ event' = event
  BY <1>1, <1>2 DEF PopPersist, TypeOK
<1>4. \A u \in Turn : /\ InQueue(u)' <=> InQueue(u)
                      /\ Hand(u)' <=> Hand(u)
  BY <1>1, <1>2, <1>3 DEF InQueue, Hand
<1>5. \A u \in Turn \ {t} : index'[u] = index[u] /\ record'[u] = record[u]
  <2>1. CASE sched.queued
    <3>1. Save([u \in {t} |-> "running"])
      BY <1>1, <2>1 DEF PopPersist
    <3> QED
      BY <1>2, <3>1, SaveOneTells, Statuses
  <2>2. CASE ~sched.queued
    BY <2>2 DEF PopPersist
  <2> QED
    BY <2>1, <2>2
<1>6. \A u \in Turn \ {t} : SameStory(u)
  <2>1. \A u \in Turn \ {t} : ~Hand(u)
    BY <1>1 DEF Hand
  <2> QED
    BY <1>3, <1>4, <1>5, <2>1 DEF SameStory
<1>7. Works(t)' /\ StaysFinal(t)
  BY <1>2, <1>3, <1>4 DEF Works, StaysFinal
<1>8. Told(t)'
  <2>1. CASE sched.queued
    <3>1. job[t] = "running" /\ job[t] # NoJob
      BY <1>2, <2>1, Statuses DEF TurnOK, InHand
    <3>2. record[t] = "queued"
      BY <1>2, <2>1, <3>1 DEF Told
    <3>3. Save([u \in {t} |-> "running"]) /\ "running" \in JobStatus
      BY <1>1, <2>1, Statuses DEF PopPersist
    <3>4. /\ index'[t] = "running"
          /\ record'[t] = IF CanTransition(record[t], "running") THEN "running" ELSE record[t]
      BY <1>2, <3>3, SaveOneTells
    <3>5. record'[t] = "running"
      BY <3>2, <3>4, Endings
    <3> QED
      BY <1>3, <3>1, <3>4, <3>5 DEF Told
  <2>2. CASE ~sched.queued
    <3>1. index' = index /\ record' = record
      BY <2>2 DEF PopPersist
    <3> QED
      BY <1>2, <1>3, <2>2, <3>1 DEF Told
  <2> QED
    BY <2>1, <2>2
<1>9. Watched'
  BY <1>2, <1>3 DEF Watched, Looking
<1> QED
  BY <1>6, <1>7, <1>8, <1>9, OneStory

LEMMA SpawnsServe ==
  ASSUME Inv, Served, PopDone
  PROVE  Kept
<1>1. PICK t \in Turn : t = sched.turn
  BY DEF Inv, PopDone, LockOK
<1>2. /\ TypeOK /\ LockOK /\ Watched /\ TurnOK(t) /\ Works(t) /\ Told(t) /\ intr[t] = "none"
      /\ sched.pc = "persisted" /\ Hand(t)
  BY <1>1 DEF Inv, Served, PopDone, Hand, Quiet
<1>3. /\ sched' = LockFree /\ up' = up /\ queue' = queue /\ outcome' = outcome
  BY DEF PopDone
<1>4. /\ thread[t] = "none" /\ ~InQueue(t) /\ up # "down"
      /\ sched.queued => job[t] = "running" /\ event[t] = "none"
      /\ job[t] # NoJob => index[t] = job[t] /\ record[t] = job[t]
  BY <1>2 DEF TurnOK, InHand, Told, LockOK
<1>5. \A u \in Turn : /\ InQueue(u)' <=> InQueue(u)
                      /\ ~Hand(u)'
  BY <1>3 DEF InQueue, Hand, LockFree
<1>6. /\ \A u \in Turn \ {t} :
           /\ thread'[u] = thread[u] /\ job'[u] = job[u] /\ event'[u] = event[u]
           /\ index'[u] = index[u] /\ record'[u] = record[u]
      /\ \/ /\ sched.queued /\ thread'[t] = "run" /\ job'[t] = "running" /\ event'[t] = "none"
            /\ index'[t] = "running" /\ record'[t] = "running"
         \/ /\ sched.queued /\ thread'[t] = "none" /\ job'[t] = "failed"
            /\ index'[t] = "failed" /\ record'[t] = "failed"
         \/ /\ thread'[t] = "none" /\ job'[t] = job[t] /\ event'[t] = event[t]
            /\ index'[t] = index[t] /\ record'[t] = record[t]
  <2>1. CASE /\ sched.queued /\ thread' = [thread EXCEPT ![t] = "run"]
             /\ job' = job /\ index' = index /\ record' = record /\ event' = event
    BY <1>2, <1>4, <2>1, Statuses DEF TypeOK
  <2>2. CASE /\ sched.queued /\ event' = [event EXCEPT ![t] = "failed"]
             /\ job' = [job EXCEPT ![t] = "failed"] /\ Save([u \in {t} |-> "failed"])
             /\ thread' = thread
    <3>1. record[t] = "running" /\ "failed" \in JobStatus
      BY <1>4, <2>2, Statuses
    <3>2. /\ index'[t] = "failed"
          /\ record'[t] = IF CanTransition(record[t], "failed") THEN "failed" ELSE record[t]
          /\ \A u \in Turn \ {t} : index'[u] = index[u] /\ record'[u] = record[u]
      BY <1>2, <2>2, <3>1, SaveOneTells
    <3>3. record'[t] = "failed"
      BY <3>1, <3>2, Endings
    <3> QED
      BY <1>2, <1>4, <2>2, <3>2, <3>3 DEF TypeOK
  <2>3. CASE /\ ~sched.queued /\ job' = job /\ thread' = thread /\ index' = index
             /\ record' = record /\ event' = event
    BY <1>4, <2>3
  <2> QED
    BY <1>1, <2>1, <2>2, <2>3 DEF PopDone
<1>7. \A u \in Turn \ {t} : SameStory(u)
  <2>1. \A u \in Turn \ {t} : ~Hand(u)
    BY <1>1 DEF Hand
  <2> QED
    BY <1>3, <1>5, <1>6, <2>1 DEF SameStory
<1>8. Works(t)' /\ StaysFinal(t)
  <2>1. ~IsTerminal("running") /\ ~IsActive("failed")
    BY Statuses, Endings
  <2> QED
    BY <1>2, <1>3, <1>4, <1>5, <1>6, <2>1 DEF Works, StaysFinal
<1>9. Told(t)'
  BY <1>2, <1>4, <1>5, <1>6 DEF Told
<1>10. Watched'
  <2>1. Looking
    BY <1>2 DEF Watched
  <2>2. \A u \in Turn : thread[u] \in {"stop", "next"} => thread'[u] = thread[u]
    BY <1>4, <1>6
  <2> QED
    BY <1>3, <2>1, <2>2 DEF Looking, Watched
<1> QED
  BY <1>7, <1>8, <1>9, <1>10, OneStory

\* When nothing is schedulable nothing is startable: of several candidates
\* one was queued first.
LEMMA NothingSchedulable ==
  ASSUME TypeOK, QueuesOK, \A t \in Turn : Works(t),
         Schedulable(JobsUnexpired, Unexpired) = {}
  PROVE  ~Startable
<1> SUFFICES ASSUME Startable PROVE FALSE
  OBVIOUS
<1> DEFINE C == Candidates(JobsUnexpired, Unexpired)
<1>1. /\ \A s : SessionHasRunningTurn(JobsUnexpired, s) <=> SessionHasRunningTurn(job, s)
      /\ RunningCount(JobsUnexpired) >= Quota <=> RunningCount(job) >= Quota
  BY ExpiredWereQueued
<1>2. PICK t \in Turn : InQueue(t) /\ ~TimedOut(t) /\ ~SessionHasRunningTurn(job, SessionOf[t])
  BY DEF Startable
<1>3. /\ Unexpired \in [Session -> Seq(Turn)]
      /\ \A s \in Session, u \in Turn :
           Among(u, Unexpired[s]) <=> Among(u, queue[s]) /\ ~TimedOut(u)
      /\ \A u \in Turn : InQueue(u) <=> Among(u, queue[SessionOf[u]])
  BY UnexpiredQueues
<1>4. SessionOf[t] \in Session
  BY SchedulerAssumption
<1>5. Among(t, Unexpired[SessionOf[t]])
  BY <1>2, <1>3, <1>4
<1>6. Unexpired[SessionOf[t]] # <<>>
  <2>1. Len(Unexpired[SessionOf[t]]) # 0
    <3>1. PICK i \in 1..Len(Unexpired[SessionOf[t]]) : TRUE
      BY <1>5 DEF Among
    <3> QED
      BY <3>1
  <2> QED
    BY <2>1
<1>7. C # {}
  BY <1>1, <1>2, <1>4, <1>6 DEF Candidates
<1>8. \A u \in C : u \in Turn
  <2>1. ASSUME NEW q \in Seq(Turn), q # <<>> PROVE q[1] \in Turn
    BY <2>1, HeadTailProperties, EmptySeq, LenProperties
  <2> QED
    BY <1>3, <2>1 DEF Candidates
<1> HIDE DEF C
<1>9. {stamp[u] : u \in C} \in SUBSET Nat /\ {stamp[u] : u \in C} # {}
  BY <1>7, <1>8 DEF TypeOK
<1>10. PICK u \in C : \A v \in C : stamp[u] <= stamp[v]
  <2>1. PICK n \in {stamp[u] : u \in C} : \A m \in {stamp[u] : u \in C} : n <= m
    BY <1>9, LeastNat
  <2> QED
    BY <2>1
<1>11. ~(RunningCount(JobsUnexpired) >= Quota)
  BY <1>1 DEF Startable
<1> QED
  BY <1>10, <1>11 DEF Schedulable, C

\* What expires, with the queues and the jobs, in a poll or when a worker
\* finds nothing to start.
LEMMA ExpiriesServe ==
  ASSUME Inv, Served, Expire \/ PopNothing
  PROVE  Kept
<1>1. TypeOK /\ QueuesOK /\ Watched /\ \A u \in Turn : Works(u) /\ Told(u)
  BY DEF Inv, Served
<1>2. /\ sched = LockFree /\ job' = JobsUnexpired /\ queue' = Unexpired
      /\ Save([v \in Expired |-> "cancelled"])
      /\ sched' = sched /\ outcome' = outcome /\ event' = event /\ stamp' = stamp
      /\ aged' = aged
  BY DEF Expire, PopNothing, MayPop
<1>3. /\ up' = "down" => up = "down"
      /\ \A u \in Turn : thread'[u] = thread[u] \/ (thread[u] = "next" /\ thread'[u] = "none")
  <2>1. CASE Expire
    BY <2>1 DEF Expire
  <2>2. CASE PopNothing
    BY <1>1, <2>2 DEF PopNothing, TypeOK
  <2> QED
    BY <2>1, <2>2
<1>4. /\ \A u \in Turn : JobsUnexpired[u] = IF u \in Expired THEN "cancelled" ELSE job[u]
      /\ \A u \in Turn : IsActive(job[u]) <=> IsActive(JobsUnexpired[u])
  BY <1>1, ExpiredWereQueued
<1>5. \A u \in Turn : InQueue(u)' => InQueue(u) /\ ~TimedOut(u)
  <2> DEFINE keep == {u \in Turn : ~TimedOut(u)}
  <2>1. queue' = [s \in Session |-> Retain(queue[s], keep)]
    BY <1>2 DEF Unexpired
  <2>2. \A u \in keep : ~TimedOut(u)
    OBVIOUS
  <2> HIDE DEF keep
  <2>3. \A u \in Turn : InQueue(u)' <=> InQueue(u) /\ u \in keep
    BY <1>1, <2>1, RetainedInQueue
  <2> QED
    BY <2>2, <2>3
<1>6. ASSUME NEW u \in Turn PROVE Works(u)' /\ Told(u)' /\ StaysFinal(u)
  <2>1. ~Hand(u)'
    BY <1>2 DEF Hand, LockFree
  <2> QED
    BY <1>1, <1>2, <1>3, <1>4, <1>5, <2>1, UnpoppedStory
<1>7. /\ \A u \in Turn : IsActive(job[u]) => IsActive(job'[u])
      /\ \A u \in Turn : (InQueue(u) /\ ~TimedOut(u))' => InQueue(u) /\ ~TimedOut(u)
  BY <1>2, <1>4, <1>5 DEF TimedOut
<1>8. Watched'
  <2>1. CASE Expire
    <3>1. Looking => Looking'
      BY <2>1 DEF Expire, Looking
    <3> QED
      BY <1>1, <1>2, <1>7, <3>1, StillWatched
  <2>2. CASE PopNothing
    <3>1. ~Startable
      BY <1>1, <2>2, NothingSchedulable DEF PopNothing
    <3>2. ~Startable'
      BY <1>7, <3>1, StillNotStartable
    <3> QED
      BY <1>2, <3>2 DEF Watched, LockFree
  <2> QED
    BY <2>1, <2>2
<1> QED
  BY <1>6, <1>8 DEF Kept

LEMMA CrashesServe ==
  ASSUME Inv, Served, Crash
  PROVE  Kept
<1>1. TypeOK /\ \A u \in Turn : Works(u) /\ Told(u)
  BY DEF Inv, Served
<1>2. /\ up' = "down" /\ sched' = LockFree /\ index' = index /\ record' = record
      /\ \A u \in Turn : job'[u] = NoJob /\ thread'[u] = "none"
      /\ queue' = [s \in Session |-> <<>>]
  BY DEF Crash, files
<1>3. \A u \in Turn : ~InQueue(u)' /\ ~Hand(u)'
  <2>1. \A u \in Turn : SessionOf[u] \in Session
    BY SchedulerAssumption
  <2> QED
    BY <1>2, <2>1 DEF InQueue, Hand, LockFree
<1>4. ASSUME NEW u \in Turn PROVE Works(u)' /\ Told(u)' /\ StaysFinal(u)
  <2>1. Works(u)' /\ StaysFinal(u)
    BY <1>2, <1>3, Statuses DEF Works, StaysFinal
  <2>2. Told(u)
    BY <1>1
  <2>3. Told(u)'
    BY <1>2, <1>3, <2>2 DEF Told
  <2> QED
    BY <2>1, <2>3
<1>5. Watched'
  BY <1>2, <1>3 DEF Watched, Startable, LockFree
<1> QED
  BY <1>4, <1>5 DEF Kept

\* The restarted process knows the turns it queues, which the disk shows queued.
LEMMA RestartsServe ==
  ASSUME Inv, Served, Restart
  PROVE  Kept
<1>1. /\ TypeOK /\ LockOK /\ QueuesOK /\ \A u \in Turn : TurnOK(u) /\ Works(u) /\ Told(u)
  BY DEF Inv, Served
<1>2. PICK stale \in SUBSET leased :
        LET recovered == Recoverable(stale)
            lost == Abandoned(recovered)
            new == [t \in Turn |-> CASE t \in Late -> "cancelled"
                                     [] t \in lost -> "interrupted"
                                     [] OTHER      -> index[t]]
        IN /\ job' = [t \in Turn |-> IF t \in recovered THEN "queued" ELSE NoJob]
           /\ queue' = Requeued(recovered)
           /\ IF new = index THEN index' = index /\ record' = record
              ELSE Save([t \in {u \in Turn : new[u] # NoJob} |-> new[t]])
           /\ up' = IF recovered = {} THEN "serving" ELSE "starting"
  BY DEF Restart
<1> DEFINE R == Recoverable(stale)
           new == [t \in Turn |-> CASE t \in Late -> "cancelled"
                                    [] t \in Abandoned(R) -> "interrupted"
                                    [] OTHER -> index[t]]
<1>3. /\ \A t \in Turn : job'[t] = IF t \in R THEN "queued" ELSE NoJob
      /\ queue' = Requeued(R)
      /\ up' = IF R = {} THEN "serving" ELSE "starting"
      /\ IF new = index THEN index' = index /\ record' = record
         ELSE Save([t \in {u \in Turn : new[u] # NoJob} |-> new[t]])
  BY <1>2
<1>4. /\ up = "down" /\ sched' = sched /\ thread' = thread /\ event' = event
      /\ sched = LockFree /\ \A u \in Turn : thread[u] = "none"
  BY <1>1 DEF Restart, LockOK
<1>5. /\ R \in SUBSET Turn
      /\ \A u \in R : u \notin Late /\ index[u] = "queued" /\ u \in payload
  BY <1>1 DEF Recoverable, Unwanted, TypeOK
<1>6. /\ \A u \in Abandoned(R) : index[u] # "queued"
      /\ \A u \in R : event[u] = "none" /\ stamp[u] # 0
  <2>1. \A u \in R : event[u] = "none" /\ stamp[u] # 0
    BY <1>1, <1>5 DEF TurnOK, BeforeItsStart
  <2> QED
    BY <2>1 DEF Abandoned
<1>7. /\ new \in [Turn -> JobStatus]
      /\ \A u \in R : new[u] = "queued"
      /\ \A u \in Turn : new[u] = "queued" => index[u] = "queued"
  <2>1. index \in [Turn -> JobStatus]
    BY <1>1 DEF TypeOK
  <2>2. "cancelled" \in JobStatus /\ "interrupted" \in JobStatus
    BY Statuses
  <2>3. \A u \in R : new[u] = "queued"
    BY <1>5, <1>6
  <2> QED
    BY <2>1, <2>2, <2>3
<1> HIDE DEF R, new
<1>8. \A u \in Turn : new[u] = "queued" => index'[u] = "queued" /\ record'[u] = "queued"
  <2>1. \A u \in Turn : new[u] = "queued" => record[u] = "queued"
    BY <1>1, <1>7 DEF Told
  <2>2. CASE new = index
    BY <1>3, <2>1, <2>2
  <2>3. CASE new # index
    <3> DEFINE S == {u \in Turn : new[u] # NoJob}
               c == [t \in S |-> new[t]]
    <3>1. S \in SUBSET Turn /\ c \in [S -> JobStatus] /\ Save(c)
      BY <1>3, <1>7, <2>3
    <3>2. \A u \in Turn : new[u] = "queued" => u \in S /\ c[u] = "queued"
      BY Statuses
    <3> HIDE DEF S, c
    <3>3. ASSUME NEW u \in Turn, new[u] = "queued"
          PROVE  index'[u] = "queued" /\ record'[u] = "queued"
      <4>1. /\ index'[u] = IF u \in S THEN c[u] ELSE index[u]
            /\ record'[u] = IF u \in S /\ CanTransition(record[u], c[u])
                            THEN c[u] ELSE record[u]
        BY <1>1, <3>1, SaveTells
      <4> QED
        BY <2>1, <3>2, <3>3, <4>1
    <3> QED
      BY <3>3
  <2> QED
    BY <2>2, <2>3
<1>9. \A u \in Turn : index'[u] = "queued" => new[u] = "queued"
  <2>1. CASE new = index
    BY <1>3, <2>1
  <2>2. CASE new # index
    <3> DEFINE S == {u \in Turn : new[u] # NoJob}
               c == [t \in S |-> new[t]]
    <3>1. S \in SUBSET Turn /\ c \in [S -> JobStatus] /\ Save(c)
      BY <1>3, <1>7, <2>2
    <3>2. \A u \in Turn : u \in S => c[u] = new[u]
      OBVIOUS
    <3>3. \A u \in Turn : u \notin S => index[u] # "queued" \/ new[u] = NoJob
      OBVIOUS
    <3>4. \A u \in Turn : new[u] = NoJob => index[u] = NoJob
      BY Statuses DEF new
    <3>5. \A u \in Turn : u \notin S => new[u] = NoJob
      OBVIOUS
    <3> HIDE DEF S, c
    <3>6. \A u \in Turn : index'[u] = IF u \in S THEN c[u] ELSE index[u]
      BY <1>1, <3>1, SaveTells
    <3> QED
      BY <3>2, <3>4, <3>5, <3>6, Statuses
  <2> QED
    BY <2>1, <2>2
<1>10. \A u \in Turn : InQueue(u)' => u \in R
  <2>1. /\ queue' \in [Session -> Seq(Turn)]
        /\ \A s \in Session, u \in Turn : Among(u, queue'[s]) <=> u \in R /\ SessionOf[u] = s
    BY <1>1, <1>3, <1>5, <1>6, RequeuedQueues
  <2>2. ASSUME NEW u \in Turn PROVE InQueue(u)' <=> Among(u, queue'[SessionOf[u]])
    BY <2>1, InQueueIsAmong DEF InQueue
  <2> QED
    BY <2>1, <2>2, SchedulerAssumption
<1>11. ASSUME NEW u \in Turn PROVE Works(u)' /\ Told(u)' /\ StaysFinal(u)
  <2>1. ~Hand(u)' /\ thread'[u] = "none"
    BY <1>4 DEF Hand, LockFree
  <2>2. job'[u] = (IF u \in R THEN "queued" ELSE NoJob) /\ ~IsActive(job'[u])
    BY <1>3, Statuses
  <2>3. job[u] = NoJob
    BY <1>1, <1>4 DEF Works
  <2>4. Works(u)' /\ StaysFinal(u)
    BY <1>3, <1>10, <2>1, <2>2, <2>3, Statuses DEF Works, StaysFinal
  <2>5. /\ index'[u] = "queued" => record'[u] = "queued"
        /\ job'[u] # NoJob => index'[u] = job'[u] /\ record'[u] = job'[u]
    BY <1>7, <1>8, <1>9, <2>2
  <2>6. Told(u)'
    BY <2>1, <2>5 DEF Told
  <2> QED
    BY <2>4, <2>6
<1>12. Watched'
  <2>1. CASE R = {}
    <3>1. \A u \in Turn : ~InQueue(u)'
      BY <1>10, <2>1
    <3> QED
      BY <1>4, <3>1 DEF Watched, Startable, LockFree
  <2>2. CASE R # {}
    BY <1>3, <2>2 DEF Watched, Looking
  <2> QED
    BY <2>1, <2>2
<1> QED
  BY <1>11, <1>12 DEF Kept

LEMMA ServedStarts == Init => Served
<1> SUFFICES ASSUME Init PROVE Served
  OBVIOUS
<1>1. /\ \A t \in Turn : /\ job[t] = NoJob /\ thread[t] = "none" /\ index[t] = NoJob
                         /\ event[t] = "none" /\ SessionOf[t] \in Session
      /\ sched = LockFree /\ \A s \in Session : queue[s] = <<>>
  BY SchedulerAssumption DEF Init
<1>2. Quiet
  BY DEF Init, Quiet
<1>3. \A t \in Turn : ~InQueue(t) /\ ~Hand(t)
  BY <1>1 DEF InQueue, Hand, LockFree
<1>4. Watched
  BY <1>1, <1>3 DEF Watched, Startable, LockFree
<1>5. ASSUME NEW t \in Turn PROVE Works(t) /\ Told(t)
  BY <1>1, <1>3, Statuses DEF Works, Told
<1> QED
  BY <1>2, <1>4, <1>5 DEF Served

LEMMA ServedSteps ==
  ASSUME MayAsk = {}, MayInterrupt = {}, Inv, Served, [Next]_vars
  PROVE  Served' /\ \A t \in Turn : StaysFinal(t)
<1>1. /\ NoTurn \notin Turn /\ \A t \in Turn : SessionOf[t] \in Session
      /\ \A s \in Session : pending[s] = NoTurn
      /\ \A r \in Responder : resp[r] = Idle
      /\ \A t \in Turn : intr[t] = "none"
  BY SchedulerAssumption DEF Served, Quiet
<1>2. ASSUME NEW r \in Responder, Response(r) PROVE FALSE
  <2>1. resp[r].pc = "idle"
    BY <1>1 DEF Idle
  <2>2. \A t \in Turn : pending[SessionOf[t]] # t
    BY <1>1
  <2> QED
    BY <1>2, <2>1, <2>2 DEF Response, Respond, Deny, ToolDone, AskAgain, FinishLoop, MarkResponse
<1>3. ASSUME NEW t \in Turn PROVE ~Ask(t) /\ ~RequestCancel(t) /\ ~RecordInterrupt(t)
  BY <1>1 DEF Ask, RequestCancel, RecordInterrupt
<1>4. CASE Scheduler
  <2>1. Quiet'
    BY <1>1, <1>4 DEF Scheduler, ClaimLease, PersistPayload, AdmitFails, Enter, Push, PopSelect, PopPersist, PopDone, PopNothing,
                      Quiet, files
  <2> QED
    BY <1>4, <2>1, RegistrationsServe, EntriesServe, PushesServe, PopsServe, PersistsServe, SpawnsServe,
       ExpiriesServe DEF Scheduler, Kept, Served
<1>5. CASE Expire \/ Age \/ Crash \/ Restart
  <2>1. Quiet'
    BY <1>1, <1>5 DEF Expire, Age, Crash, Restart, Quiet, memory, files
  <2> QED
    BY <1>5, <2>1, ExpiriesServe, PollsServe, CrashesServe, RestartsServe DEF Kept, Served
<1>6. ASSUME NEW t \in Turn, Worker(t) PROVE Served' /\ \A u \in Turn : StaysFinal(u)
  <2>1. SpawnWorker(t) \/ SpawnFails(t) \/ Finish(t) \/ Mark(t)
    BY <1>3, <1>6 DEF Worker
  <2>2. Quiet'
    BY <1>1, <2>1 DEF SpawnWorker, SpawnFails, Finish, Mark, Quiet, files
  <2> QED
    BY <2>1, <2>2, WorkersServe, MarksServe DEF Kept, Served
<1>7. ASSUME NEW t \in Turn, Client(t) PROVE Served' /\ \A u \in Turn : StaysFinal(u)
  <2>1. Admit(t) \/ ReconcileFromEvents(t) \/ ListReconciles(t) \/ StatusReconciles(t)
    BY <1>3, <1>7 DEF Client
  <2>2. Quiet'
    BY <1>1, <2>1 DEF Admit, ReconcileFromEvents, ListReconciles, StatusReconciles, Quiet,
                      memory
  <2> QED
    BY <2>1, <2>2, AdmissionsServe, ReconciliationsServe, PollsServe DEF Kept, Served
<1>8. CASE UNCHANGED vars
  <2>1. /\ up' = up /\ job' = job /\ queue' = queue /\ sched' = sched /\ thread' = thread
        /\ outcome' = outcome /\ resp' = resp /\ intr' = intr /\ index' = index
        /\ record' = record /\ pending' = pending /\ event' = event /\ stamp' = stamp
        /\ aged' = aged
    BY <1>8 DEF vars, memory, files
  <2>2. Quiet' /\ Watched'
    BY <1>1, <2>1 DEF Served, Quiet, Watched, Looking, Startable, RunningCount, InQueue,
                      TimedOut, SessionHasRunningTurn, MustQueue
  <2>3. \A u \in Turn : SameStory(u)
    BY <2>1 DEF SameStory, InQueue, Hand
  <2>4. ASSUME NEW u \in Turn PROVE Works(u)' /\ Told(u)' /\ StaysFinal(u)
    BY <2>3, OtherStory DEF Served
  <2> QED
    BY <2>2, <2>4 DEF Served
<1> QED
  BY <1>2, <1>4, <1>5, <1>6, <1>7, <1>8 DEF Next

\* However many sessions, turns and worker slots there are, whichever turns
\* expire, whichever threads fail to start and however often the runtime dies:
\* while no turn stops for an approval or a question and none is interrupted,
\* job index and ledger agree with every job whenever the scheduler lock is
\* free, and a queued turn that could start is about to be looked for.  With
\* an answer or an interrupt neither half is true: the runs of the findings
\* show a stalled queue and a job that is marked after its end.
THEOREM RegistryIsServed ==
  ASSUME MayAsk = {}, MayInterrupt = {}
  PROVE  Spec => []RegistryServes
<1>1. Inv /\ Served => RegistryServes
  <2> SUFFICES ASSUME Inv, Served PROVE RegistryServes
    OBVIOUS
  <2>1. TypeOK /\ QueuesOK /\ Watched /\ \A t \in Turn : Works(t) /\ Told(t)
    BY DEF Inv, Served
  <2>2. RegistryAgrees
    BY <2>1 DEF RegistryAgrees, Told, Hand, LockFree
  <2>3. ASSUME NEW u \in Schedulable(JobsUnexpired, Unexpired) PROVE Startable
    <3>1. PICK s \in Session :
            /\ Unexpired[s] # <<>> /\ u = Unexpired[s][1]
            /\ ~SessionHasRunningTurn(JobsUnexpired, s)
            /\ ~(RunningCount(JobsUnexpired) >= Quota)
      BY DEF Schedulable, Candidates
    <3>2. /\ Unexpired \in [Session -> Seq(Turn)] /\ QueuesSorted(Unexpired)
          /\ \A v \in Turn : Among(v, Unexpired[s]) <=> Among(v, queue[s]) /\ ~TimedOut(v)
          /\ \A v \in Turn : InQueue(v) <=> Among(v, queue[SessionOf[v]])
      BY <2>1, UnexpiredQueues
    <3>3. u \in Turn /\ SessionOf[u] = s /\ Among(u, Unexpired[s])
      <4>1. Unexpired[s] \in Seq(Turn) /\ SortedFor(Unexpired[s], s)
        BY <3>2 DEF QueuesSorted
      <4> QED
        BY <2>1, <3>1, <4>1, RestSorted
    <3>4. InQueue(u) /\ ~TimedOut(u)
      BY <3>2, <3>3
    <3>5. ~SessionHasRunningTurn(job, s) /\ ~(RunningCount(job) >= Quota)
      BY <2>1, <3>1, ExpiredWereQueued
    <3> QED
      BY <3>3, <3>4, <3>5 DEF Startable
  <2>4. NoLostWakeup
    BY <2>1, <2>3 DEF NoLostWakeup, Watched, Looking, LockFree
  <2> QED
    BY <2>2, <2>4 DEF RegistryServes
<1>2. Inv /\ Served /\ [Next]_vars => Served'
  BY ServedSteps
<1> QED
  BY <1>1, <1>2, InvStarts, InvSteps, ServedStarts, PTL DEF Spec

\* Under the same conditions a job that is completed, failed, cancelled or
\* interrupted stays so while the process lives, whatever a worker, a poll, an
\* expiry or a pop does next.
THEOREM EndedJobsStayEnded ==
  ASSUME MayAsk = {}, MayInterrupt = {}
  PROVE  Spec => TerminalIsFinal
<1>1. Inv /\ Served /\ [Next]_vars => Served'
  BY ServedSteps
<1>2. Inv /\ Served /\ [Next]_vars =>
        [\A t \in Turn : IsTerminal(job[t]) /\ up' # "down" => job'[t] = job[t]]_vars
  BY ServedSteps DEF StaysFinal
<1> QED
  BY <1>1, <1>2, InvStarts, InvSteps, ServedStarts, PTL DEF Spec, TerminalIsFinal
=============================================================================
