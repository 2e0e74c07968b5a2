# Formal model of OpenHarness

TLA+ specifications, TLC configurations and TLAPS proofs for OpenHarness, the Rust
agent runtime in `src/`. Its HTTP/SSE bridge accepts turns, a scheduler runs them on
worker threads, a provider loop calls models and tools, subagent tasks run in child
sessions, and everything that must survive a crash is kept in append-only logs and
small JSON files below a session root, which several threads and several processes
share. The command line drives the same files with a loop of its own.

Contents: 1 inventory, 2 modules and code, 3 the runs, 4 fairness, 5 the proofs,
6 what the models leave out, 7 what the code does that a reader may not expect,
8 plan, 9 how to run it.

Paths below are relative to the repository; `session/` is `src/session/src/`,
`http/` is `runtime/http/src/`.

## 1. Inventory

### Components in the model

| Component | State | Operations | What is hard |
| --- | --- | --- | --- |
| Lifecycle ledger, `session/durable_engine.rs` | `lifecycle.jsonl` of a session, its lock, the records callers hold between read and append | `create`, `prepare`/`submit`, `transition`, `retry`, `heartbeat`, `recover_session`, `upsert_snapshot` | read and append under two holds of the lock; torn appends; leases that expire while somebody works |
| Effect receipts, same file and `execute_tool_with_receipt` in `http/http_runtime.rs` | one JSON file per effect key, a copy of the last effect in the turn's record | `claim_effect`, `commit_effect` | a crash between any two of five steps; two threads at one call; writes that fail after the tool ran |
| Turn scheduler, `http/turn_runtime.rs` and its callers | job map, queue per session, cancel flags, job index, retry payloads, queue leases | register, pop, start, mark, expire, cancel, interrupt, answer, reconcile, recover | quota and one turn per session under races, order through a restart, lost wake-ups, late marks, two runtimes on one root |
| Provider loop, `run_provider_loop` in `http/http_runtime.rs` | the loop's own copy of the session, what is saved of it at a pause, run.json, events | calls with retry and fallback, streaming, tool batches, approvals, questions, interrupts | a pause in the middle of a batch; an answer that resumes it in another thread; budgets over pauses |
| Context packs, `src/core.rs` and automatic compaction | transcript, compaction boundaries, workspace memories | collect, dedupe, cut, project, compact, undo, remember | ranks and budgets against required items; a compaction in the middle of a step |
| Subagent tasks, `http/http_runtime.rs`, worker of `http/bridge_routes.rs` | `state.latest.json` of each child, `task.run.lock`, `task.cancel.json` | delegate, run, start, promote, cancel, close, resume | joined by files only; a lock that may be stale; whole states written back from old copies; a cancel for a whole subtree |
| Session store, `session/session_store.rs` | transcript, state file, event lines | append, compact, undo, restore, fork, save | two renames per save; projections of a log; kills anywhere |
| Bridge events and their clients, `http/bridge_routes.rs`, attached CLI, TUI | event files, cursors | append, stream, replay, poll | numbering without a lock; a line in two writes; cursors of two kinds |
| File changes, `http/http_runtime.rs` | undo and redo stacks in the session state, checkpoints | change, undo, redo, undo of one file, restore | stacks and files move apart; a turn writes back its copy |
| Storage migration, `http/storage_runtime.rs` | files of the root, their copies, a manifest per migration | audit, migrate, status, rollback, recovery | killed or failing anywhere, in the undo too |
| MCP, `http/mcp_runtime.rs`, `src/mcp` | mcp.json, a credential per server, registry of processes | configure, login, refresh, revoke; start, stop, call | network calls between read and write; a lock given back during a start |
| LSP, `src/lsp` | pool of connections, documents, diagnostics | touch, query, pull, deaths | answers that come late, deaths, cooldown |
| Tools, `src/tools` | rules, loaded skills, files a context has read | gate, read, write, edit, skill | approvals replace the context |
| CLI loop, `cli/src/prompt*`, `interactions.rs` | session files, the stack of nested loops | run, task, respond | kills between a tool and the save; answers that overwrite |
| Swarm kernel, `src/swarm` | one task, its runners, pipes, results | resolve, dispatch, collect | pipes that fill; time limits; results that are not JSON |

How they interact. The scheduler is the main client of the ledger: each job
snapshot goes to the ledger (an illegal transition is dropped there) and to the
job index. A worker thread runs the provider loop, which builds a context pack for
each request and runs each tool call behind an effect receipt; the recovery at start
decides on each record with `RecoveryPolicy`, from its status, its lease, its phase
and its last effect. A heartbeat thread per turn renews the lease by rewriting the
record. A task tool call creates a child session, which the loop itself, the task
worker or a request runs through the same provider loop. Everybody writes events,
which clients follow by number. The storage migration runs before the bridge binds
its port, hence before the scheduler's recovery, and on request while it serves.

What makes them correct:

* ledger: lines are numbered without gaps or repeats; one execution per key, created
  once and first; histories follow the transition table; recovery waits for the
  lease; completed stays completed;
* receipts: a call runs at most once, a tool that ran leaves a receipt, all answers
  are the result of that run, recovery retries only what did not run;
* scheduler: never more workers than slots, never two turns of one session, no
  wake-up lost, order kept, a queued turn neither lost nor started twice, terminal
  statuses final, memory, index and ledger in agreement;
* loop: a turn ends everywhere alike, what was shown is what was stored, budgets hold
  over pauses; packs: within budget, nothing required missing, nothing shown that a
  compaction replaced;
* tasks: one run at a time, limits on profile and depth, a cancel is for all below;
* session files: what is projected is what was told, no save is lost to a kill while
  saves do not overlap; events: readers agree with the file;
* undo: the stacks are a path of each file; storage: a copy before each rewrite, the
  bridge never up on a half-upgraded root;
* shared services: a token goes only where it was issued for, a call is run by a
  process of the configuration its turn read, an answer belongs to its query, nothing
  runs against the rules or overwrites unread content, every swarm runner is accounted.

### Components not in the model

| Component | Why |
| --- | --- |
| Session catalog (SQLite) | a projection of the ledgers; its transactions are the database's |
| Provider adapters | wire formats; the assembly of streamed tool calls is planned |
| HTTP routing, protocol types, bridge server | parsing, shaping, start; handlers with state are listed where the state is |
| Provider configuration, plugins, capabilities | files changed under one process lock |
| Git, terminal, telemetry, performance, bad cases | effects on the workspace or on other programs |
| TUI rendering, evaluation, desktop | clients and offline tools of the runtime |

`PROJECT.json` has the full list, and the hazards: the points of this code that are
hardest to test, line by line, with the properties that cover each.

## 2. Modules and code

| Module | Models |
| --- | --- |
| `ExecutionModel` | statuses, phases, transition table, recovery policy: pure operators |
| `Orders` | sequences that ascend, entries removed and merged: what queues and stacks rest on |
| `ExecutionLedger` | the ledger of one session and all calls of the store |
| `AtMostOnceEffect` | abstract: what receipts promise |
| `EffectReceipts` | `execute_tool_with_receipt`, `claim_effect`, `commit_effect`, the heartbeat; implements `AtMostOnceEffect` |
| `StorageMigration` | the upgrade of a session root, its undo, its recovery |
| `SubagentTasks` | one task, the worker thread and the requests of clients |
| `TurnScheduler` | admission, queue, workers, approvals, interrupts, expiry, recovery of one runtime |
| `QueueLease` | the lease of one queued turn between runtimes on one root |
| `ProviderLoop` | one turn: model calls, tool batches, pauses, answers, interrupts, restarts |
| `ContextPack` | what each request of a session holds, compaction and memory |
| `TaskTree` | the sessions task calls grow: limits, foreground and background runs, cancels |
| `SessionTranscript`, `SessionFiles`, `BridgeEvents` | the files of a session and those who read them |
| `SwarmKernel`, `ToolContexts`, `CliLoop`, `McpCredentials`, `McpProcesses`, `LspClients`, `FileChanges` | the component of that name |
| `MC*` and the `.cfg` files | instances for TLC |
| `*Proofs` | inductive invariants, lemmas and theorems |

A step of a model is what a thread does between two points where another thread,
another process or a crash can come in: a hold of a lock, an access of a file.
Three MC modules (`MCStores`, `MCSessions`, `MCRuntime`) check several components
that do not interact in one run: a variable `part` says which of them a behaviour is
about, and the others stay in one initial state.

**`ExecutionLedger`.** `ledger` is the file, `lock` the process mutex and
`lifecycle.lock` together, `pc` and `call` what a thread has read and still has to
append, `jobs` the copy of a record that `turn_jobs` holds. `Create` keeps the lock
from its look-up to its append; every other call reads, releases, and takes the lock
again, which is where two writers cross. `Write` may finish, or die with half a
line, after which each reader of the ledger fails (`torn`).

**`EffectReceipts`.** One action per file operation: look for the receipt, create it
(`create_new`, so only one creator), fill it, append `effect.claimed`, run the tool,
replace the receipt by a committed one, append `effect.committed`, answer. `Fail` and
`Crash` are possible at each. Beaters read the record and append it again later.

**`TurnScheduler`.** `sched` is what the holder of the scheduler lock is doing.
`register_turn_job` is `Admit` (the record), `ClaimLease`, `PersistPayload`, `Enter`
(the registry) and `Push` (the queue), with `AdmitFails` where a lease or a payload
cannot be written; `pop_next_schedulable_queued_turn` is split likewise. Marking a job,
cancelling it and driving it take no scheduler lock and are steps of their own.
`contested` is a ghost: turns of which two answers to one request were under way.

**`ProviderLoop`.** `disk` is what is saved of the session (the request that is open,
the rest of the batch and the budget at the pause), `loops` what each thread has in
hand. The worker's thread and each responder run the same loop: an answer loads the
session, runs or denies the call and goes on where the batch was left. `screen` is
what a client was shown of the step under way, `ran` and `tokens` what was spent,
`doubled` a ghost: two answers were at work at once.

`PausesGiven` is true of an approval only: a question among the calls of a given batch
is run like any other call, and fails for lack of answers.

**`SessionTranscript`.** The log has a line of the old form and one of the new for each
message, a kill may come between them, and `View` reads the old lines while there are
no new ones. A tombstone takes back a message or one of its parts.

**`ContextPack`.** A text is its size. `Collected`, `Deduped`, `Fitted` and
`Projected` are the stages of `ContextPackBuilder::build`; `Compacts`, `Undoes` and
`Switches` the requests that change what it has to work on. `Replaced` is what the latest boundary
hides from a pack, `Holds` what a turn has loaded: what stands after the cut, and the
messages before it that hold the text of a skill.

**`SubagentTasks` and `TaskTree`.** The first has every file access of one task and the
errors of each, and a lock grows stale a quarter of an hour after it was dated, its
owner dead or at work; the
second one step per request but all sessions: `node` is the state file of each,
`loop` the run that works on a copy of it, and `Told` the walk of
`ancestor_task_cancel_requested` to the root.

**`SessionFiles`, `BridgeEvents`.** A file is the change it holds, or cut off, or
mixed from two writers; a line of events is what stands up to a newline, for a text
and its newline are two writes.

**`StorageMigration`.** A file is its schema and the number of the session write it
holds. `ApplyRead` and `ApplyWrite` are the two halves of `set_schema`, with room for
a `SessionSave` in between. A recovery begins with the set of manifests it could not
read (`op.skipped`), which it passes over; the ghost `cut` remembers that, and an
operator's rollback that was cut short.

**`SwarmKernel`.** A child is a program of pieces: it reads, writes, ends or fails, may
stay without reading on, and may leave a process behind that holds its pipes. The
kernel's write to the child and its read of the rest of the output have no limit, as in
`run_subprocess`; only the wait between them has.

**`CliLoop`.** `stack` is the loops of the process at work, `other` those of a second
process on the same files (`Switches` lets the other go on), and `Forks` makes a session
a copy of another, whatever it is in the middle of. The ghost `copies` counts both;
`MaxCalls` bounds it together with the tool calls.

**`FileChanges`.** The stacks of the saved state and of the copy of a running turn. A
turn is a new run or, after an approval, the latest one under its own id.
A file that something else has moved is `foreign`, and the stacks say nothing of it.

`PROJECT.json` maps each definition to its lines. An operator that follows a comment
such as "Mutant:" or one that tells a wrong order is a plausible bug in the
definition after it; it takes part in no specification, and each property is violated
when the definition is replaced by one of them.

## 3. The runs

| Run | Shows | Bounds, and why they are enough |
| --- | --- | --- |
| `ledger` (`MCLedger.cfg`) | numbering, one execution per key, orderly histories, completed stays completed, with every call from two processes that die anywhere | 2 processes, 2 executions, 2 keys, 4 events, 2 attempts, leases of one tick: two creators of one key, a third writer's update between them, a torn line, live and expired leases |
| `stores` (`MCStores.cfg`) | at most one run of a call and its refinement of `AtMostOnceEffect`; copies before rewrites, fail-closed start, recovery that ends; one run of a task at a time, queued tasks served | two runners and a heartbeat at one call with two possible results, or one runner at two calls; two files, one of which may be missing, two migrations, two crashes (one in the recovery from the other), an I/O error; a client with two requests beside the worker, one crash, one failed read or write, a lock that grows stale under anybody |
| `scheduler_queue` (`MCSchedulerQueue.cfg`) | no lost wake-up, agreement of memory, index and ledger, order of queues, terminal statuses final, each queued turn leaves | one slot, two sessions, two turns in one of them, a turn whose lease or payload cannot be written, a queue timeout, a crash: the slot is contended within a session and across sessions |
| `scheduler_faults` (`MCSchedulerFaults.cfg`) | slots and sessions not overrun, no queued turn lost, doubled or started twice | two slots, two asks, an interrupt, a thread that does not start, a lease or payload that cannot be written, a crash at each step, recovery with each subset of expired leases |
| `sessions` (`MCSessions.cfg`) | transcript, state file, events, queue lease, provider loop, context packs, task tree | see below |
| `runtime` (`MCRuntime.cfg`) | swarm, tools, CLI loop, MCP credentials and processes, LSP, undo | see below |
| `ledger_heartbeat`, `scheduler_late_mark`, `scheduler_stall`, `loop_interrupt`, `process_taken_out`, `reused_call_ids` | **violations**, section 7 | the smallest instance with the actors of the finding |

`sessions`: three messages of two parts in a log of eleven lines, one kill between any
two lines, undone messages and parts, compactions among them; two
savers with three saves and one death; two turns of two events, three milliseconds,
one torn line; two runtimes with four starts and leases of two ticks; two models with
a retry, two steps, answers with no call, a plain call and one to approve, a hidden
and a plain one, given batches that hold a question before an approval or exceed the
budget of two calls, one interrupt and one restart; a session of six messages under
limits that hold nothing, little and all of it, with three questions and three answers,
one of them with the text of a skill, compactions that keep two turns under pressure and
one when needed; two profiles, depth
two, two tasks, three runs and one cancel at any node. For `TaskTree`, three tasks
and four runs were also checked by hand.

`runtime`: ten swarm tasks over ten runners, among them one that reads and stays, one
that writes and stays deaf, and two that leave a process behind; pipes of one piece and
payloads of two; five rule books, three skills, two files, an
approval; sessions two below the user's, one second process or fork
(`MaxCopies`), three calls and copies together, a kill or failed append, four commands:
open, answer, open again twice; two URLs, two logins, two requests; two configurations, three processes;
one language server, two edits, three requests; two files, one to be made and
one that is no text, stacks of two, two runs that may go on, three changes, one of which
may be from outside (`MaxTouches`).

Each variable that only grows has a bound named `Max...` that appears in a guard.
`CHECK_DEADLOCK FALSE` is set where the system may stop: a ledger after a torn line, a
scheduler or a task with all requests served.

Properties name the cases they leave out, and section 7 says what the code does
there. `TurnsKeepApart` speaks of the turns still driven (`StillDriven`): not called
off, registered in this life of the process, and with one answer at a time. The run
has one responder; two were checked by hand on smaller instances, and the theorem
covers any number.

## 4. Fairness

Safety is checked under specifications with and without fairness alike. The liveness
properties use these:

* `QueuedLeaves`, `QueuedStartsWhenIdle` (`FairSpec` of `TurnScheduler`): weak
  fairness of the holder of the scheduler lock (straight code without waits), of each
  worker's start, end and mark (a loop ends: its requests have deadlines and its
  steps a budget), and of the thread that answers an approval. Nothing is assumed of
  clients, polls, the clock or crashes;
* `TasksAreServedThere`: a request that was accepted goes on, the worker polls for
  ever, a provider loop ends, and time passes, so that a lock gets stale;
* `RecoveryEnds`: a storage call that has begun goes on, and whoever runs the bridge
  starts it again. Crashes and failing writes are bounded: no recovery could end
  under crashes that never do;
* `LoopsRestThere`: each thread in a loop goes on and the worker's return is marked.
  Nothing is assumed of people who answer.

## 5. The proofs

TLAPS checks the theorems below for any number of processes, threads, turns, files and
requests, and any bounds. The only assumptions are the named `ASSUME`s on the
constants, which TLC evaluates in the runs. `PROJECT.json` lists the theorems; those
that state a property a run checks are:

| Module | Theorem: property |
| --- | --- |
| `ExecutionLedgerProofs` | `OneStory`: LedgerIsOneStory; `KeysMeanOneExecution`: KeyMeansOneExecution; `HistoriesAreOrderly`: HistoryIsOrderly; `CompletedStays`: CompletedIsImmutable |
| `StoresProofs` | `ReceiptsAreTrue`: ReceiptsTellTheTruth; `Refinement`: ImplementsAtMostOnce; `RetriesAlone`: RetryMeansNotRunAlone; `StoresTypeCorrect`: StoresTypeOK; `ManifestsAreTrue`: FilesAreWhole; `FailsClosed`: StartsWhole; `OneRun`: OneRunUnlessRobbed |
| `TurnSchedulerProofs` | `SchedulerTypeCorrect`: TypeOK; `TurnsAreKeptApart`: TurnsKeepApart; `AcceptedTurnsSurvive`: QueuedTurnsSurvive; `QueuesAreServedInOrder`: QueueOrder; `RegistryIsServed`: RegistryServes; `EndedJobsStayEnded`: TerminalIsFinal |
| `SessionsProofs` | `TurnIsStartedOnce`: StartedByOne; `SavesSurviveKills`: OneAtATimeKeepsAll; `TurnEndsWhole`: EndsWhole; `LoopAddsUp`: StepsAddUp; `StreamsAreWhole`: StreamsLoseNothing |
| `RuntimeProofs` | `CallsAreRunAsConfigured`: CallsRunAsConfigured; `TokensOnlyGoHome`: TokensGoHome; `ToolsKeepInBounds`: ToolsStayInBounds; `UndoRetracesSteps`: StacksLinkUp; `AnswersAreTheirs`: AnswersBelong; `RuntimeTypeCorrect`: RuntimeTypeOK; `AnswersSpeakForAll`: SwarmSpeaksForAll; `CliIsRuled`: CliKeepsItsRules where no process and no fork has come beside the first |
| `TaskTreeProofs` | `TreeStaysGoverned`: TreeIsGoverned |
| `HistoryProofs` | `PacksSound`: PacksAreSound |

`OrdersProofs` has the lemmas on ascending, sorted and retained sequences, on least
numbers, sums and folds, and on induction, that the scheduler's queues, the undo stacks,
the event files, the packs and the task tree share. Each component has its type invariant proved beside these.

Each proof has one inductive invariant: it holds initially, each action preserves it,
and the properties follow. None of the properties is inductive alone.

* **Ledger.** Numbering needs to know that a thread about to write holds the lock and
  carries the next number (`WriterHoldsLock`, `WriterIsNext`). Uniqueness of keys
  needs to know that between the look-up and the append of a `create` nothing changed
  (`CreateStillFree`), and that every other call carries a record that is in the
  ledger, under the same key, though it was read under an earlier hold of the lock
  (`UpdatesKnown`, `KeyIsStable`, `JobsRecorded`).
* **Histories.** `HistoriesAreOrderly` and `CompletedStays` are proved under
  `OneDriver`: no two threads drive one execution, and a thread that marks a job's
  state does nothing else but create (`mark_turn_job_state` goes by the job in memory
  and not by the ledger). The constants of the run `ledger` satisfy it, those of
  `ledger_heartbeat` do not, and that run shows what happens then. Under it, the record
  a thread has read is still the last one of its execution when it is appended
  (`PendingFollows`), or was settled by nobody else (`PendingSettled`), and the copy in
  `turn_jobs` is one step behind the ledger at most (`JobsFollow`).
* **Receipts.** `OneOwner`: at most one runner is past the creation of a receipt.
  `OwnerKnows` ties the step of that runner to the receipt and the number of runs,
  `ReceiptKnows` the receipt to the run. The refinement maps each step to `Claim`,
  `Run`, `Answer` or a stutter. `RetriesRepeatNothing` proves RetryMeansNotRun where
  one thread makes the calls and no heartbeat writes (`OneThread`): what the thread has
  read is what is there, and the record tells of an effect from before the tool runs
  (`RecordTells`). `RetriesAlone` is the same of the instance the run checks, two
  runners and a heartbeat, for the behaviours in which only the first makes calls.
* **Storage.** `ManifestsAreBacked`, `IncompleteIsNewest`, `CompletedIsLast`,
  `CallKnows`, `CallProgress`, `EditsBounded` and `NewestIsOriginal`. The heart of it:
  an undo that starts over after a crash restores from copies that each hold the
  original or a later session write, whatever a previous undo did. `FailsClosed` is of
  the failures the start is told of: a recovery that passed over a manifest it could not
  read is left out (`cut`), because the code goes on then (section 7).
* **Tasks.** `HoldersHaveTheLock`: a thread between claiming and dropping the lock
  finds its claim in it, unless the removal of a stale lock has taken it from a live
  thread (`robbed`). So `OneRun` says that this removal is the only way to two runs of
  one task; the code has that way, for each run that takes longer than the lock lives.
* **Scheduler.** `Inv` says what holds while each step of the scheduler is under way
  (`LockOK`), what the queues and their copies on disk are (`QueuesOK`: ascending by
  `stamp`, without repeats), that slots in use are counted (`SlotsOK`), and for each
  turn and each answer what its place in the code implies (`TurnOK`, `ResponseOK`).
  The quota follows from an injection of driven turns into registered ones, one turn
  per session from the admission check, which holds the lock.
* **Served turns.** `RegistryIsServed` and `EndedJobsStayEnded` rest on a second
  invariant, `Served`, and are proved where nobody answers an approval and nobody
  interrupts (`MayAsk` and `MayInterrupt` are empty): with an answer or an interrupt
  neither holds, as the runs `scheduler_stall` and `scheduler_late_mark` show. `Quiet`:
  while nobody is about to look at the queues, none of them has a turn that could
  start. `Watched`: a turn that is about to enter its queue has somebody behind it who
  looks afterwards. `Works`: a job is running exactly while its worker has not marked
  its end. `Told`: index and ledger follow the job, but for the one step that holds
  the lock. The first schedulable turn of a queue is reached by induction over
  positions (`LeastNat`).
* **Task tree.** `TreeInv`: every task is below its caller with the depth and the
  lineage of its agents (`TasksAreBelow`), runs are counted where they are told
  (`RunsAreCounted`), a loop is at a task that is running and knows its lock
  (`LoopsAreTrue`, `StatesAreTrue`), and a caller in the foreground waits for its task
  (`CallersWait`). While no session has two loops: one lock per loop, and every copy
  of a state that will be written back knows the cancels that were marked before
  (`OneLoop`, `LocksAreHeld`, `LockOfLoop`, `CopiesKnowTheCall`, `MarksShow`). What a
  session is told on the way to the root, and which sessions are below one, are
  recursive functions; that each is the one function its equations describe is proved by
  induction over the depth (`ClimbExists`, `ClimbEnds`, `ToldIs`, `BelowIs`).
* **Queue lease.** While no overlap has been met, at most one runtime is past the
  creation of the lease, the index follows it and the lease on disk is the holder's
  (`OneHolds`, `IndexFollows`, `LeaseIsTheirs`).
* **Session files.** While saves do not overlap, one saver at most is between two
  calls, and where it stands determines what every file holds (`OneAtATime`).
* **Event files.** While no two write one file at once and no line is torn, each line
  has one event, whose number is its place (`LinesAreNumbered`), and what is about to be
  written has the next (`NextIsNumbered`), because a turn has one writer
  (`WritersApart`). Then a cursor lets through exactly the rest of the file (`AfterIs`),
  and what was shown and what the stream has brought are two stretches of it that meet
  (`StreamFollows`). The list of all events gives each the rank it has by time and place
  (`AllEventsIs`); an event that is written last and is younger than those of the other
  turns has the last rank, so the ranks that the poller has seen stay (`InTime`,
  `PollFollows`).
* **Provider loop.** `OneAtWork`: one thread is in the loop, the worker before the
  first pause, an answer after it. `SavedSound` ties what is on disk at a pause to the
  transcript: the request names a call without a result in the last answer, the calls
  before it have theirs. `Tallied`: what a thread carries is what was run and used.
  `LoopSound`, `GivenSound`, `AnswerSound` and `CopySound` say it of each place in the
  loop, `Ending` of a turn that is over. All of it only while no two answers were at
  once (`doubled`): section 7.
* **Undo.** `Linked`: read along the undo stack and back along the redo stack, the
  changes of a file are a path through its content now, and turns ascend on it. A
  push that drops the oldest entry, an undo of one file out of the middle, and the
  write-back of a turn's copy keep it.
* **MCP.** A start that has given the lock back has a process of its own
  (`BroughtApart`), registered ones are apart; every copy of a credential that a
  request holds over a network call is one that may be written back (`CopySound`).
* **LSP.** Ids are taken in order (`IdsBelow`), so that the id a query waits for
  stands for one request; what is still in the pipe brings a server to the text the
  client has sent (`Arrives`), and an answer to that id, wherever it is, is about that
  text (`About`). Assumed (`LspAssumption`): finitely many servers, selections of at
  least one server, bounds above zero.
* **Tools.** What a context has read is on record with the version seen
  (`ReadIsSeen`), and loaded lists are kept until an approval replaces the context
  (`KeepsLists`).
* **Swarm.** Runners are gone through in order: when the child of one is under way the
  results are those of the runners before it, and no others (`RunsInTurn`). A sum over
  results is a fold over a set; that it does not depend on the order is proved
  (`SumsAgree`), and with it that the spent tokens are those of every runner.
  `StandstillsHaveTheirReason` proves what `SwarmReturns` says but for ENABLED:
  `Standstill` is the states in which neither the kernel nor anybody at its pipes has a
  step, and each of them has a reason, `Unbounded`. There is no limit, or the child stays
  or writes more than a pipe holds before it has read what it is sent, or it has left
  somebody behind. While the payload is being written the child has only written
  (`OnlyWrote`), and what is left of its program is an end of it (`DoesItsOwn`); so a
  limit bounds each run whose child reads first and leaves nobody behind, and no other.
* **CLI.** A copy of a session that would run the tool it asks for finds room for one
  more run (`HasRoom`), unless a loop is carrying that out (`Resuming`); then the loop
  has the room, up to the save that removes the request, or the death that is counted.
  The calls of a batch have not run and nobody, on disk, in a loop or in a process that
  responds, asks for them (`Unasked`), so a batch and an approval never run the same
  call. Loops are apart because a task can be started or resumed only at rest, and the
  session of a loop on the stack is `running` or, written over by a response, `paused`.
  `IsChildOf` ties each loop to the one below, `MemSound` its depth to its lineage.
  The invariant is `CliSound`: what is true of any number of processes and forks
  (`CliKinds`, from which `CliTypeCorrect`), and `CliInv` as long as there is one process
  and no fork (`copies = 0`). Without that, sessions are shared by loops that know
  nothing of each other, no part of `CliInv` but the types is left, and what
  `CliKeepsItsRules` still says, that each copy repeats a call at most once, is TLC's.

* **Packs.** The invariant of the session (`PackInv`) is small: a boundary replaces what
  came before it (`Kempt`), the cut of the latest one is where a running turn can see it
  or before all it has loaded (`Placeable`), and a request that is out is the pack of the
  session as it still stands. Of boundaries whose cut is in memory the latest alone
  counts (`InForce`); what is left of the part that the latest of all replaced belongs to
  skills, or is results of the answer at its cut (`ReplacedIs`). The rest is about the
  pack as a function of the session, stage by stage: what each item was made of and that nothing
  else is in it (`Tells`), that ids are apart after `Deduped`, that `Previewed` and
  `WithRepeats` change no more than they should (`Alike`), what a fold over items by
  rank takes in (`ProjectedHolds`), and that two rounds of cuts reach the budget unless
  the floors do not fit (`KeepsBudget`, `HoldsRequired`, `LacksRoom`, `DropsNothing`).
  `PacksSound` assumes that call ids are fresh; the run `reused_call_ids` shows what
  happens otherwise.

What stays with TLC, and why: every liveness property, and with it ENABLED, of which
`SwarmReturns` speaks, is out of the prover's reach;
`TranscriptIsShown` rests on a projection of the log that is a fold with several cases,
whose value for every log would take induction over data; and the rules of the command
line where several processes or forks share a session.
`SessionsTypeOK` puts together the types of seven components, of which that of
`SessionTranscript` is not proved.

## 6. What the models leave out

* Payloads, texts, times as such. A lease or a lock is live or expired; a turn's
  place in time is its rank in the queue (`stamp`).
* Ledger: one session; ledgers of different sessions share nothing but the catalog.
* Receipts: one turn. The recovery of its record is `Decision`, a function of it.
* Scheduler: a snapshot is taken and stored in one step, so two overlapping writes
  of the index are not told apart. Questions are approvals here, as they share the
  code. The provider loop is its outcomes.
* Tasks: `SubagentTasks` has one task, `TaskTree` one step per request; waiting for a
  task is left out.
* Provider loop: the wire formats, and goals and plans.
* Storage: audit and plan are one step; the actions are applied and undone in any
  order, which includes the order of the code. Storage calls exclude each other by a
  lock that is tried and never waited for.
* LSP: one workspace and one file. MCP: transports, message shapes.
* Undo: what a change that cannot be read as text held before, which the code does not
  keep either.

## 7. What the code does that a reader may not expect

Six runs end in a counterexample; `findings` in `PROJECT.json` quotes the sentences:

* `ledger_heartbeat`: a heartbeat reads and appends in two holds of the lock; a worker
  that completes the turn between them is overwritten by the running record;
* `scheduler_late_mark`: the worker that asked marks its turn waiting after the
  request can be answered; a fast answer completes the turn and the late mark makes it
  wait again;
* `scheduler_stall`: when a turn ends through an answer, nobody calls
  `start_next_queued_turns`; the turn behind it stays queued;
* `loop_interrupt`: an approval answered after the interrupt still runs its tool;
* `process_taken_out`: a turn with a deadline closes a healthy MCP process, because
  the fingerprint of its configuration covers the timeout, which the deadline lowers;
* `reused_call_ids`: where the provider sends no call ids, the second result of an id
  is dropped from request and trace.

Other behaviour met while modelling. It is in the models unless marked (not modelled);
no document rules it out, or the property names the case it leaves out.

*Storage.* The recovery at start passes over a manifest that it cannot read or parse
and goes on: the bridge then serves a root whose migration was half done, where
`operations.md` says that it fails closed. `StartsWhole` leaves such starts out (`cut`).

*Turns and tasks.* The lock of a task is stale a quarter of an hour after it was
claimed and is never dated anew, while a run may take 45 minutes or four hours: whoever
asks for the lock of such a run removes it and starts the task a second time. A lease
file that cannot be written at admission leaves a record that is queued for good. Two answers to one approval resume one saved batch twice: two
messages of one step, and a late mark may reopen a finished turn beside the next one.
An interrupted turn answered late runs beside the session's next turn. A waiting turn
is in no registry after a restart. A thread that fails to start after registration
leaves its job running and its session blocked. A loop that fails after an answer
leaves run.json running and no terminal event. The pop of a queue does not look at the
lease, heartbeats run only while a turn's thread does, and recovery reads payload and
index before it claims. A record whose phase a heartbeat rewrote may be retried though
its tool ran, so `RetryMeansNotRun` holds with one thread only. The removal of a stale
task lock may remove a fresh one (`robbed`); a crash between creating the lock and
dating it leaves it for ever. A cancel writes back an old child, and its marker names
a run that a resume may have replaced. A paused task that is answered runs without the
run lock and its status is never settled, so cancel and resume can start a second loop
beside it. A background task whose parent turn was interrupted is cancelled again at
its first step after a resume. An interrupted root cancels background tasks of earlier
turns too, but only once its own loop has noticed; a resume shortly after a cancel
leaves descendants running.

*Loop, packs and transcript.* A question that was given with the turn, and not asked by
the model, is run without its answers and fails. The text of a skill survives a
compaction only for the turns that load the session afterwards: the running turn's own
packs drop what is before the cut, skills included. If the cut falls on a message with
the text of a skill, the pack drops that message and what is before it and keeps its
results, which then have no call; the results of any answer at the cut do likewise. A
first message whose writer was killed between the old line and the new one is shown only
until the next message: then the log has new lines, and the old ones are no longer read.
The cost budget starts over at each pause. The TUI takes
numbers of a turn as a cursor of all events; the attached CLI does not reconnect. Two
writers of one turn's events may share a number. Memory items without a pin are ranked
oldest first, so the newest are dropped first. Results outrank the message that called
for them, which may leave results without calls. Each compaction's summary is held
twice, as work state and as shared memory. Boundaries may repeat with the same cut.
The transcript ids of the command line repeat after undo; a fork of a compacted
session keeps the messages the boundary hides.

*Command line.* Nothing keeps two `openagent run --continue` from one session, and a fork
takes a pending answer with it: one approved call is then carried out once in each.
With an approval and a question pending only the question is carried
out, and both are cleared. `approval respond` overwrites what a running loop saves. A
question's answer also answers the later questions of that run. A kill after a tool ran
runs it again. The step limit ends in an error. A paused child is answered only
through its own session. Calls after one that asks are dropped at the pause.

*Tools.* An approved call runs in a new context, so an approved write of an existing
file fails ("must read"), and the restrictions of skills are lost at a pause. The lists
of a second skill replace the first's.

*Services.* The kernel writes a subprocess runner's whole input before it looks at the
time, and after the child's end it reads its output to the end: the time limit covers
only the wait between. A runner that never reads, one that fills its pipe first and one
that leaves a process behind with its output hold the kernel for ever. Output that is
not JSON counts as completed; repeated runner ids overwrite results. A start that replaces a registered
MCP process leaves it unclosed, as does a failed initialisation; mcp.json and
credentials are written back whole from copies without a lock. Writes to a language
server hold the pool's lock without limit; diagnostics of a failed pull are those of
the previous text. Undo ignores what the file is now, and restoring a checkpoint
deletes files above its size limit and leaves the stacks alone.

*Adapters (not modelled).* A text delta that is a prefix of all text so far is dropped;
a call begun without arguments before a cut-off runs with `{}`; an unclosed block after
a closed one stays text.

## 8. Plan

1. `ToolCallAssembler` (streamed tool calls) as an algorithm against a reference.
2. The catalog as an incremental projection against a rebuilt one; the control queue
   of the TUI; waiting for a task.

## 9. Running it

    tlc -workers 2 -config MCStores.cfg MCStores
    tlapm TurnSchedulerProofs.tla

Modules and configurations of each run are in `PROJECT.json`. The passing runs take one
to four minutes each with two workers, `runtime` the longest. The proofs take about
three quarters of an hour together: `RuntimeProofs` some twenty minutes, `SessionsProofs`
eight, `HistoryProofs` six, the others less.
