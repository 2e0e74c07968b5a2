--------------------------- MODULE EffectReceipts ---------------------------
(***************************************************************************)
(* execute_tool_with_receipt and the effect receipts it runs a tool call   *)
(* behind (claim_effect, commit_effect), for one turn of one session.      *)
(* Runners are the threads that reach the call: the worker, a worker after *)
(* a restart, a thread answering an approval.  A receipt is a file of its  *)
(* own; the record of the turn in the lifecycle ledger (module             *)
(* ExecutionLedger) keeps a copy of the last effect, and every update of   *)
(* it is a read followed by an append.  Beaters are heartbeat threads,     *)
(* which write that record back too.                                       *)
(***************************************************************************)
EXTENDS ExecutionModel

CONSTANTS
  Runner, Beater,
  Effect,      \* effect keys: tool:<session>:<turn>:<call>:<scope>
  Value,       \* what a tool may answer
  NoValue, NoEffect

ASSUME EffectAssumption == NoValue \notin Value /\ NoEffect \notin Effect

VARIABLES
  receipt,   \* state of each receipt file: "partial" is created, not written
  stored,    \* the result a committed receipt holds
  record,    \* phase and effect of the turn's record in the ledger
  pc, at,    \* step of each runner, and the effect it is about
  seen,      \* the record each thread last read
  made,      \* the result a runner got from the tool
  runs,      \* ghost: how often the tool was run for each effect
  outcome,   \* ghost: what that run produced
  answers    \* ghost: the results given to callers

vars == <<receipt, stored, record, pc, at, seen, made, runs, outcome, answers>>

LedgerRecord == [phase : Phase, key : Effect \cup {NoEffect}, state : EffectState]

Init ==
  /\ receipt = [k \in Effect |-> "absent"]
  /\ stored = [k \in Effect |-> NoValue]
  /\ record = [phase |-> "provider", key |-> NoEffect, state |-> "none"]
  /\ pc = [r \in Runner \cup Beater |-> "idle"]
  /\ at = [r \in Runner |-> NoEffect]
  /\ seen = [r \in Runner \cup Beater |-> record]
  /\ made = [r \in Runner |-> NoValue]
  /\ runs = [k \in Effect |-> 0]
  /\ outcome = [k \in Effect |-> NoValue]
  /\ answers = [k \in Effect |-> {}]

Files == <<receipt, stored>>
Ghosts == <<runs, outcome, answers>>

Goes(r, from, to) == pc[r] = from /\ pc' = [pc EXCEPT ![r] = to]

Reads(r) == seen' = [seen EXCEPT ![r] = record]

Noted(rec, k, s) == [phase |-> rec.phase, key |-> k, state |-> s]

Answered(k, v) == answers' = [answers EXCEPT ![k] = @ \cup {v}]
-----------------------------------------------------------------------------
\* The record is read, then written back as running in phase tool.
Begin(r, k) ==
  /\ Goes(r, "idle", "start")
  /\ Reads(r)
  /\ at' = [at EXCEPT ![r] = k]
  /\ UNCHANGED <<Files, record, made, Ghosts>>

\* Mutant: the phase field is left out of the snapshot.
StartUnphased(r) ==
  /\ Goes(r, "start", "claim")
  /\ record' = [seen[r] EXCEPT !.phase = "none"]
  /\ UNCHANGED <<Files, at, seen, made, Ghosts>>

Start(r) ==
  /\ Goes(r, "start", "claim")
  /\ record' = [seen[r] EXCEPT !.phase = "tool"]
  /\ UNCHANGED <<Files, at, seen, made, Ghosts>>

\* claim_effect reads the record again before it creates the receipt.
Look(r) ==
  /\ Goes(r, "claim", "create")
  /\ Reads(r)
  /\ UNCHANGED <<Files, record, at, made, Ghosts>>

\* Mutant: the receipt file is opened without create_new.
CreateTruncating(r) ==
  /\ Goes(r, "create", "fill")
  /\ receipt[at[r]] \in {"absent", "claimed"}
  /\ receipt' = [receipt EXCEPT ![at[r]] = "partial"]
  /\ UNCHANGED <<stored, record, at, seen, made, Ghosts>>

\* create_json_file: the file appears (O_EXCL), its contents come after.
Create(r) ==
  /\ Goes(r, "create", "fill")
  /\ receipt[at[r]] = "absent"
  /\ receipt' = [receipt EXCEPT ![at[r]] = "partial"]
  /\ UNCHANGED <<stored, record, at, seen, made, Ghosts>>

Fill(r) ==
  /\ Goes(r, "fill", "note")
  /\ receipt' = [receipt EXCEPT ![at[r]] = "claimed"]
  /\ UNCHANGED <<stored, record, at, seen, made, Ghosts>>

\* Mutant: a claimed receipt answers like a committed one.
ReplayAny(r) ==
  /\ Goes(r, "create", "idle")
  /\ receipt[at[r]] \in {"claimed", "committed"}
  /\ Answered(at[r], stored[at[r]])
  /\ UNCHANGED <<Files, record, at, seen, made, runs, outcome>>

\* AlreadyCommitted: the stored result is the answer.
Replay(r) ==
  /\ Goes(r, "create", "idle")
  /\ receipt[at[r]] = "committed"
  /\ Answered(at[r], stored[at[r]])
  /\ UNCHANGED <<Files, record, at, seen, made, runs, outcome>>

\* Mutant: an uncertain effect is run again.
RefuseByRunning(r) ==
  /\ Goes(r, "create", "execute")
  /\ receipt[at[r]] \in {"partial", "claimed"}
  /\ UNCHANGED <<Files, record, at, seen, made, Ghosts>>

\* Uncertain, or a half-written receipt that does not parse: an error.
Refuse(r) ==
  /\ Goes(r, "create", "idle")
  /\ receipt[at[r]] \in {"partial", "claimed"}
  /\ UNCHANGED <<Files, record, at, seen, made, Ghosts>>

\* Mutant: the claim is not copied into the ledger.
NoteUnrecorded(r) ==
  /\ Goes(r, "note", "execute")
  /\ UNCHANGED <<Files, record, at, seen, made, Ghosts>>

\* effect.claimed is appended before the tool is invoked.
Note(r) ==
  /\ Goes(r, "note", "execute")
  /\ record' = [phase |-> "tool", key |-> at[r], state |-> "claimed"]
  /\ UNCHANGED <<Files, at, seen, made, Ghosts>>

Execute(r, v) ==
  /\ Goes(r, "execute", "commit")
  /\ runs' = [runs EXCEPT ![at[r]] = @ + 1]
  /\ outcome' = [outcome EXCEPT ![at[r]] = v]
  /\ made' = [made EXCEPT ![r] = v]
  /\ UNCHANGED <<Files, record, at, seen, answers>>

\* commit_effect: write_json_atomic replaces the receipt in one rename.
Commit(r) ==
  /\ Goes(r, "commit", "close")
  /\ receipt' = [receipt EXCEPT ![at[r]] = "committed"]
  /\ stored' = [stored EXCEPT ![at[r]] = made[r]]
  /\ UNCHANGED <<record, at, seen, made, Ghosts>>

Close(r) ==
  /\ Goes(r, "close", "confirm")
  /\ Reads(r)
  /\ UNCHANGED <<Files, record, at, made, Ghosts>>

\* effect.committed is appended and the result goes to the caller.
Confirm(r) ==
  /\ Goes(r, "confirm", "idle")
  /\ record' = Noted(seen[r], at[r], "committed")
  /\ Answered(at[r], made[r])
  /\ UNCHANGED <<Files, at, seen, made, runs, outcome>>

\* An I/O error before the tool ran: an error is the answer.
FailEarly(r) ==
  /\ pc[r] \in {"start", "claim", "create", "fill", "note"}
  /\ pc' = [pc EXCEPT ![r] = "idle"]
  /\ UNCHANGED <<Files, record, at, seen, made, Ghosts>>

\* Mutant: a failed commit removes the receipt.
FailLateReleasing(r) ==
  /\ pc[r] \in {"commit", "close", "confirm"}
  /\ pc' = [pc EXCEPT ![r] = "idle"]
  /\ receipt' = [receipt EXCEPT ![at[r]] = "absent"]
  /\ Answered(at[r], made[r])
  /\ UNCHANGED <<stored, record, at, seen, made, runs, outcome>>

\* commit_effect fails: the result is answered all the same, marked as not
\* committed, and the receipt stays as it is.
FailLate(r) ==
  /\ pc[r] \in {"commit", "close", "confirm"}
  /\ pc' = [pc EXCEPT ![r] = "idle"]
  /\ Answered(at[r], made[r])
  /\ UNCHANGED <<Files, record, at, seen, made, runs, outcome>>

Crash(r) ==
  /\ pc[r] # "idle"
  /\ pc' = [pc EXCEPT ![r] = "idle"]
  /\ UNCHANGED <<Files, record, at, seen, made, Ghosts>>

\* DurableExecutionStore::heartbeat: read the record, write it back.
Beat(b) ==
  /\ Goes(b, "idle", "beat")
  /\ Reads(b)
  /\ UNCHANGED <<Files, record, at, made, Ghosts>>

WriteBack(b) ==
  /\ Goes(b, "beat", "idle")
  /\ record' = seen[b]
  /\ UNCHANGED <<Files, at, seen, made, Ghosts>>

Step(r) ==
  \/ \E k \in Effect : Begin(r, k)
  \/ Start(r) \/ Look(r)
  \/ Create(r) \/ Fill(r) \/ Replay(r) \/ Refuse(r)
  \/ Note(r)
  \/ \E v \in Value : Execute(r, v)
  \/ Commit(r) \/ Close(r) \/ Confirm(r)
  \/ FailEarly(r) \/ FailLate(r) \/ Crash(r)

Next ==
  \/ \E r \in Runner : Step(r)
  \/ \E b \in Beater : Beat(b) \/ WriteBack(b)

Spec == Init /\ [][Next]_vars
-----------------------------------------------------------------------------
(* Properties.                                                             *)

ReceiptState == {"absent", "partial", "claimed", "committed"}

Steps == {"idle", "start", "claim", "create", "fill", "note", "execute",
          "commit", "close", "confirm", "beat"}

\* Every variable holds a value of its type.
TypeOK ==
  /\ receipt \in [Effect -> ReceiptState]
  /\ stored \in [Effect -> Value \cup {NoValue}]
  /\ record \in LedgerRecord
  /\ pc \in [Runner \cup Beater -> Steps]
  /\ at \in [Runner -> Effect \cup {NoEffect}]
  /\ seen \in [Runner \cup Beater -> LedgerRecord]
  /\ made \in [Runner -> Value \cup {NoValue}]
  /\ runs \in [Effect -> Nat]
  /\ outcome \in [Effect -> Value \cup {NoValue}]
  /\ answers \in [Effect -> SUBSET (Value \cup {NoValue})]

\* The tool runs at most once for an effect key, however many threads reach
\* the call and however they die ("stricter at-most-once boundary").
RunsAtMostOnce == \A k \in Effect : runs[k] <= 1

\* A tool that ran left a complete receipt on disk: a restart can tell.
RunLeavesReceipt ==
  \A k \in Effect : runs[k] > 0 => receipt[k] \in {"claimed", "committed"}

\* Nobody is told a result the one run did not produce: the runner's own
\* answer, a replay after a restart and a race of two runners all agree.
AnswersAreTheOutcome ==
  \A k \in Effect : answers[k] \subseteq {outcome[k]} /\ (answers[k] # {} => runs[k] = 1)

\* What the receipts on disk and the answers given say of an effect is what
\* happened to it: a tool that ran is known to have run, and every answer is
\* what that run produced.
ReceiptsTellTheTruth == RunLeavesReceipt /\ AnswersAreTheOutcome

\* A committed receipt and its stored result are never lost or rewritten.
CommitIsFinal ==
  [][\A k \in Effect : receipt[k] = "committed" =>
       receipt'[k] = "committed" /\ stored'[k] = stored[k]]_vars

\* Effect receipts implement the at-most-once promise: an effect is claimed
\* from the moment its file exists.
Claimed == {e \in Effect : receipt[e] # "absent"}

AtMostOnce == INSTANCE AtMostOnceEffect WITH claimed <- Claimed

ImplementsAtMostOnce == AtMostOnce!Spec

\* What RecoveryPolicy decides about the turn's record once its lease expired.
Decision == ClassifyRunning(record.phase, 1, record.state)

\* Every thread of the turn is gone.
Quiet == \A r \in Runner \cup Beater : pc[r] = "idle"

\* When recovery would retry a turn, no tool of it ran without leaving its
\* committed result: a claimed effect is interrupted ("Tool effect receipt is
\* `claimed` | interrupt as `effect_uncertain`", session-engine.md:78).
RetryMeansNotRun ==
  Quiet /\ Decision = "retry" => \A k \in Effect : runs[k] = 1 => receipt[k] = "committed"
=============================================================================
