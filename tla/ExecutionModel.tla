--------------------------- MODULE ExecutionModel ---------------------------
(***************************************************************************)
(* The vocabulary every other module shares: the seven execution states,   *)
(* the eight phases, the transition table and the recovery policy of       *)
(* src/src/session/src/durable_engine.rs.  Pure operators, no state.       *)
(***************************************************************************)
EXTENDS Naturals

CONSTANT MaxAttempts      \* RecoveryPolicy::max_attempts, 3 by default

ASSUME MaxAttemptsAssumption == MaxAttempts \in Nat \ {0}

Terminal == {"completed", "failed", "cancelled", "interrupted"}

Status == {"queued", "running", "waiting"} \cup Terminal

Phase == {"scheduling", "provider", "tool", "approval", "question",
          "compaction", "subagent", "finalize"}

\* "none" stands for a record whose effect field is absent.
EffectState == {"none", "claimed", "committed", "failed"}

Disposition == {"resume", "retry", "interrupt", "ignore"}

IsTerminal(s) == s \in Terminal

\* The states each state may be left for.
Successors ==
  [queued      |-> {"running", "waiting", "failed", "cancelled", "interrupted"},
   running     |-> {"waiting"} \cup Terminal,
   waiting     |-> {"queued", "running"} \cup Terminal,
   completed   |-> {},
   failed      |-> {"queued"},
   cancelled   |-> {"queued"},
   interrupted |-> {"queued"}]

\* Mutant: anything may be queued again.
CanAlwaysRequeue(from, to) == from = to \/ to = "queued" \/ to \in Successors[from]

CanTransition(from, to) == from = to \/ to \in Successors[from]

\* Mutant: one attempt too many.
RetryOnceMore(attempt) == IF attempt <= MaxAttempts THEN "retry" ELSE "interrupt"

\* Retry while the attempt limit allows it, give up after.
RetryOrInterrupt(attempt) ==
  IF attempt < MaxAttempts THEN "retry" ELSE "interrupt"

\* RecoveryPolicy::classify_running: where the crash happened decides.
ClassifyRunning(phase, attempt, effect) ==
  CASE phase = "tool" /\ effect = "committed"             -> "resume"
    [] phase = "tool" /\ effect = "claimed"               -> "interrupt"
    [] phase = "tool" /\ effect \in {"none", "failed"}    -> RetryOrInterrupt(attempt)
    [] phase \in {"approval", "question", "subagent"}     -> "resume"
    [] OTHER                                              -> RetryOrInterrupt(attempt)

\* Mutant: queued and waiting records are resumed before the lease is looked at.
ClassifyBeforeLease(status, phase, attempt, effect, leaseLive) ==
  CASE IsTerminal(status)               -> "ignore"
    [] status \in {"queued", "waiting"} -> "resume"
    [] OTHER -> IF leaseLive THEN "ignore" ELSE ClassifyRunning(phase, attempt, effect)

\* RecoveryPolicy::classify: terminal records and live leases are left alone.
Classify(status, phase, attempt, effect, leaseLive) ==
  CASE IsTerminal(status) \/ leaseLive   -> "ignore"
    [] status \in {"queued", "waiting"} /\ ~leaseLive -> "resume"
    [] OTHER                             -> ClassifyRunning(phase, attempt, effect)

=============================================================================
