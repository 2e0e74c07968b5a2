----------------------------- MODULE SwarmKernel -----------------------------
(***************************************************************************)
(* The swarm kernel: one task is given to its runners, one after the       *)
(* other, and their results are put together (SwarmRuntime::run_task).     *)
(*                                                                         *)
(* A subprocess runner is modelled with its two pipes: the kernel writes   *)
(* the whole payload, then waits for the exit, then reads the output to    *)
(* its end; the time limit is on the wait only.  A child is a list of what *)
(* it does: "read" all of its input, "write" one piece, "leave" a process  *)
(* behind that keeps its pipes open, "stay" and do no more without ending, *)
(* "fail" or nothing (exit 0).                                             *)
(***************************************************************************)
EXTENDS Integers, Sequences, FiniteSets, SequencesExt, FiniteSetsExt

CONSTANTS Registry,        \* runner id -> [kind, roles, program, timeout]
          SwarmTasks,      \* set of [role, runners, limit, valid]
          Pipe,            \* pieces a pipe holds
          Payload,         \* pieces of the payload of a runner
          WorkersMax, TokensMax     \* FanoutBudget

Deeds == {"read", "write", "leave", "stay", "fail"}

ASSUME SwarmAssumption == {Pipe, Payload, WorkersMax, TokensMax} \subseteq Nat

ASSUME RunnersAssumption ==
  /\ IsFiniteSet(DOMAIN Registry) /\ Pipe > 0
  /\ \A id \in DOMAIN Registry : Registry[id].program \in Seq(Deeds)
  /\ \A t \in SwarmTasks : t.runners \in Seq(ToSet(t.runners))

VARIABLES swarmTask, swarmAt, \* the task, and where run_task stands
          pending,         \* runners that still have to run
          results,         \* id -> result: the last one of an id
          child,           \* the subprocess: what is left of its program, its pipes,
                           \* and whether somebody it left behind holds them
          sent,            \* pieces of the payload written
          verdict,         \* the status of the task
          warnings,
          spent            \* ghost: tokens of all runs

swarmVars == <<swarmTask, swarmAt, pending, results, child, sent, verdict, warnings, spent>>

Statuses == {"completed", "partial", "failed", "cancelled"}
Failure == [status |-> "failed", tokens |-> 0]
(* A body that is not JSON, and an empty one, is a completed run.          *)
Bodies == [status : Statuses, tokens : 0..1]
PlainBody == [status |-> "completed", tokens |-> 0]
NoChild == [program |-> <<>>, in |-> 0, out |-> 0, held |-> FALSE, code |-> "none"]

Current == Head(pending)
Runner == Registry[Current]
HasRole(id, role) == role \in Registry[id].roles \/ "any" \in Registry[id].roles

(* Runners without ids are those that have the role, in the order of ids.  *)
Resolved(t) == IF t.runners # <<>> THEN t.runners
               ELSE SetToSeq({id \in DOMAIN Registry : HasRole(id, t.role)})

SwarmInit ==
  /\ swarmTask \in SwarmTasks /\ swarmAt = "resolve" /\ pending = <<>>
  /\ results = <<>> /\ child = NoChild /\ sent = 0
  /\ verdict = "running" /\ warnings = {} /\ spent = 0

(* What a run gives goes into the results under the id of its runner.      *)
Records(result) ==
  /\ results' = [id \in DOMAIN results \cup {Current} |->
                   IF id = Current THEN result ELSE results[id]]
  /\ spent' = spent + result.tokens
  /\ pending' = Tail(pending) /\ swarmAt' = "dispatch"
  /\ child' = NoChild /\ sent' = 0
  /\ UNCHANGED <<swarmTask, verdict, warnings>>

-----------------------------------------------------------------------------
ResolvesRunners ==
  /\ swarmAt = "resolve"
  /\ LET ids == Resolved(swarmTask) IN
     IF ids = <<>>
     THEN swarmAt' = "done" /\ verdict' = "failed" /\ UNCHANGED <<pending, warnings>>
     ELSE /\ swarmAt' = "dispatch" /\ UNCHANGED verdict
          /\ pending' = SubSeq(ids, 1, Min({Len(ids), WorkersMax}))
          /\ warnings' = IF Len(ids) > WorkersMax THEN {"truncated"} ELSE {}
  /\ UNCHANGED <<swarmTask, results, child, sent, spent>>

(* An id nobody has, and a spec without its required fields.               *)
RefusesRunner ==
  /\ swarmAt = "dispatch" /\ pending # <<>>
  /\ Current \notin DOMAIN Registry \/ ~swarmTask.valid
  /\ Records(Failure)

Dispatches(kinds) ==
  /\ swarmAt = "dispatch" /\ pending # <<>> /\ swarmTask.valid
  /\ Current \in DOMAIN Registry /\ Runner.kind \in kinds

RunsFunction == Dispatches({"function"}) /\ \E r \in Bodies : Records(r)

(* run_http has a limit of its own: an answer, an error or the limit.      *)
RunsRequest == Dispatches({"http", "a2a"}) /\ \E r \in Bodies \cup {Failure, PlainBody} : Records(r)

SpawnsChild ==
  /\ Dispatches({"subprocess"})
  /\ swarmAt' = "stdin" /\ sent' = 0
  /\ child' = [NoChild EXCEPT !.program = Runner.program, !.code = "runs"]
  /\ UNCHANGED <<swarmTask, pending, results, verdict, warnings, spent>>

CannotSpawn == Dispatches({"subprocess"}) /\ Records(Failure)

(* The pipes of a child are open while it, or one it left behind, lives.   *)
Open == child.code = "runs" \/ child.held

(* write_all, before anything is read.  A pipe nobody holds breaks it.     *)
WritesPayload ==
  /\ swarmAt = "stdin"
  /\ \/ sent < Payload /\ ~Open /\ Records(Failure)
     \/ /\ sent < Payload /\ Open /\ child.in < Pipe
        /\ sent' = sent + 1 /\ child' = [child EXCEPT !.in = @ + 1]
        /\ UNCHANGED <<swarmTask, swarmAt, pending, results, verdict, warnings, spent>>
     \/ /\ sent = Payload /\ swarmAt' = "wait"
        /\ UNCHANGED <<swarmTask, pending, results, child, sent, verdict, warnings, spent>>

(* Mutant: only the limit of the runner counts, not that of the task.      *)
LimitOfRunner == Runner.timeout
HasLimit == swarmTask.limit \/ Runner.timeout

TimesOutChild == swarmAt = "wait" /\ child.code = "runs" /\ HasLimit /\ Records(Failure)

(* The output is read when the child has ended, until its pipe is closed.  *)
ReadsOutput ==
  /\ swarmAt = "wait" /\ ~Open
  /\ \/ child.code = "failed" /\ Records(Failure)
     \/ child.code = "ok" /\ child.out = 0 /\ Records(PlainBody)
     \/ child.code = "ok" /\ child.out > 0 /\ \E r \in Bodies : Records(r)

ChildReads ==
  /\ child.code = "runs" /\ child.program # <<>> /\ Head(child.program) = "read"
  /\ IF child.in > 0 THEN child' = [child EXCEPT !.in = @ - 1]
     ELSE swarmAt = "wait" /\ child' = [child EXCEPT !.program = Tail(@)]
  /\ UNCHANGED <<swarmTask, swarmAt, pending, results, sent, verdict, warnings, spent>>

ChildWrites ==
  /\ child.code = "runs" /\ child.program # <<>> /\ Head(child.program) = "write"
  /\ child.out < Pipe
  /\ child' = [child EXCEPT !.out = @ + 1, !.program = Tail(@)]
  /\ UNCHANGED <<swarmTask, swarmAt, pending, results, sent, verdict, warnings, spent>>

ChildLeaves ==
  /\ child.code = "runs" /\ child.program # <<>> /\ Head(child.program) = "leave"
  /\ child' = [child EXCEPT !.held = TRUE, !.program = Tail(@)]
  /\ UNCHANGED <<swarmTask, swarmAt, pending, results, sent, verdict, warnings, spent>>

ChildEnds ==
  /\ child.code = "runs" /\ child.program \in {<<>>, <<"fail">>}
  /\ child' = [child EXCEPT !.code = IF child.program = <<>> THEN "ok" ELSE "failed"]
  /\ UNCHANGED <<swarmTask, swarmAt, pending, results, sent, verdict, warnings, spent>>

(* Mutant: only runs that completed are paid for.                          *)
UsageOfCompleted(given) ==
  MapThenSumSet(LAMBDA id : given[id].tokens, {id \in DOMAIN given : given[id].status = "completed"})
Usage(given) == MapThenSumSet(LAMBDA id : given[id].tokens, DOMAIN given)

StatusOf(given) ==
  LET all == {given[id].status : id \in DOMAIN given} IN
  CASE all = {"completed"} -> "completed"
    [] all \cap {"completed", "partial"} # {} /\ all # {"completed"} -> "partial"
    [] all \cap {"completed", "partial"} = {} /\ "cancelled" \in all -> "cancelled"
    [] OTHER -> "failed"

Aggregates ==
  /\ swarmAt = "dispatch" /\ pending = <<>>
  /\ swarmAt' = "done" /\ verdict' = StatusOf(results)
  /\ warnings' = warnings \cup (IF Usage(results) > TokensMax THEN {"tokens"} ELSE {})
  /\ UNCHANGED <<swarmTask, pending, results, child, sent, spent>>

SwarmNext ==
  \/ ResolvesRunners \/ RefusesRunner \/ RunsFunction \/ RunsRequest \/ SpawnsChild
  \/ CannotSpawn \/ WritesPayload \/ TimesOutChild \/ ReadsOutput
  \/ ChildReads \/ ChildWrites \/ ChildLeaves \/ ChildEnds \/ Aggregates

SwarmSpec == SwarmInit /\ [][SwarmNext]_swarmVars

-----------------------------------------------------------------------------
SwarmTypeOK ==
  /\ swarmTask \in SwarmTasks
  /\ swarmAt \in {"resolve", "dispatch", "stdin", "wait", "done"}
  /\ \A id \in DOMAIN results : results[id] \in Bodies
  /\ child.in \in 0..Pipe /\ child.out \in 0..Pipe /\ child.held \in BOOLEAN /\ sent \in 0..Payload
  /\ verdict \in Statuses \cup {"running"}

(* A child that, before it has read its input, fills its output or stays.  *)
KeepsWaiting(program) ==
  \E i \in 1..Len(program) :
     /\ \A j \in 1..(i - 1) : program[j] = "write"
     /\ program[i] = "stay" \/ (program[i] = "write" /\ i > Pipe)

Leaves(program) == \E i \in 1..Len(program) : program[i] = "leave"

(* The child lives and does nothing more by itself. *)
Idles ==
  /\ child.code = "runs" /\ child.program # <<>>
  /\ Head(child.program) = "stay" \/ (Head(child.program) = "write" /\ child.out = Pipe)

(* Neither the kernel nor anybody who holds its pipes has a step to take.  *)
Standstill ==
  \/ /\ swarmAt = "stdin" /\ sent < Payload /\ child.in = Pipe
     /\ Idles \/ (child.code # "runs" /\ child.held)
  \/ swarmAt = "wait" /\ Idles /\ ~HasLimit
  \/ swarmAt = "wait" /\ child.code # "runs" /\ child.held

(* The limit, wherever it is set, is one of the wait for the exit alone.   *)
Unbounded ==
  \/ ~(swarmTask.limit \/ Runner.timeout)
  \/ KeepsWaiting(Runner.program) \/ Leaves(Runner.program)

(* The kernel waits for ever for a child without a limit that does not     *)
(* end, and, the limit notwithstanding, for one that stays or writes more  *)
(* than a pipe holds before it has read what it is sent, and for a process *)
(* a child left behind with its pipes.  It waits for ever for nothing      *)
(* else: a limit bounds every run whose child reads first and leaves       *)
(* nobody behind.                                                          *)
SwarmReturns == (swarmAt # "done" /\ ~ENABLED SwarmNext) => Standstill /\ Unbounded

(* The answer of a task speaks for all its runs when no runner is named    *)
(* twice: more tokens than the budget are warned of, and "completed" means *)
(* that no run ended otherwise.                                            *)
SwarmSpeaksForAll ==
  (swarmAt = "done" /\ IsInjective(swarmTask.runners)) =>
     /\ spent > TokensMax => "tokens" \in warnings
     /\ verdict = "completed" =>
          \A id \in ToSet(Resolved(swarmTask)) :
             \/ id \in DOMAIN results /\ results[id].status = "completed"
             \/ "truncated" \in warnings
=============================================================================
