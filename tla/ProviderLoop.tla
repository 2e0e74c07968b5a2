---------------------------- MODULE ProviderLoop ----------------------------
(***************************************************************************)
(* The agent loop of one turn: calls of the model provider with retries,   *)
(* fallback and streaming, batches of tool calls, budgets, and the waits   *)
(* for a person's answer (run_provider_loop, provider_turn_result,         *)
(* execute_provider_tool_call, respond_approval_payload,                   *)
(* respond_question_payload and interrupt_turn_payload).                   *)
(*                                                                         *)
(* The worker of the turn runs the loop until it ends or must ask.  The    *)
(* thread of the request that answers loads the session, runs the tool     *)
(* and goes on with the loop itself.  Each works on its own copy of the    *)
(* session and writes all of it back whenever it saves.                    *)
(***************************************************************************)
EXTENDS Integers, Sequences, FiniteSets

CONSTANTS Responders,     \* requests that answer
          Models,         \* candidates: the primary model and its fallbacks, 1..Models;
                          \* the native providers have the primary one only
          Retries,        \* OPENAGENT_PROVIDER_RETRIES
          MaxSteps, MaxToolCalls, MaxTokens,   \* the budget of the turn
          Batches,        \* the tool calls an answer may ask for, by kind
          Given,          \* the tool calls a turn may be started with, by kind
          MaxInterrupts,  \* bound: interrupt requests
          MaxRestarts     \* bound: kills of the runtime

Execution == INSTANCE ExecutionModel WITH MaxAttempts <- 3

VARIABLES disk,           \* the saved session: request waiting for an answer, the rest of
                          \* the turn, session status
          runStatus,      \* run.json
          job,            \* the turn job: status and cancel flag
          talk,           \* assistant messages: step, text, calls, results
          screen,         \* what the text events of a step show
          terminals,      \* terminal events, in order
          loops,          \* where each thread is
          interrupter,    \* the interrupt request: its copy of the session
          late,           \* the deadline has passed
          interrupts, restarts,
          ran, asked, tokens,       \* ghosts: calls run, calls that asked, tokens used
          doubled, broken           \* ghosts: two answers at once, an answer that ended
                                    \* in an error

loopVars == <<disk, runStatus, job, talk, screen, terminals, loops, interrupter, late,
              interrupts, restarts, ran, asked, tokens, doubled, broken>>

world == <<interrupter, late, interrupts, restarts>>
ghosts == <<ran, asked, tokens, doubled, broken>>

Threads == {"worker"} \cup Responders
Asking == {"approval", "question"}
CallKinds == {"plain", "hidden"} \cup Asking

ASSUME LoopAssumption ==
  /\ "worker" \notin Responders
  /\ MaxToolCalls \in Nat /\ MaxTokens \in Nat
  /\ \A calls \in Batches \cup Given : calls \in Seq(CallKinds)

NoRequest == [step |-> 0, index |-> 0, kind |-> "none"]
NoResume == [step |-> 0, calls |-> 0, tokens |-> 0]
FirstCarry == [step |-> 1, calls |-> 0, tokens |-> 0]
Session(request, resume, status) == [request |-> request, resume |-> resume, status |-> status]

Resting == [at |-> "rest", carry |-> NoResume, model |-> 1, attempt |-> 0, text |-> <<>>,
            streamed |-> FALSE, index |-> 0, result |-> "none",
            copy |-> Session(NoRequest, NoResume, "idle")]

(* start_turn_payload_inner: a turn that names tool calls runs them under  *)
(* one message, any other asks the provider.                               *)
LoopInit ==
  /\ disk = Session(NoRequest, NoResume, "running")
  /\ runStatus = "running" /\ job = [status |-> "running", cancel |-> FALSE]
  /\ talk \in {<<>>} \cup
             {<<[step |-> 1, text |-> <<>>, calls |-> calls, results |-> {}]>> : calls \in Given}
  /\ screen = [step |-> 0, text |-> <<>>] /\ terminals = <<>>
  /\ loops = [t \in Threads |->
                IF t = "worker"
                THEN [Resting EXCEPT !.at = IF talk = <<>> THEN "check" ELSE "given",
                                     !.index = Len(talk), !.carry = FirstCarry, !.copy = disk]
                ELSE Resting]
  /\ interrupter = [at |-> "rest", copy |-> disk]
  /\ late = FALSE /\ interrupts = 0 /\ restarts = 0
  /\ ran = {} /\ asked = {} /\ tokens = 0 /\ doubled = FALSE /\ broken = FALSE

-----------------------------------------------------------------------------
At(t, stop) == loops[t].at = stop
Step(t) == loops[t].carry.step
Copy(t) == loops[t].copy
Returns(t, copy, result) ==
  loops' = [loops EXCEPT ![t].at = "returned", ![t].copy = copy, ![t].result = result]

(* mark_turn_job_state: a status the table does not allow is left out.     *)
Marked(status) ==
  [job EXCEPT !.status = IF Execution!CanTransition(@, status) THEN status ELSE @]

(* Either the deadline or the interrupt stops what is cancellable.         *)
ShouldCancel == late \/ job.cancel

(* Mutant: the answer of a person starts the counts again.                 *)
CarryFromZero(t) == [step |-> Step(t) + 1, calls |-> 0, tokens |-> 0]

(* pending_carry: the call that waits is counted, the step is over.        *)
PendingCarry(t) == [loops[t].carry EXCEPT !.step = @ + 1, !.calls = @ + 1]

(* runtime_budget_violation; cost is not modelled.                         *)
OverBudget(carry) == late \/ carry.tokens > MaxTokens \/ carry.calls > MaxToolCalls

(* The end of a run on one side: the saved session and run.json, and the   *)
(* terminal event.                                                         *)
Ends(copy, status, event) ==
  /\ disk' = copy /\ runStatus' = status /\ terminals' = Append(terminals, event)

(* finish_provider_loop_budget_exhausted and the end of the steps.         *)
Fails(t) ==
  LET copy == [Copy(t) EXCEPT !.resume = NoResume, !.status = "idle"]
  IN Ends(copy, "failed", "failed") /\ Returns(t, copy, "failed")

(* record_turn_interrupted: one event of the kind.                         *)
Interrupted(copy) ==
  /\ disk' = [copy EXCEPT !.resume = NoResume, !.status = "stop"]
  /\ runStatus' = "interrupted"
  /\ job' = Marked("interrupted")
  /\ terminals' = IF "interrupted" \in {terminals[i] : i \in DOMAIN terminals}
                  THEN terminals ELSE Append(terminals, "interrupted")

-----------------------------------------------------------------------------
(* The top of the loop: steps, budget, interrupt, in this order.           *)
StepsRunOut(t) ==
  /\ At(t, "check") /\ Step(t) > MaxSteps
  /\ Fails(t)
  /\ UNCHANGED <<job, talk, screen, world, ghosts>>

BudgetRunsOut(t) ==
  /\ At(t, "check") /\ Step(t) <= MaxSteps /\ OverBudget(loops[t].carry)
  /\ Fails(t)
  /\ UNCHANGED <<job, talk, screen, world, ghosts>>

NoticesInterrupt(t) ==
  /\ At(t, "check") /\ Step(t) <= MaxSteps /\ ~OverBudget(loops[t].carry) /\ job.cancel
  /\ Interrupted(Copy(t))
  /\ Returns(t, disk', "interrupted")
  /\ UNCHANGED <<talk, screen, world, ghosts>>

MayBegin(t) == At(t, "check") /\ Step(t) <= MaxSteps /\ ~OverBudget(loops[t].carry) /\ ~job.cancel

(* The context pack is built and its receipt saved with the session.       *)
BeginsStep(t) ==
  /\ MayBegin(t)
  /\ disk' = Copy(t)
  /\ loops' = [loops EXCEPT ![t].at = "send", ![t].model = 1, ![t].attempt = 0,
                            ![t].text = <<>>, ![t].streamed = FALSE]
  /\ UNCHANGED <<runStatus, job, talk, screen, terminals, world, ghosts>>

(* Nothing fits the budget of the model, or the files cannot be written.   *)
ContextFails(t) ==
  /\ MayBegin(t)
  /\ disk' = Copy(t)
  /\ Returns(t, Copy(t), "error")
  /\ UNCHANGED <<runStatus, job, talk, screen, terminals, world, ghosts>>

-----------------------------------------------------------------------------
(* One provider call.                                                      *)

(* A call cut short by the deadline counts as a budget that ran out.       *)
CancelsCall(t) ==
  /\ loops[t].at \in {"send", "stream"} /\ ShouldCancel
  /\ IF late THEN Fails(t) /\ UNCHANGED job
     ELSE Interrupted(Copy(t)) /\ Returns(t, disk', "interrupted")
  /\ UNCHANGED <<talk, screen, world, ghosts>>

(* send_runtime_provider_request: 429, 5xx or no connection, tried again   *)
(* after a wait.                                                           *)
RetriesCall(t) ==
  /\ At(t, "send") /\ ~ShouldCancel /\ loops[t].attempt < Retries
  /\ loops' = [loops EXCEPT ![t].attempt = @ + 1]
  /\ UNCHANGED <<disk, runStatus, job, talk, screen, terminals, world, ghosts>>

(* Mutant: what came before the fallback still counts as streamed.         *)
FallsBackStreamed(t) == [loops[t] EXCEPT !.at = "send", !.model = @ + 1, !.attempt = 0,
                                         !.text = <<>>]

(* Mutant: the next model is this one again.                               *)
FallsBackToItself(t) == [loops[t] EXCEPT !.at = "send", !.attempt = 0, !.text = <<>>,
                                         !.streamed = FALSE]

(* A Reset and a Fallback event, then the next model.                      *)
FallsBack(t) == [loops[t] EXCEPT !.at = "send", !.model = @ + 1, !.attempt = 0,
                                 !.text = <<>>, !.streamed = FALSE]

(* A failure worth a retry, when the retries are used up or the stream     *)
(* broke: the next model starts with an empty screen.                      *)
GivesUpModel(t) ==
  /\ \/ At(t, "send") /\ loops[t].attempt = Retries
     \/ At(t, "stream")
  /\ ~ShouldCancel
  /\ IF loops[t].model < Models
     THEN /\ loops' = [loops EXCEPT ![t] = FallsBack(t)]
          /\ screen' = [step |-> Step(t), text |-> <<>>]
     ELSE Returns(t, Copy(t), "error") /\ UNCHANGED screen
  /\ UNCHANGED <<disk, runStatus, job, talk, terminals, world, ghosts>>

(* Any other status, a body that is not JSON, a call that cannot be        *)
(* assembled: no retry and no fallback.                                    *)
Refused(t) ==
  /\ loops[t].at \in {"send", "stream"} /\ ~ShouldCancel
  /\ Returns(t, Copy(t), "error")
  /\ UNCHANGED <<disk, runStatus, job, talk, screen, terminals, world, ghosts>>

(* A piece of text is shown as it comes; a text is one or two pieces.      *)
Streams(t) ==
  /\ \/ At(t, "send")
     \/ At(t, "stream") /\ Len(loops[t].text) = 1
  /\ ~ShouldCancel
  /\ loops' = [loops EXCEPT ![t].at = "stream", ![t].streamed = TRUE,
                            ![t].text = Append(@, loops[t].model)]
  /\ screen' = [step |-> Step(t),
                text |-> Append(IF screen.step = Step(t) THEN screen.text ELSE <<>>,
                                loops[t].model)]
  /\ UNCHANGED <<disk, runStatus, job, talk, terminals, world, ghosts>>

Message(t, text, calls) == [step |-> Step(t), text |-> text, calls |-> calls, results |-> {}]

(* The answer is there: usage is added, the budget looked at again, the    *)
(* message shown if it was not streamed, and appended.                     *)
Settles(t, text, calls) ==
  LET carry == [loops[t].carry EXCEPT !.tokens = @ + 1]
      shown == IF loops[t].streamed THEN screen
               ELSE [step |-> Step(t),
                     text |-> (IF screen.step = Step(t) THEN screen.text ELSE <<>>) \o text]
      done == [Copy(t) EXCEPT !.resume = NoResume, !.status = "idle"]
  IN /\ tokens' = tokens + 1
     /\ \/ /\ OverBudget(carry)
           /\ Fails(t)
           /\ UNCHANGED <<talk, screen>>
        \/ /\ ~OverBudget(carry)
           /\ talk' = Append(talk, Message(t, text, calls)) /\ screen' = shown
           /\ IF calls = <<>>
              THEN Ends(done, "completed", "completed") /\ Returns(t, done, "completed")
              ELSE /\ loops' = [loops EXCEPT ![t].at = "batch", ![t].carry = carry,
                                             ![t].index = 1, ![t].text = <<>>]
                   /\ UNCHANGED <<disk, runStatus, terminals>>
     /\ UNCHANGED <<job, ran, asked, doubled, broken, world>>

(* A provider without a key answers with a hint and no calls.              *)
Answers(t) ==
  \/ At(t, "send") /\ ~ShouldCancel /\ \E calls \in Batches : Settles(t, <<loops[t].model>>, calls)
  \/ At(t, "stream") /\ \E calls \in Batches : Settles(t, loops[t].text, calls)

-----------------------------------------------------------------------------
(* The batch of the last message.  Neither an interrupt nor the step limit *)
(* is looked at between its calls.                                         *)
Batch(t) == talk[Len(talk)]
Call(t) == <<Step(t), loops[t].index>>
NextKind(t) == Batch(t).calls[loops[t].index]
HasCall(t) == At(t, "batch") /\ loops[t].index <= Len(Batch(t).calls)
Affordable(t) == ~OverBudget([loops[t].carry EXCEPT !.calls = @ + 1])

(* Mutant: the result is kept under the next call.                         *)
ResultedNext(call) ==
  [i \in DOMAIN talk |->
     IF talk[i].step = call[1] THEN [talk[i] EXCEPT !.results = @ \cup {call[2] + 1}]
     ELSE talk[i]]

(* The results of a call go to the message that has it.                    *)
Resulted(call) ==
  [i \in DOMAIN talk |->
     IF talk[i].step = call[1] THEN [talk[i] EXCEPT !.results = @ \cup {call[2]}] ELSE talk[i]]

CallTooMany(t) ==
  /\ HasCall(t) /\ ~Affordable(t)
  /\ Fails(t)
  /\ UNCHANGED <<job, talk, screen, world, ghosts>>

(* A tool the profile hides is refused, any other is run under its         *)
(* receipt.                                                                *)
RunsCall(t) ==
  /\ HasCall(t) /\ Affordable(t) /\ NextKind(t) \notin Asking
  /\ ran' = IF NextKind(t) = "plain" THEN ran \cup {Call(t)} ELSE ran
  /\ talk' = Resulted(Call(t))
  /\ loops' = [loops EXCEPT ![t].index = @ + 1, ![t].carry.calls = @ + 1]
  /\ UNCHANGED <<disk, runStatus, job, screen, terminals, asked, tokens, doubled, broken, world>>

(* A file fails: what is asked cannot be recorded, or the tool has run and *)
(* its result, or the list of todos it changed, cannot be stored.          *)
CallBreaks(t) ==
  /\ HasCall(t) /\ Affordable(t)
  /\ \/ NextKind(t) \in Asking /\ UNCHANGED <<ran, talk>>
     \/ /\ NextKind(t) \notin Asking
        /\ ran' = IF NextKind(t) = "plain" THEN ran \cup {Call(t)} ELSE ran
        /\ talk' \in {talk, Resulted(Call(t))}
  /\ Returns(t, Copy(t), "error")
  /\ UNCHANGED <<disk, runStatus, job, screen, terminals, asked, tokens, doubled, broken, world>>

(* A person must answer.  The job is marked before the request is saved    *)
(* with the rest of the turn; the calls after this one are dropped.        *)
Pauses(t) ==
  /\ HasCall(t) /\ Affordable(t) /\ NextKind(t) \in Asking
  /\ LET request == [step |-> Step(t), index |-> loops[t].index, kind |-> NextKind(t)]
         copy == Session(request, PendingCarry(t), "paused")
     IN disk' = copy /\ Returns(t, copy, "waiting")
  /\ job' = Marked("waiting")
  /\ asked' = asked \cup {Call(t)}
  /\ UNCHANGED <<runStatus, talk, screen, terminals, ran, tokens, doubled, broken, world>>

EndsStep(t) ==
  /\ At(t, "batch") /\ loops[t].index > Len(Batch(t).calls)
  /\ loops' = [loops EXCEPT ![t].at = "check", ![t].carry.step = @ + 1]
  /\ UNCHANGED <<disk, runStatus, job, talk, screen, terminals, world, ghosts>>

(* run_http_tool_turn: calls the request named.  Their number is held      *)
(* against the budget before the first, the deadline after each.           *)
HasGiven(t) == At(t, "given") /\ loops[t].index <= Len(Batch(t).calls)

RunsOverGiven(t) ==
  /\ At(t, "given")
  /\ \/ late
     \/ loops[t].index = 1 /\ Len(Batch(t).calls) > MaxToolCalls
  /\ Fails(t)
  /\ UNCHANGED <<job, talk, screen, world, ghosts>>

(* A question among them fails like any call without its answers: only an  *)
(* approval is waited for.                                                 *)
RunsGiven(t) ==
  /\ HasGiven(t) /\ NextKind(t) # "approval" /\ Len(Batch(t).calls) <= MaxToolCalls
  /\ ran' = ran \cup {Call(t)}
  /\ talk' = Resulted(Call(t))
  /\ loops' = [loops EXCEPT ![t].index = @ + 1]
  /\ UNCHANGED <<disk, runStatus, job, screen, terminals, asked, tokens, doubled, broken, world>>

(* No rest of the turn is saved: the answer ends it.                       *)
PausesGiven(t) ==
  /\ HasGiven(t) /\ NextKind(t) = "approval" /\ Len(Batch(t).calls) <= MaxToolCalls
  /\ LET request == [step |-> Step(t), index |-> loops[t].index, kind |-> NextKind(t)]
         copy == Session(request, NoResume, "paused")
     IN disk' = copy /\ Returns(t, copy, "waiting")
  /\ job' = Marked("waiting")
  /\ asked' = asked \cup {Call(t)}
  /\ UNCHANGED <<runStatus, talk, screen, terminals, ran, tokens, doubled, broken, world>>

GivenBreaks(t) ==
  /\ HasGiven(t) /\ Len(Batch(t).calls) <= MaxToolCalls
  /\ \/ NextKind(t) = "approval" /\ UNCHANGED <<ran, talk>>
     \/ /\ NextKind(t) # "approval"
        /\ ran' = ran \cup {Call(t)} /\ talk' \in {talk, Resulted(Call(t))}
  /\ Returns(t, Copy(t), "error")
  /\ UNCHANGED <<disk, runStatus, job, screen, terminals, asked, tokens, doubled, broken, world>>

EndsGiven(t) ==
  /\ At(t, "given") /\ loops[t].index > Len(Batch(t).calls)
  /\ LET copy == Session(NoRequest, NoResume, "idle")
     IN Ends(copy, "completed", "completed") /\ Returns(t, copy, "completed")
  /\ UNCHANGED <<job, talk, screen, world, ghosts>>

(* The thread marks the job from what the loop returned.  The worker also  *)
(* finishes a run that ended in an error; an answering request does not.   *)
WorkerReturns ==
  /\ At("worker", "returned")
  /\ LET result == loops["worker"].result
         copy == [Copy("worker") EXCEPT !.resume = NoResume, !.status = "idle"]
     IN IF result = "error"
        THEN Ends(copy, "failed", "failed") /\ job' = Marked("failed")
        ELSE job' = Marked(result) /\ UNCHANGED <<disk, runStatus, terminals>>
  /\ loops' = [loops EXCEPT !["worker"] = Resting]
  /\ UNCHANGED <<talk, screen, world, ghosts>>

ResponderReturns(r) ==
  /\ At(r, "returned")
  /\ job' = Marked(IF loops[r].result = "error" THEN "failed" ELSE loops[r].result)
  /\ broken' = (broken \/ loops[r].result = "error")
  /\ loops' = [loops EXCEPT ![r] = Resting]
  /\ UNCHANGED <<disk, runStatus, talk, screen, terminals, ran, asked, tokens, doubled, world>>

-----------------------------------------------------------------------------
(* The answer of a person.  Whether the turn was interrupted meanwhile is  *)
(* not looked at.                                                          *)
LoadsRequest(r, allow) ==
  /\ At(r, "rest") /\ disk.request # NoRequest
  /\ loops' = [loops EXCEPT ![r].at = IF allow THEN "allow" ELSE "deny",
                            ![r].copy = [disk EXCEPT !.request = NoRequest],
                            ![r].index = disk.request.index,
                            ![r].carry.step = disk.request.step]
  /\ doubled' = (doubled \/ \E t \in Responders \ {r} : ~At(t, "rest"))
  /\ UNCHANGED <<disk, runStatus, job, talk, screen, terminals, ran, asked, tokens, broken, world>>

(* The tools are no longer those of the contract, or a file fails.         *)
AllowFails(r) ==
  /\ At(r, "allow")
  /\ job' = Marked("running")
  /\ loops' = [loops EXCEPT ![r] = Resting] /\ broken' = TRUE
  /\ UNCHANGED <<disk, runStatus, talk, screen, terminals, ran, asked, tokens, doubled, world>>

(* The tool runs and the loop goes on where it paused; when the rest of    *)
(* the turn is gone the run ends here.                                     *)
Allows(r) ==
  /\ At(r, "allow")
  /\ ran' = ran \cup {Call(r)}
  /\ talk' = Resulted(Call(r))
  /\ LET rest == Copy(r).resume
         copy == Session(NoRequest, NoResume, "running")
         done == Session(NoRequest, NoResume, "idle")
     IN IF rest # NoResume
        THEN /\ loops' = [loops EXCEPT ![r].at = "check", ![r].carry = rest, ![r].copy = copy]
             /\ job' = Marked("running")
             /\ UNCHANGED <<disk, runStatus, terminals>>
        ELSE /\ \E status \in {"completed", "failed"} :
                  Ends(done, status, status) /\ Returns(r, done, status)
             /\ job' = Marked("running")
  /\ UNCHANGED <<screen, asked, tokens, doubled, broken, world>>

(* Mutant: the rest of the turn stays in the session.                      *)
DeniesKeepsRest(r) ==
  /\ At(r, "deny")
  /\ LET done == [Copy(r) EXCEPT !.status = "idle"]
     IN Ends(done, "failed", "failed") /\ Returns(r, done, "failed")
  /\ UNCHANGED <<job, talk, screen, world, ghosts>>

(* A denied approval, a dismissed question.                                *)
Denies(r) ==
  /\ At(r, "deny")
  /\ LET done == Session(NoRequest, NoResume, "idle")
     IN Ends(done, "failed", "failed") /\ Returns(r, done, "failed")
  /\ UNCHANGED <<job, talk, screen, world, ghosts>>

-----------------------------------------------------------------------------
(* The interrupt request sets the flag and has a copy of the session, then *)
(* records the interrupt and writes its copy.                              *)
RequestsInterrupt ==
  /\ interrupter.at = "rest" /\ interrupts < MaxInterrupts
  /\ interrupts' = interrupts + 1
  /\ job' = [status |-> "waiting", cancel |-> TRUE]
  /\ interrupter' = [at |-> "record", copy |-> disk]
  /\ UNCHANGED <<disk, runStatus, talk, screen, terminals, loops, late, restarts, ghosts>>

RecordsInterrupt ==
  /\ interrupter.at = "record"
  /\ Interrupted(interrupter.copy)
  /\ interrupter' = [interrupter EXCEPT !.at = "rest"]
  /\ UNCHANGED <<talk, screen, loops, late, interrupts, restarts, ghosts>>

DeadlinePasses ==
  /\ ~late /\ late' = TRUE
  /\ UNCHANGED <<disk, runStatus, job, talk, screen, terminals, loops, interrupter, interrupts, restarts, ghosts>>

(* The runtime is killed and started again: the registry and its cancel    *)
(* flags are gone, and a turn that was running is interrupted; one that    *)
(* waits can still be answered (reconcile_persisted_turn_jobs).            *)
Restarts ==
  /\ restarts < MaxRestarts /\ restarts' = restarts + 1
  /\ loops' = [t \in Threads |-> Resting]
  /\ interrupter' = [interrupter EXCEPT !.at = "rest"]
  /\ job' = [status |-> IF job.status = "running" THEN "interrupted" ELSE job.status,
             cancel |-> FALSE]
  /\ UNCHANGED <<disk, runStatus, talk, screen, terminals, late, interrupts, ghosts>>

RunsOf(t) ==
  \/ StepsRunOut(t) \/ BudgetRunsOut(t) \/ NoticesInterrupt(t)
  \/ BeginsStep(t) \/ ContextFails(t)
  \/ CancelsCall(t) \/ RetriesCall(t) \/ GivesUpModel(t) \/ Refused(t) \/ Streams(t)
  \/ Answers(t)
  \/ CallTooMany(t) \/ RunsCall(t) \/ CallBreaks(t) \/ Pauses(t) \/ EndsStep(t)
  \/ RunsOverGiven(t) \/ RunsGiven(t) \/ GivenBreaks(t) \/ PausesGiven(t) \/ EndsGiven(t)

Finishes(r) == ResponderReturns(r) \/ AllowFails(r) \/ Allows(r) \/ Denies(r)

LoopNext ==
  \/ \E t \in Threads : RunsOf(t)
  \/ WorkerReturns
  \/ \E r \in Responders : Finishes(r)
  \/ \E r \in Responders, allow \in BOOLEAN : LoadsRequest(r, allow)
  \/ RequestsInterrupt \/ RecordsInterrupt \/ DeadlinePasses \/ Restarts

(* A thread keeps running, and the HTTP client gives up a silent provider  *)
(* after the timeout of the request.                                       *)
LoopFairness ==
  /\ \A t \in Threads : WF_loopVars(RunsOf(t))
  /\ WF_loopVars(WorkerReturns)
  /\ \A r \in Responders : WF_loopVars(Finishes(r))

LoopSpec == LoopInit /\ [][LoopNext]_loopVars /\ LoopFairness

-----------------------------------------------------------------------------
Carries == [step : Nat, calls : Nat, tokens : Nat]
Sessions == [request : [step : Nat, index : Nat, kind : Asking \cup {"none"}],
             resume : Carries, status : {"running", "paused", "idle", "stop"}]

LoopTypeOK ==
  /\ disk \in Sessions
  /\ runStatus \in {"running"} \cup Execution!Terminal
  /\ job.status \in Execution!Status /\ job.cancel \in BOOLEAN
  /\ ~doubled => \A i \in DOMAIN talk : talk[i].results \subseteq DOMAIN talk[i].calls
  /\ \A i \in DOMAIN terminals : terminals[i] \in Execution!Terminal
  /\ \A t \in Threads : loops[t].carry \in Carries /\ loops[t].copy \in Sessions

(* What the text events of a step left on the screen, pieces of models     *)
(* that failed cleared away, is the text of the message that was stored.   *)
StreamedIsAnswer ==
  ~doubled =>
    \A i \in DOMAIN talk : screen.step = talk[i].step => screen.text = talk[i].text

(* A turn runs no more tools than its budget allows, and uses at most one  *)
(* answer more than its token budget, however often it waited for a person *)
(* in between.                                                             *)
BudgetHolds ==
  ~doubled =>
    Cardinality(ran) <= MaxToolCalls /\ tokens <= MaxTokens + 1

(* A turn that ended by itself ended everywhere alike: run.json, the job   *)
(* and the one terminal event agree, and nobody is asked any more.  Not so *)
(* when the loop failed after an answer.                                   *)
EndsWhole ==
  (/\ Execution!IsTerminal(job.status) /\ \A t \in Threads : At(t, "rest")
   /\ interrupts = 0 /\ restarts = 0 /\ ~doubled /\ ~broken)
  => /\ runStatus = job.status /\ terminals = <<job.status>>
     /\ disk.request = NoRequest /\ disk.resume = NoResume /\ disk.status = "idle"

(* "pending approvals are resolved as deny with reason interrupt": an      *)
(* answer that comes after the interrupt was recorded cannot allow.        *)
InterruptDenies ==
  [][\A r \in Responders : runStatus = "interrupted" /\ At(r, "rest") => ~At(r, "allow")']_loopVars

(* Whoever runs the loop comes to its end or to a question.                *)
LoopsRest == \A t \in Threads : ~At(t, "rest") ~> At(t, "rest")

(* Steps add up over fallbacks and pauses: in what was shown, run and used. *)
StepsAddUp == StreamedIsAnswer /\ BudgetHolds
=============================================================================
