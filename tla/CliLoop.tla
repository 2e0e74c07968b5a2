------------------------------ MODULE CliLoop ------------------------------
(***************************************************************************)
(* `openagent run`: the agent loop a command line process drives over the  *)
(* session files by itself (cli/src/prompt.rs, prompt/agent_loop.rs), the  *)
(* `task` tool, whose foreground subagents are further loops on the same   *)
(* stack, and `openagent approval|question respond` (interactions.rs),     *)
(* another process that loads a session, writes an answer into it and      *)
(* saves the whole of it.  The next run carries an answer out.             *)
(* Nothing keeps a second `openagent run` off the session that one is at   *)
(* work on: `other` is the loops of a second process, which take turns     *)
(* with those of the first.                                                *)
(*                                                                         *)
(* A session file is a record; a running loop works on its own copy.       *)
(* A tool is what the properties tell apart: "plain" runs at once, "ask"   *)
(* needs an approval, "question" an answer, "task" a subagent that runs    *)
(* here, "queued" one that is left to a background worker, "again" a task  *)
(* that names the session of an earlier one.                               *)
(***************************************************************************)
EXTENDS Naturals, Sequences, FiniteSets, SequencesExt

CONSTANTS
    Agents,      \* the profiles whose mode lets the task tool start them
    MaxDepth,    \* OPENAGENT_MAX_SUBAGENT_DEPTH
    MaxSessions, \* bound: session 1 is the user's, the others are tasks
    MaxCalls,    \* bound: tool calls of all sessions together, and copies
    CliSteps,    \* --max-steps
    Batches,     \* the sequences of tools one answer of the model may call
    MaxFaults,   \* bound: kills and failed appends
    MaxCommands  \* bound: the commands the user gives

ASSUME CliAssumption ==
    /\ MaxSessions \in Nat \ {0} /\ MaxCalls \in Nat /\ MaxFaults \in Nat
    /\ MaxDepth \in Nat /\ CliSteps \in Nat /\ MaxCommands \in Nat
    /\ \A b \in Batches : b \in Seq({"plain", "ask", "question", "task", "queued", "again"})

VARIABLES
    files,   \* session -> the record in state.latest.json
    calls,   \* the tool calls of all transcripts, in order of their ids
    stack,   \* the loops of the running process, the innermost last
    other,   \* the loops of a second process that runs beside it
    reply,   \* the copy a responding process works on
    ran,     \* call -> how many times its tool ran
    allowed, \* call -> how many times the user allowed it
    always,  \* the sessions in which a pattern was allowed for good
    faults,
    copies,  \* ghost: processes begun beside another, and forks
    commands \* how many commands the user gave

cliVars ==
    <<files, calls, stack, other, reply, ran, allowed, always, faults, copies, commands>>

CliSessions == 1..MaxSessions
Ids == 1..MaxCalls
None == [session |-> 0]

(* Session::new and the keys of its metadata the loop reads. *)
Fresh ==
    [made |-> FALSE, subagent |-> FALSE, parent |-> 0, depth |-> 0,
     lineage |-> <<>>, agent |-> "default", status |-> "idle", task |-> "none",
     asked |-> 0, decision |-> "none", question |-> 0, answered |-> FALSE,
     pattern |-> FALSE]

Frame(s, mem, at, id) ==
    [session |-> s, mem |-> mem, at |-> at, batch |-> <<>>, step |-> 0,
     answers |-> FALSE, for |-> id]

(* New sessions take their numbers in order. *)
IsNext(s) == \A t \in CliSessions : t < s => files[t].made

Running == stack # <<>>
Loop == Last(stack)
Update(f) == [stack EXCEPT ![Len(stack)] = f]
Within(n) == Len(calls) + copies + n <= MaxCalls
Command == commands < MaxCommands /\ commands' = commands + 1

-----------------------------------------------------------------------------
(* Delegation: subagent_task_governance_error, child_task_lineage,         *)
(* child_task_depth and validate_task_resume_session.                      *)

ChildDepth(parent) == IF parent.subagent THEN parent.depth + 1 ELSE 1

Governed(parent, agent) ==
    /\ ~(parent.subagent /\ parent.agent = agent)
    /\ \A i \in DOMAIN parent.lineage : parent.lineage[i] # agent
    /\ ChildDepth(parent) <= MaxDepth

(* A mutant: the lineage is looked up in the agent at work only. *)
GovernedByAgent(parent, agent) ==
    /\ ~(parent.subagent /\ parent.agent = agent)
    /\ ChildDepth(parent) <= MaxDepth

Delegable(parent, agent) == Governed(parent, agent)

ResumeAllowed(child, parent, agent) ==
    /\ child.subagent
    /\ child.parent = parent
    /\ child.agent = agent
    /\ child.task \notin {"queued", "running", "canceled"}
    /\ child.status \notin {"running", "paused"}

Child(old, s, mem, agent, mode) ==
    [old EXCEPT !.made = TRUE, !.subagent = TRUE, !.parent = s,
                !.depth = ChildDepth(mem), !.lineage = Append(mem.lineage, agent),
                !.agent = agent,
                !.status = IF mode = "queued" THEN "idle" ELSE "running",
                !.task = IF mode = "queued" THEN "queued" ELSE @]

-----------------------------------------------------------------------------
(* A loop ends: finish_run saves the copy.  A child's end is the result of *)
(* the task call below it, whatever it is; that loop then goes on.         *)
Ends(mem, status) ==
    /\ files' = [files EXCEPT ![Loop.session] = [mem EXCEPT !.status = status]]
    /\ stack' = LET below == Front(stack)
                IN IF below = <<>> THEN <<>>
                   ELSE [below EXCEPT ![Len(below)].batch = Tail(@)]

(* An append_message that fails ends the loop with `store_error`. *)
AppendFails(mem) ==
    /\ faults < MaxFaults
    /\ faults' = faults + 1
    /\ Ends(mem, "stop")

(* run_prompt_command: a user opens a session, with a prompt or to carry   *)
(* an answer out, under the agent that --agent names.                      *)
Resumable(mem) ==
    \/ mem.question # 0 /\ mem.answered
    \/ mem.asked # 0 /\ mem.decision # "none"

Beside == Running \/ other # <<>>
Copied == Within(1) /\ copies' = copies + 1

Opens(s, agent, prompt) ==
    /\ files[s].made
    /\ prompt # "none" \/ Resumable(files[s])
    /\ LET mem == [files[s] EXCEPT !.status = "running", !.agent = agent]
       IN /\ files' = [files EXCEPT ![s] = mem]
          /\ stack' = <<Frame(s, mem, IF Resumable(mem) THEN "resume"
                                      ELSE IF prompt = "route" THEN "route"
                                      ELSE "step", 0)>>
    /\ \/ ~Running /\ UNCHANGED other
       \/ Running /\ other = <<>> /\ other' = stack
    /\ IF Beside THEN Copied ELSE UNCHANGED copies
    /\ UNCHANGED <<calls, reply, ran, allowed, always, faults>>
    /\ Command

(* --fork, before the new session is opened: the metadata of the old one   *)
(* is copied whole, what it was paused for and what was allowed included.  *)
Forks(s, t) ==
    /\ files[s].made /\ ~files[t].made /\ IsNext(t)
    /\ files' = [files EXCEPT ![t] = [files[s] EXCEPT !.status = "idle"]]
    /\ always' = IF s \in always THEN always \cup {t} ELSE always
    /\ Copied
    /\ UNCHANGED <<calls, stack, other, reply, ran, allowed, faults, commands>>

(* The other process goes on. *)
Switches ==
    /\ other # <<>>
    /\ stack' = other /\ other' = stack
    /\ UNCHANGED <<files, calls, reply, ran, allowed, always, faults, copies, commands>>

(* process_pending_resume, first half: the tool of an allowed call runs,   *)
(* a rejected one gets an error, a question its answers (which then answer *)
(* every later question of this run).                                      *)
RunsPending ==
    /\ Running /\ Loop.at = "resume"
    /\ LET mem == Loop.mem
           question == mem.question # 0 /\ mem.answered
           runs == ~question /\ mem.decision \in {"once", "always"}
       IN /\ ran' = IF runs THEN [ran EXCEPT ![mem.asked] = @ + 1] ELSE ran
          /\ stack' = Update([Loop EXCEPT !.at = "settle", !.answers = question,
                                !.mem.pattern = @ \/ (runs /\ mem.decision = "always")])
    /\ UNCHANGED <<files, calls, reply, allowed, always, faults, commands>>

(* A mutant: only the request of a question is removed. *)
ClearedQuestion(mem) == [mem EXCEPT !.question = 0, !.answered = FALSE]

(* ... second half: the result is appended, what was pending is removed    *)
(* (both kinds, whichever was carried out) and the state saved.            *)
Cleared(mem) ==
    [mem EXCEPT !.question = 0, !.answered = FALSE, !.asked = 0, !.decision = "none"]

SettlesPending ==
    /\ Running /\ Loop.at = "settle"
    /\ LET mem == Cleared(Loop.mem)
       IN \/ /\ files' = [files EXCEPT ![Loop.session] = mem]
             /\ \E at \in {"step", "route"} :
                    stack' = Update([Loop EXCEPT !.at = at, !.mem = mem])
             /\ UNCHANGED faults
          \/ AppendFails(Loop.mem)
    /\ UNCHANGED <<calls, reply, ran, allowed, always, commands>>

(* One step of the loop up to the tools: the context receipt saves the     *)
(* copy, the model answers, and the message with its calls is appended.    *)
Asking == Running /\ Loop.at = "step" /\ Loop.batch = <<>>

AsksModel ==
    /\ Asking
    /\ \/ \E b \in Batches :
             /\ Loop.step < CliSteps
             /\ Within(Len(b))
             /\ calls' = calls \o [i \in 1..Len(b) |->
                                     [kind |-> b[i], session |-> Loop.session]]
             /\ stack' = Update([Loop EXCEPT !.step = @ + 1,
                                   !.batch = [i \in 1..Len(b) |-> Len(calls) + i]])
             /\ files' = [files EXCEPT ![Loop.session] = Loop.mem]
             /\ UNCHANGED faults
       \/ AppendFails(Loop.mem) /\ UNCHANGED calls
    /\ UNCHANGED <<reply, ran, allowed, always, commands>>

(* An answer without tools completes the run ... *)
Completes ==
    /\ Asking
    /\ Loop.step < CliSteps
    /\ Ends(Loop.mem, "idle")
    /\ UNCHANGED <<calls, reply, ran, allowed, always, faults, commands>>

(* ... a context that does not fit, a provider that fails, or a step too   *)
(* many fails it.                                                          *)
FailsStep ==
    /\ Asking
    /\ Ends(Loop.mem, "stop")
    /\ UNCHANGED <<calls, reply, ran, allowed, always, faults, commands>>

(* direct_subagent_route: a prompt "@agent ..." is one call of the task    *)
(* tool and nothing else; its result is the answer of the run.             *)
Routes ==
    /\ Running /\ Loop.at = "route"
    /\ IF Loop.step = 0
       THEN /\ Within(1)
            /\ calls' = Append(calls, [kind |-> "task", session |-> Loop.session])
            /\ stack' = Update([Loop EXCEPT !.step = 1, !.batch = <<Len(calls) + 1>>])
            /\ UNCHANGED files
       ELSE /\ Loop.batch = <<>>
            /\ Ends(Loop.mem, "idle")
            /\ UNCHANGED calls
    /\ UNCHANGED <<reply, ran, allowed, always, faults, commands>>

-----------------------------------------------------------------------------
(* The tools of a batch, in order. *)

Next1 == Head(Loop.batch)
Takes(kind) == Running /\ Loop.batch # <<>> /\ calls[Next1].kind = kind

(* The result is appended; a todo list the tool changed saves the copy. *)
Settles(mem) ==
    \/ /\ stack' = Update([Loop EXCEPT !.batch = Tail(@)])
       /\ \/ UNCHANGED files
          \/ files' = [files EXCEPT ![Loop.session] = mem]
       /\ UNCHANGED faults
    \/ AppendFails(mem)

(* The request is written into the session and the run pauses: the rest of *)
(* the batch is never run and never gets a result.                         *)
Pauses(mem) ==
    /\ Ends(mem, "paused")
    /\ UNCHANGED <<ran, faults>>

RunsPlain ==
    /\ Takes("plain")
    /\ ran' = [ran EXCEPT ![Next1] = @ + 1]
    /\ Settles(Loop.mem)
    /\ UNCHANGED <<calls, reply, allowed, always, commands>>

TakesQuestion ==
    /\ Takes("question")
    /\ IF Loop.answers
       THEN Settles(Loop.mem) /\ UNCHANGED ran
       ELSE Pauses([Loop.mem EXCEPT !.question = Next1, !.answered = FALSE])
    /\ UNCHANGED <<calls, reply, allowed, always, commands>>

TakesAsking ==
    /\ Takes("ask")
    /\ IF Loop.mem.pattern
       THEN ran' = [ran EXCEPT ![Next1] = @ + 1] /\ Settles(Loop.mem)
       ELSE Pauses([Loop.mem EXCEPT !.asked = Next1, !.decision = "none"])
    /\ UNCHANGED <<calls, reply, allowed, always, commands>>

(* execute_task_tool_call: what refuses a task (an agent that may not be    *)
(* started here, a session that is not a task of this one or is not at     *)
(* rest) is the error the call results in.                                 *)
RefusesTask ==
    /\ \E kind \in {"task", "queued", "again"} : Takes(kind)
    /\ \E agent \in Agents :
         \/ ~Delegable(Loop.mem, agent)
         \/ /\ calls[Next1].kind = "again"
            /\ \E s \in CliSessions : ~ResumeAllowed(files[s], Loop.session, agent)
    /\ Settles(Loop.mem)
    /\ UNCHANGED <<calls, reply, ran, allowed, always, commands>>

(* A new task in the foreground: the child's own loop runs before the call *)
(* returns.                                                                *)
StartsTask ==
    /\ Takes("task")
    /\ \E agent \in Agents, s \in CliSessions :
         LET mem == Child(Fresh, Loop.session, Loop.mem, agent, "task")
         IN /\ Delegable(Loop.mem, agent) /\ ~files[s].made /\ IsNext(s)
            /\ files' = [files EXCEPT ![s] = mem]
            /\ stack' = Append(stack, Frame(s, mem, "step", Next1))
    /\ UNCHANGED <<calls, reply, ran, allowed, always, faults, commands>>

(* One in the background only gets its session file. *)
QueuesTask ==
    /\ Takes("queued")
    /\ \E agent \in Agents, s \in CliSessions :
         /\ Delegable(Loop.mem, agent) /\ ~files[s].made /\ IsNext(s)
         /\ files' = [files EXCEPT ![s] =
                        Child(Fresh, Loop.session, Loop.mem, agent, "queued")]
         /\ stack' = Update([Loop EXCEPT !.batch = Tail(@)])
    /\ UNCHANGED <<calls, reply, ran, allowed, always, faults, commands>>

(* An earlier task goes on, with the answer it was given meanwhile. *)
ResumesTask ==
    /\ Takes("again")
    /\ \E agent \in Agents, s \in {t \in CliSessions : files[t].made} :
         LET mem == Child(files[s], Loop.session, Loop.mem, agent, "task")
         IN /\ ResumeAllowed(files[s], Loop.session, agent)
            /\ Delegable(Loop.mem, agent)
            /\ files' = [files EXCEPT ![s] = mem]
            /\ stack' = Append(stack,
                  Frame(s, mem, IF Resumable(mem) THEN "resume" ELSE "step", Next1))
    /\ UNCHANGED <<calls, reply, ran, allowed, always, faults, commands>>

-----------------------------------------------------------------------------
(* approval_respond and question_reply: load, then save the whole copy.    *)

Loads(s) ==
    /\ reply = None
    /\ files[s].made
    /\ files[s].asked # 0 \/ files[s].question # 0
    /\ reply' = [session |-> s, mem |-> files[s]]
    /\ UNCHANGED <<files, calls, stack, ran, allowed, always, faults>>
    /\ Command

Writes(mem) ==
    /\ files' = [files EXCEPT ![reply.session] = [mem EXCEPT !.status = "paused"]]
    /\ reply' = None
    /\ UNCHANGED <<calls, stack, ran, faults, commands>>

RespondsApproval ==
    /\ reply # None /\ reply.mem.asked # 0
    /\ \E d \in {"once", "always", "reject"} :
         /\ Writes([reply.mem EXCEPT !.decision = d])
         /\ allowed' = IF d = "reject" THEN allowed
                       ELSE [allowed EXCEPT ![reply.mem.asked] = @ + 1]
         /\ always' = IF d = "always" THEN always \cup {reply.session} ELSE always

RepliesQuestion ==
    /\ reply # None /\ reply.mem.question # 0
    /\ Writes([reply.mem EXCEPT !.answered = TRUE])
    /\ UNCHANGED <<allowed, always>>

(* The process of the loops is killed. *)
Killed ==
    /\ Running
    /\ faults < MaxFaults
    /\ faults' = faults + 1
    /\ stack' = <<>>
    /\ UNCHANGED <<files, calls, reply, ran, allowed, always, commands>>

CliInit ==
    /\ files = [s \in CliSessions |-> [Fresh EXCEPT !.made = (s = 1)]]
    /\ calls = <<>>
    /\ stack = <<>> /\ other = <<>>
    /\ reply = None
    /\ ran = [i \in Ids |-> 0]
    /\ allowed = [i \in Ids |-> 0]
    /\ always = {}
    /\ faults = 0 /\ copies = 0
    /\ commands = 0

(* A step of the process at work, or of one that responds. *)
Works ==
    \/ RunsPending \/ SettlesPending
    \/ AsksModel \/ Completes \/ FailsStep \/ Routes
    \/ RunsPlain \/ TakesQuestion \/ TakesAsking
    \/ RefusesTask \/ StartsTask \/ QueuesTask \/ ResumesTask
    \/ \E s \in CliSessions : Loads(s)
    \/ RespondsApproval \/ RepliesQuestion \/ Killed

CliNext ==
    \/ \E s \in CliSessions, agent \in Agents \cup {"default"},
          prompt \in {"none", "text", "route"} : Opens(s, agent, prompt)
    \/ \E s, t \in CliSessions : Forks(s, t)
    \/ Switches
    \/ Works /\ UNCHANGED <<other, copies>>

CliSpec == CliInit /\ [][CliNext]_cliVars

-----------------------------------------------------------------------------
CliTypeOK ==
    /\ Len(calls) <= MaxCalls
    /\ \A s \in CliSessions :
         /\ files[s].status \in {"idle", "running", "paused", "stop"}
         /\ files[s].asked \in Ids \cup {0} /\ files[s].question \in Ids \cup {0}
         /\ files[s].decision \in {"none", "once", "always", "reject"}
    /\ \A i \in DOMAIN stack : stack[i].at \in {"resume", "settle", "step", "route"}
    /\ copies \in 0..MaxCalls
    /\ DOMAIN ran = Ids /\ DOMAIN allowed = Ids
    /\ faults \in 0..MaxFaults

(* A tool that needs an approval runs at most once for each time the user  *)
(* allowed it (and once under a pattern allowed for good in its session),  *)
(* however prompts, answers, answers written over a running loop, and the  *)
(* ends of the loop alternate.  Two things alone repeat it.  A process     *)
(* dies, or fails to append, between the tool and the saved state: nothing *)
(* like the receipts of the HTTP runtime guards the command line.  Or the  *)
(* record with the answer is at work in two copies: a second process was   *)
(* begun beside the first, or the session forked; each copy repeats it at  *)
(* most once.                                                              *)
RunsAsAllowed ==
    \A i \in DOMAIN calls :
        calls[i].kind = "ask" =>
            ran[i] <= allowed[i] + faults + copies
                        + (IF calls[i].session \in always THEN 1 ELSE 0)

(* Loops are stacked as their tasks were given out: each works on a        *)
(* session of its own, the child of the one below, one deeper and no       *)
(* deeper than the limit, and no agent was started twice in one line,      *)
(* whatever session the user opened first, under whichever agent, in how   *)
(* many processes, and whatever earlier tasks were taken up again.         *)
TasksNest ==
    /\ \A i, j \in DOMAIN stack : stack[i].session = stack[j].session => i = j
    /\ \A i \in DOMAIN stack \ {1} :
         LET mem == stack[i].mem
         IN /\ mem.parent = stack[i - 1].session
            /\ mem.depth = Len(mem.lineage) /\ mem.depth <= MaxDepth
            /\ IsInjective(mem.lineage)
            /\ mem.lineage = Append(stack[i - 1].mem.lineage, mem.agent)

(* The command line runs what its user allowed, and no deeper than set.    *)
CliKeepsItsRules == RunsAsAllowed /\ TasksNest
=============================================================================
