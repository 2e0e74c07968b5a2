------------------------------ MODULE TaskTree ------------------------------
(***************************************************************************)
(* The tree of sessions that task calls grow (http_runtime.rs:             *)
(* execute_runtime_task_tool_call, runtime_task_governance_error,          *)
(* ancestor_task_cancel_requested): a loop delegates to a subagent in the  *)
(* foreground and waits for it, or queues it for the background worker; a  *)
(* child may delegate in turn, and a cancel of any of them is for all that *)
(* is below.  What several threads do to the files of one task is the      *)
(* subject of SubagentTasks; here a request is one step.                   *)
(***************************************************************************)
EXTENDS Integers, Sequences, FiniteSets

CONSTANTS Profiles,       \* the subagents that may be asked for
          MaxDepth,       \* max_subagent_depth
          MaxTasks,       \* bound: tasks made
          MaxRuns,        \* bound: runs begun
          MaxStops        \* bound: interrupts and cancels

ASSUME TreeAssumption ==
  /\ MaxDepth \in Nat \ {0} /\ MaxTasks \in Nat /\ MaxRuns \in Nat \ {0} /\ MaxStops \in Nat

Root == 0                 \* the session of the user
Nodes == 0..MaxTasks
RunsOfTree == 1..MaxRuns

VARIABLES node,           \* state.latest.json of each session
          cancelMark,     \* the run in task.cancel.json, 0 when there is none
          runLock,        \* tasks whose task.run.lock is there
          loop,           \* the provider loop of each run and its copy of the state
          deadTurns,      \* turns whose job was told to stop
          runs, stops,
          twice           \* ghost: two loops of one session were under way at once

treeVars == <<node, cancelMark, runLock, loop, deadTurns, runs, stops, twice>>

(* A subagent remembers its ancestors' profiles, its own the last, and the *)
(* run of the parent it was called in.                                     *)
Nowhere == [parent |-> Root, agent |-> "none", lineage |-> <<>>, depth |-> 0, status |-> "none",
            state |-> "idle", run |-> 0, parentRun |-> 0, background |-> FALSE, asked |-> FALSE]

NoLoop == [at |-> "rest", via |-> "none", of |-> Root, child |-> 0, copy |-> Nowhere]

Made == {s \in Nodes : node[s].status # "none"}
UnderWay(s) == {r \in RunsOfTree : loop[r].at # "rest" /\ loop[r].of = s}

(* canonical_task_status                                                   *)
CancelledStatus == {"canceled", "interrupted"}
OverStatus == {"completed", "failed"} \cup CancelledStatus

-----------------------------------------------------------------------------
(* A session whose child was called in a run shows that it was stopped.    *)
Shows(s, run) ==
  \/ run \in deadTurns \/ cancelMark[s] = run
  \/ node[s].state = "stop" \/ node[s].status \in CancelledStatus \/ node[s].asked

(* Mutant: a loop looks no further up than its parent.                     *)
ParentTold(s, here) == s # Root /\ Shows(here.parent, here.parentRun)

(* The sessions that learn of a stop on their way to the root, each        *)
(* session on it with the run its child was called in.                     *)
ToldOnTheWay ==
  LET told[d \in 0..MaxTasks] ==
        {t \in Nodes : \/ Shows(node[t].parent, node[t].parentRun)
                       \/ d > 0 /\ node[t].parent # Root /\ node[t].parent \in told[d - 1]}
  IN told[MaxTasks]

(* ancestor_task_cancel_requested, for a loop with its own copy of here.   *)
AncestorTold(s, here) ==
  /\ s # Root
  /\ \/ Shows(here.parent, here.parentRun)
     \/ here.parent # Root /\ here.parent \in ToldOnTheWay

Told(r) ==
  \/ r \in deadTurns
  \/ loop[r].of # Root /\ cancelMark[loop[r].of] = r
  \/ AncestorTold(loop[r].of, loop[r].copy)

(* Mutant: the profile of the caller itself is not looked at.              *)
GovernedByAncestors(p, agent) ==
  /\ \A i \in 1..(Len(node[p].lineage) - 1) : node[p].lineage[i] # agent
  /\ node[p].depth + 1 <= MaxDepth

(* runtime_task_governance_error: a subagent calls neither itself nor one  *)
(* of its ancestors, and the tree has a depth.                             *)
Governed(p, agent) ==
  /\ \A i \in DOMAIN node[p].lineage : node[p].lineage[i] # agent
  /\ node[p].depth + 1 <= MaxDepth

(* validate_runtime_task_resume_session                                    *)
MayResume(p, c, agent) ==
  /\ c \in Made \ {Root} /\ node[c].parent = p /\ node[c].agent = agent
  /\ node[c].status \notin {"queued", "running", "canceled"}
  /\ node[c].state \notin {"running", "paused"}

-----------------------------------------------------------------------------
(* A loop begins on a session, in a run, with the state as it now is.      *)
Enters(s, r, via, state) ==
  /\ loop' = [loop EXCEPT ![r] = [at |-> "step", via |-> via, of |-> s, child |-> 0,
                                  copy |-> state]]
  /\ twice' = (twice \/ UnderWay(s) # {})

(* A turn of the user's session, and its interrupt.                        *)
StartsTreeTurn ==
  /\ node[Root].state \in {"idle", "stop"} /\ runs < MaxRuns
  /\ runs' = runs + 1
  /\ node' = [node EXCEPT ![Root].state = "running", ![Root].run = runs']
  /\ Enters(Root, runs', "turn", node'[Root])
  /\ UNCHANGED <<cancelMark, runLock, deadTurns, stops>>

InterruptsTreeTurn ==
  /\ UnderWay(Root) # {} /\ stops < MaxStops
  /\ deadTurns' = deadTurns \cup {node[Root].run} /\ stops' = stops + 1
  /\ UNCHANGED <<node, cancelMark, runLock, loop, runs, twice>>

(* A task call: what it writes of the child, new or resumed.  A resumed    *)
(* child keeps a request to stop that its file still holds.                *)
Delegated(r, c, agent, background) ==
  LET p == loop[r].of IN
  [parent |-> p, agent |-> agent, lineage |-> Append(node[p].lineage, agent),
   depth |-> node[p].depth + 1, run |-> runs + 1, parentRun |-> r,
   status |-> IF background THEN "queued" ELSE "running",
   state |-> IF background THEN "idle" ELSE "running",
   background |-> background, asked |-> node[c].asked]

(* execute_runtime_task_tool_call                                          *)
Delegates(r, c, agent, background) ==
  /\ loop[r].at = "step" /\ ~Told(r) /\ runs < MaxRuns
  /\ \/ c \notin Made /\ \A t \in 1..(c - 1) : t \in Made
     \/ MayResume(loop[r].of, c, agent)
  /\ Governed(loop[r].of, agent) /\ c \notin runLock
  /\ runs' = runs + 1
  /\ node' = [node EXCEPT ![c] = Delegated(r, c, agent, background)]
  /\ IF background THEN UNCHANGED <<loop, runLock, twice>>
     ELSE /\ runLock' = runLock \cup {c}
          /\ loop' = [loop EXCEPT ![r].at = "call", ![r].child = runs',
                                  ![runs'] = [at |-> "step", via |-> "call", of |-> c,
                                              child |-> 0, copy |-> node'[c]]]
          /\ twice' = (twice \/ UnderWay(c) # {})
  /\ UNCHANGED <<cancelMark, deadTurns, stops>>

(* run_session_task_payload, for the worker or a client.                   *)
RunsQueued(c) ==
  /\ c # Root /\ node[c].status = "queued" /\ c \notin runLock
  /\ node[c].run # 0 \/ runs < MaxRuns
  /\ runs' = IF node[c].run = 0 THEN runs + 1 ELSE runs
  /\ runLock' = runLock \cup {c}
  /\ node' = [node EXCEPT ![c].status = "running", ![c].state = "running", ![c].asked = FALSE,
                          ![c].run = IF @ = 0 THEN runs' ELSE @]
  /\ Enters(c, node'[c].run, "queue", node'[c])
  /\ UNCHANGED <<cancelMark, deadTurns, stops>>

(* The loop saves its copy as it goes.                                     *)
SavesStep(r) ==
  /\ loop[r].at = "step" /\ ~Told(r)
  /\ node' = [node EXCEPT ![loop[r].of] = loop[r].copy]
  /\ UNCHANGED <<cancelMark, runLock, loop, deadTurns, runs, stops, twice>>

(* A loop returns and its caller settles: the task call that waits for it, *)
(* run_session_task_payload, which has the marker looked at once more and  *)
(* cleared, the turn, or the request that answered, which does not touch   *)
(* the status of a task.                                                   *)
StateAfter(outcome) == CASE outcome = "waiting" -> "paused" [] outcome = "interrupted" -> "stop"
                         [] OTHER -> "idle"

Settled(r, outcome) ==
  LET copy == loop[r].copy IN
  CASE loop[r].via = "call" ->
         [copy EXCEPT !.status = outcome,
                      !.state = IF outcome = "waiting" THEN "paused" ELSE "idle"]
    [] loop[r].via = "queue" ->
         IF outcome = "interrupted" \/ cancelMark[loop[r].of] = r
         THEN [copy EXCEPT !.status = "canceled", !.state = "idle"]
         ELSE [copy EXCEPT !.status = outcome, !.state = StateAfter(outcome)]
    [] OTHER -> [copy EXCEPT !.state = StateAfter(outcome)]

ReturnsWith(r, outcome) ==
  LET s == loop[r].of
      GoesOn(t) == IF loop[t].child = r THEN [loop[t] EXCEPT !.at = "step", !.child = 0]
                   ELSE loop[t]
  IN /\ loop[r].at = "step"
     /\ node' = [node EXCEPT ![s] = Settled(r, outcome)]
     /\ loop' = [t \in RunsOfTree |-> IF t = r THEN NoLoop ELSE GoesOn(t)]
     /\ runLock' = IF loop[r].via \in {"call", "queue"} THEN runLock \ {s} ELSE runLock
     /\ cancelMark' = IF loop[r].via = "queue" THEN [cancelMark EXCEPT ![s] = 0] ELSE cancelMark
     /\ UNCHANGED <<deadTurns, runs, stops, twice>>

ReturnsItself(r) ==
  ~Told(r) /\ \E outcome \in {"completed", "failed", "waiting"} : ReturnsWith(r, outcome)
NoticesCancel(r) == Told(r) /\ ReturnsWith(r, "interrupted")

(* A paused loop is answered and goes on, in the thread of the answer.     *)
AnswersPaused(s) ==
  /\ node[s].state = "paused" /\ loop[node[s].run].at = "rest"
  /\ node' = [node EXCEPT ![s].state = "running"]
  /\ Enters(s, node[s].run, "answer", node'[s])
  /\ UNCHANGED <<cancelMark, runLock, deadTurns, runs, stops>>

-----------------------------------------------------------------------------
(* cancel_session_task_payload and resume_session_task_payload             *)
CancelsTask(c) ==
  /\ c \in Made \ {Root} /\ node[c].status \notin OverStatus /\ stops < MaxStops
  /\ stops' = stops + 1
  /\ cancelMark' = [cancelMark EXCEPT ![c] = node[c].run]
  /\ node' = IF c \in runLock THEN [node EXCEPT ![c].asked = TRUE]
             ELSE [node EXCEPT ![c].status = "canceled", ![c].state = "idle"]
  /\ UNCHANGED <<runLock, loop, deadTurns, runs, twice>>

ResumesTask(c) ==
  /\ c # Root /\ node[c].status \in {"failed"} \cup CancelledStatus /\ c \notin runLock
  /\ node' = [node EXCEPT ![c].status = "queued", ![c].state = "idle", ![c].background = TRUE,
                          ![c].asked = FALSE, ![c].run = 0]
  /\ cancelMark' = [cancelMark EXCEPT ![c] = 0]
  /\ UNCHANGED <<runLock, loop, deadTurns, runs, stops, twice>>

TreeInit ==
  /\ node = [s \in Nodes |-> IF s = Root THEN [Nowhere EXCEPT !.status = "user"] ELSE Nowhere]
  /\ cancelMark = [s \in Nodes |-> 0] /\ runLock = {}
  /\ loop = [r \in RunsOfTree |-> NoLoop]
  /\ deadTurns = {} /\ runs = 0 /\ stops = 0 /\ twice = FALSE

TreeNext ==
  \/ StartsTreeTurn \/ InterruptsTreeTurn
  \/ \E r \in RunsOfTree :
       \/ \E c \in Nodes \ {Root}, agent \in Profiles, background \in BOOLEAN :
            Delegates(r, c, agent, background)
       \/ SavesStep(r) \/ ReturnsItself(r) \/ NoticesCancel(r)
  \/ \E s \in Nodes : AnswersPaused(s) \/ RunsQueued(s) \/ CancelsTask(s) \/ ResumesTask(s)

TreeSpec == TreeInit /\ [][TreeNext]_treeVars

-----------------------------------------------------------------------------
TreeTypeOK ==
  /\ \A s \in Nodes : node[s].parent \in Nodes /\ node[s].run \in 0..MaxRuns
  /\ runLock \subseteq Nodes \ {Root} /\ deadTurns \subseteq RunsOfTree
  /\ \A r \in RunsOfTree : loop[r].at \in {"rest", "step", "call"} /\ loop[r].of \in Nodes
  /\ runs \in 0..MaxRuns /\ stops \in 0..MaxStops /\ twice \in BOOLEAN

(* Tasks form a tree of bounded depth in which no subagent is called below *)
(* itself, over resumes too; a loop that waits for a call waits for a run  *)
(* of a child of its own; and a task says "running" as long as one loop    *)
(* holds its lock and no longer, unless it was answered, which takes no    *)
(* lock, and run once more beside that.                                    *)
TreeKeepsShape ==
  /\ \A c \in Made \ {Root} :
       /\ node[c].lineage = Append(node[node[c].parent].lineage, node[c].agent)
       /\ node[c].depth = Len(node[c].lineage) /\ node[c].depth <= MaxDepth
       /\ \A i, j \in DOMAIN node[c].lineage :
            i # j => node[c].lineage[i] # node[c].lineage[j]
       /\ ~twice => /\ c \in runLock <=> \E r \in UnderWay(c) : loop[r].via \in {"call", "queue"}
                    /\ node[c].status = "running" => c \in runLock
  /\ \A r \in RunsOfTree :
       loop[r].at = "call" => LET called == loop[loop[r].child] IN
         called.at # "rest" /\ called.via = "call" /\ called.copy.parentRun = r

(* "cascade": a cancel of a task, or of the turn its session stopped in,   *)
(* is seen before its next step by every loop below, also by those that    *)
(* work in the background or were called in an earlier run, until what was *)
(* canceled is resumed; and a call is told whatever its caller is told.    *)
Below(s) ==
  LET under[d \in 0..MaxTasks] ==
        {t \in Nodes : \/ node[t].parent = s
                       \/ d > 0 /\ node[t].parent # Root /\ node[t].parent \in under[d - 1]}
  IN under[MaxTasks] \cap (Made \ {Root})

CancelSeen(s) ==
  IF s = Root THEN node[Root].state = "stop"
  ELSE node[s].status \in CancelledStatus \/ (node[s].run # 0 /\ cancelMark[s] = node[s].run)
CascadeReaches ==
  ~twice =>
    /\ \A s \in Nodes : CancelSeen(s) =>
         \A t \in Below(s) : \A r \in UnderWay(t) : loop[r].at = "step" => Told(r)
    /\ \A r \in RunsOfTree : loop[r].at = "call" /\ Told(r) =>
         (loop[loop[r].child].at = "step" => Told(loop[r].child))

TreeIsGoverned == TreeKeepsShape /\ CascadeReaches
=============================================================================
