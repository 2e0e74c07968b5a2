--------------------------- MODULE TaskTreeProofs ---------------------------
(***************************************************************************)
(* For every number of profiles, tasks, runs and cancels: tasks form a     *)
(* tree of bounded depth, a lock stands for a loop, and a cancel reaches   *)
(* every loop below.                                                       *)
(***************************************************************************)
EXTENDS TaskTree, OrdersProofs, TLAPS

USE TreeAssumption
-----------------------------------------------------------------------------
(* The inductive invariant.                                                *)

TaskAgents == Profiles \cup {"none"}
TreeStatuses == {"none", "user", "queued", "running", "waiting"} \cup OverStatus
TreeStates == {"idle", "running", "paused", "stop"}
RunNumbers == 0..MaxRuns

Sessions ==
  [parent : Nodes, agent : TaskAgents, lineage : Seq(TaskAgents), depth : Nat,
   status : TreeStatuses, state : TreeStates, run : RunNumbers, parentRun : RunNumbers,
   background : BOOLEAN, asked : BOOLEAN]

Loops ==
  [at : {"rest", "step", "call"}, via : {"none", "turn", "call", "queue", "answer"},
   of : Nodes, child : RunNumbers, copy : Sessions]

TreeTypes ==
  /\ node \in [Nodes -> Sessions] /\ cancelMark \in [Nodes -> RunNumbers]
  /\ runLock \in SUBSET (Nodes \ {Root}) /\ loop \in [RunsOfTree -> Loops]
  /\ deadTurns \in SUBSET RunsOfTree
  /\ runs \in RunNumbers /\ stops \in 0..MaxStops /\ twice \in BOOLEAN

Active(r) == loop[r].at # "rest"

\* What never changes of a session.
SameTask(a, b) ==
  a.parent = b.parent /\ a.agent = b.agent /\ a.lineage = b.lineage /\ a.depth = b.depth

\* What it is made with: the place below its parent.
RootIsFirst ==
  /\ node[Root].lineage = <<>> /\ node[Root].depth = 0 /\ node[Root].parent = Root
  /\ node[Root].status = "user"

MadeInOrder == \A c \in Made : \A t \in Nodes : t < c => t \in Made

TasksAreBelow ==
  \A c \in Made \ {Root} :
    /\ node[c].parent \in Made /\ node[c].parent < c
    /\ node[c].lineage = Append(node[node[c].parent].lineage, node[c].agent)
    /\ node[c].depth = Len(node[c].lineage) /\ node[c].depth <= MaxDepth
    /\ \A i, j \in DOMAIN node[c].lineage :
         i # j => node[c].lineage[i] # node[c].lineage[j]
    /\ node[c].status # "user"

\* Numbers of runs are handed out once and belong to one session.
RunsAreCounted ==
  /\ \A s \in Nodes : node[s].run <= runs /\ cancelMark[s] <= runs
  /\ \A r \in RunsOfTree : Active(r) => r <= runs
  /\ \A s, t \in Nodes : node[s].run # 0 /\ node[s].run = node[t].run => s = t
  /\ \A r \in RunsOfTree, t \in Nodes : Active(r) /\ node[t].run = r => loop[r].of = t

\* A loop works on a session that was made, with a copy of it.
LoopIsTrue(r) ==
  /\ ~Active(r) => loop[r].child = 0 /\ loop[r].of = Root
  /\ loop[r].at = "step" => loop[r].child = 0
  /\ Active(r) =>
       /\ loop[r].of \in Made /\ loop[r].copy.run = r
       /\ SameTask(loop[r].copy, node[loop[r].of])
       /\ loop[r].copy.state = "running"
       /\ loop[r].via \in {"call", "queue"} => loop[r].copy.status = "running"
       /\ loop[r].via = "turn" => loop[r].copy.status = "user"
       /\ loop[r].via = "answer" => loop[r].copy.status \in {"waiting", "user"}
       /\ loop[r].via # "none"
       /\ loop[r].copy.status = "user" <=> loop[r].of = Root
LoopsAreTrue == \A r \in RunsOfTree : LoopIsTrue(r)

\* What a session says of its loop.
StateIsTrue(s) ==
  /\ node[s].state = "paused" => node[s].status \in {"waiting", "user"} /\ node[s].run # 0
  /\ node[s].status = "queued" /\ node[s].run # 0 => ~Active(node[s].run)
StatesAreTrue ==
  /\ \A s \in Nodes : StateIsTrue(s)
  /\ UnderWay(Root) # {} => node[Root].run # 0

\* A loop that waits for a call waits for a run of a child of its own.
WaitsForChild(r) ==
  LET called == loop[loop[r].child] IN
  /\ loop[r].child \in RunsOfTree /\ called.at # "rest" /\ called.via = "call"
  /\ called.copy.parentRun = r /\ called.copy.parent = loop[r].of
CallersWait == \A r \in RunsOfTree : loop[r].at = "call" => WaitsForChild(r)

\* While no session has two loops.
OneLoop == \A r, q \in RunsOfTree : Active(r) /\ Active(q) /\ loop[r].of = loop[q].of => r = q

LocksAreHeld ==
  \A c \in Made \ {Root} :
    /\ c \in runLock => \E r \in UnderWay(c) : loop[r].via \in {"call", "queue"}
    /\ node[c].status = "running" => c \in runLock

LockOfLoop ==
  \A r \in RunsOfTree : Active(r) /\ loop[r].via \in {"call", "queue"} =>
    /\ loop[r].of \in runLock /\ node[loop[r].of].status = "running"
    /\ node[loop[r].of].run = r

CopiesKnowTheCall ==
  \A r \in RunsOfTree : Active(r) /\ loop[r].of # Root =>
    /\ loop[r].copy.parentRun = node[loop[r].of].parentRun
    /\ loop[r].via = "answer" => \/ node[loop[r].of].state = "running"
                                 \/ node[loop[r].of].status \in {"canceled", "queued"}

\* A cancel of the run that a session is in still shows.
MarksShow ==
  \A s \in Nodes \ {Root} : node[s].run # 0 /\ cancelMark[s] = node[s].run =>
    /\ node[s].status # "queued"
    /\ node[s].status \in CancelledStatus \/ node[s].asked \/ node[s].state = "stop"

WhileOnce == OneLoop /\ LocksAreHeld /\ LockOfLoop /\ CopiesKnowTheCall /\ MarksShow

TreeInv ==
  /\ TreeTypes /\ RootIsFirst /\ MadeInOrder /\ TasksAreBelow /\ RunsAreCounted /\ LoopsAreTrue
  /\ StatesAreTrue /\ CallersWait
  /\ ~twice => WhileOnce
-----------------------------------------------------------------------------
(* What a step that changes one session keeps.                             *)

LEMMA RootFacts ==
  ASSUME TreeTypes
  PROVE  /\ Root \in Nodes /\ Nodes \in SUBSET Nat
         /\ \A s \in Nodes : node[s] \in Sessions
         /\ \A r \in RunsOfTree : loop[r] \in Loops
  BY DEF TreeTypes, Root, Nodes, RunsOfTree

\* No task changes its place.
LEMMA KeepTasks ==
  ASSUME TreeTypes, RootIsFirst, TasksAreBelow, NEW c \in Made, NEW v \in Sessions,
         SameTask(v, node[c]), v.status # "none", v.status = "user" <=> c = Root,
         node' = [node EXCEPT ![c] = v]
  PROVE  /\ Made' = Made /\ RootIsFirst' /\ TasksAreBelow'
         /\ \A s \in Nodes : SameTask(node'[s], node[s])
         /\ \A s \in Nodes : s # c => node'[s] = node[s]
         /\ node'[c] = v
         /\ node' \in [Nodes -> Sessions]
<1>1. node \in [Nodes -> Sessions] /\ c \in Nodes /\ Root \in Nodes
  BY RootFacts DEF TreeTypes, Made
<1>2. /\ \A s \in Nodes : s # c => node'[s] = node[s]
      /\ node'[c] = v /\ node' \in [Nodes -> Sessions]
  BY <1>1
<1>3. \A s \in Nodes : SameTask(node'[s], node[s])
  BY <1>1, <1>2 DEF SameTask
<1>4. Made' = Made
  BY <1>1, <1>2 DEF Made
<1>5. \A s \in Nodes : node'[s].status = "user" <=> node[s].status = "user"
  <2>1. node[c].status = "user" <=> c = Root
    BY DEF RootIsFirst, TasksAreBelow
  <2> QED
    BY <1>1, <1>2, <2>1
<1>6. RootIsFirst'
  BY <1>1, <1>2, <1>3, <1>5 DEF RootIsFirst, SameTask
<1>7. TasksAreBelow'
  <2> SUFFICES ASSUME NEW d \in Made \ {Root}
               PROVE  /\ node'[d].parent \in Made /\ node'[d].parent < d
                      /\ node'[d].lineage = Append(node'[node'[d].parent].lineage, node'[d].agent)
                      /\ node'[d].depth = Len(node'[d].lineage) /\ node'[d].depth <= MaxDepth
                      /\ \A i, j \in DOMAIN node'[d].lineage :
                           i # j => node'[d].lineage[i] # node'[d].lineage[j]
                      /\ node'[d].status # "user"
    BY <1>4 DEF TasksAreBelow
  <2>1. d \in Nodes /\ node[d].parent \in Nodes
    BY DEF Made, TasksAreBelow
  <2>2. /\ node'[d].parent = node[d].parent /\ node'[d].lineage = node[d].lineage
        /\ node'[d].agent = node[d].agent /\ node'[d].depth = node[d].depth
        /\ node'[node[d].parent].lineage = node[node[d].parent].lineage
    BY <2>1, <1>3 DEF SameTask
  <2>3. node'[d].status # "user"
    BY <1>5, <2>1 DEF TasksAreBelow
  <2>4. /\ node[d].parent \in Made /\ node[d].parent < d
        /\ node[d].lineage = Append(node[node[d].parent].lineage, node[d].agent)
        /\ node[d].depth = Len(node[d].lineage) /\ node[d].depth <= MaxDepth
        /\ \A i, j \in DOMAIN node[d].lineage :
             i # j => node[d].lineage[i] # node[d].lineage[j]
    BY DEF TasksAreBelow
  <2>5. node'[d].parent \in Made /\ node'[d].parent < d
    BY <2>2, <2>4
  <2>6. node'[d].lineage = Append(node'[node'[d].parent].lineage, node'[d].agent)
    BY <2>2, <2>4
  <2>7. node'[d].depth = Len(node'[d].lineage) /\ node'[d].depth <= MaxDepth
    BY <2>2, <2>4
  <2>8. \A i, j \in DOMAIN node'[d].lineage : i # j => node'[d].lineage[i] # node'[d].lineage[j]
    <3>1. node'[d].lineage = node[d].lineage
      BY <2>2
    <3>2. \A i, j \in DOMAIN node[d].lineage : i # j => node[d].lineage[i] # node[d].lineage[j]
      BY <2>4
    <3> QED
      BY <3>1, <3>2
  <2> QED
    BY <2>3, <2>5, <2>6, <2>7, <2>8
<1> QED
  BY <1>2, <1>3, <1>4, <1>6, <1>7

\* Numbers of runs stay apart.
LEMMA KeepRuns ==
  ASSUME TreeTypes, RunsAreCounted, NEW c \in Nodes, NEW v \in Sessions,
         node' = [node EXCEPT ![c] = v], runs \in Nat, runs' \in Nat, runs <= runs',
         v.run <= runs', \A s \in Nodes : cancelMark'[s] <= runs',
         \A t \in Nodes : t # c /\ v.run # 0 => node[t].run # v.run,
         \A r \in RunsOfTree : loop'[r].at # "rest" =>
           /\ r <= runs'
           /\ \/ Active(r) /\ loop'[r].of = loop[r].of /\ (v.run = r => loop[r].of = c)
              \/ loop'[r].of = c /\ v.run = r
  PROVE  RunsAreCounted'
<1>1. node \in [Nodes -> Sessions]
  BY DEF TreeTypes
<1>2. /\ \A s \in Nodes : s # c => node'[s] = node[s]
      /\ node'[c] = v
  BY <1>1
<1>3. \A s \in Nodes : node[s].run \in Nat
  BY <1>1 DEF Sessions, RunNumbers
<1>4. \A s \in Nodes : node'[s].run <= runs' /\ cancelMark'[s] <= runs'
  BY <1>2, <1>3 DEF RunsAreCounted
<1>5. \A s, t \in Nodes : node'[s].run # 0 /\ node'[s].run = node'[t].run => s = t
  BY <1>2 DEF RunsAreCounted
<1>6. ASSUME NEW r \in RunsOfTree, NEW t \in Nodes, loop'[r].at # "rest", node'[t].run = r
      PROVE  loop'[r].of = t
  <2>1. CASE t = c
    BY <2>1, <1>2, <1>6
  <2>2. CASE t # c
    <3>1. node[t].run = r /\ r # 0
      BY <2>2, <1>2, <1>6 DEF RunsOfTree
    <3>2. v.run # r
      BY <3>1, <2>2
    <3> QED
      BY <3>1, <3>2, <1>6 DEF RunsAreCounted
  <2> QED
    BY <2>1, <2>2
<1> QED
  BY <1>4, <1>5, <1>6 DEF RunsAreCounted, Active

\* What was true of a loop that did not change stays true.
LEMMA KeepLoop ==
  ASSUME TreeTypes, Made \subseteq Made', \A s \in Made : SameTask(node'[s], node[s]),
         NEW r \in RunsOfTree, LoopIsTrue(r), loop'[r] = loop[r]
  PROVE  LoopIsTrue(r)'
<1>1. ASSUME Active(r)
      PROVE  loop[r].of \in Made /\ SameTask(loop[r].copy, node[loop[r].of])
  BY <1>1 DEF LoopIsTrue
<1>2. ASSUME Active(r)
      PROVE  loop[r].of \in Made' /\ SameTask(loop[r].copy, node'[loop[r].of])
  BY <1>1, <1>2 DEF SameTask
<1> QED
  BY <1>1, <1>2 DEF LoopIsTrue, Active

\* Two loops of one session are noticed.
LEMMA NoticesTwo ==
  ASSUME TreeTypes, ~twice => OneLoop, NEW r \in RunsOfTree, NEW s,
         loop'[r].at # "rest", loop'[r].of = s, ~Active(r),
         \A q \in RunsOfTree : q # r /\ loop'[q].at # "rest" =>
           Active(q) /\ loop'[q].of = loop[q].of,
         twice' = (twice \/ UnderWay(s) # {})
  PROVE  ~twice' => ~twice /\ OneLoop' /\ UnderWay(s) = {}
<1> SUFFICES ASSUME ~twice' PROVE ~twice /\ OneLoop' /\ UnderWay(s) = {}
  OBVIOUS
<1>1. ~twice /\ UnderWay(s) = {}
  BY DEF TreeTypes
<1>2. \A q \in RunsOfTree : Active(q) => loop[q].of # s
  BY <1>1 DEF UnderWay, Active
<1>3. OneLoop'
  BY <1>1, <1>2 DEF OneLoop, Active
<1> QED
  BY <1>1, <1>3
-----------------------------------------------------------------------------
LEMMA TreeInitInv == TreeInit => TreeInv
<1> SUFFICES ASSUME TreeInit PROVE TreeInv
  OBVIOUS
<1> DEFINE Home == [Nowhere EXCEPT !.status = "user"]
<1>1. Nowhere \in Sessions /\ Home \in Sessions /\ NoLoop \in Loops
  <2>1. <<>> \in Seq(TaskAgents) /\ 0 \in Nodes /\ 0 \in RunNumbers
    BY DEF Nodes, RunNumbers
  <2>2. "none" \in TaskAgents /\ {"none", "user"} \subseteq TreeStatuses /\ "idle" \in TreeStates
    BY DEF TaskAgents, TreeStatuses, TreeStates
  <2>3. Nowhere \in Sessions
    BY <2>1, <2>2 DEF Nowhere, Sessions, Root
  <2>4. Home \in Sessions
    BY <2>2, <2>3 DEF Sessions
  <2>5. NoLoop \in Loops
    BY <2>1, <2>3 DEF NoLoop, Loops, Root
  <2> QED
    BY <2>3, <2>4, <2>5
<1>2. /\ Root \in Nodes /\ node[Root] = Home
      /\ \A s \in Nodes \ {Root} : node[s] = Nowhere
      /\ node \in [Nodes -> Sessions]
  BY <1>1 DEF TreeInit, Nodes, Root
<1>3. TreeTypes
  <2>1. 0 \in RunNumbers /\ 0 \in 0..MaxStops
    BY DEF RunNumbers
  <2>2. cancelMark \in [Nodes -> RunNumbers] /\ loop \in [RunsOfTree -> Loops]
    BY <2>1, <1>1 DEF TreeInit
  <2> QED
    BY <1>2, <2>1, <2>2 DEF TreeInit, TreeTypes
<1>4. Made = {Root}
  BY <1>2 DEF Made, Nowhere
<1>5. RootIsFirst /\ MadeInOrder /\ TasksAreBelow
  BY <1>2, <1>4 DEF RootIsFirst, MadeInOrder, TasksAreBelow, Nowhere, Nodes, Root
<1>6. \A r \in RunsOfTree : ~Active(r) /\ loop[r] = NoLoop
  BY DEF TreeInit, Active, NoLoop
<1>7. \A s \in Nodes : node[s].run = 0 /\ node[s].parentRun = 0 /\ node[s].state = "idle"
  BY <1>2 DEF Nowhere
<1>8. RunsAreCounted
  BY <1>6, <1>7 DEF RunsAreCounted, TreeInit
<1>9. LoopsAreTrue /\ CallersWait
  BY <1>6 DEF LoopsAreTrue, LoopIsTrue, CallersWait, Active, NoLoop
<1>10. StatesAreTrue
  BY <1>7, <1>6 DEF StatesAreTrue, StateIsTrue, UnderWay, Active
<1>11. OneLoop /\ LockOfLoop /\ CopiesKnowTheCall
  BY <1>6 DEF OneLoop, LockOfLoop, CopiesKnowTheCall
<1>12. LocksAreHeld /\ MarksShow
  BY <1>4, <1>7 DEF LocksAreHeld, MarksShow
<1> QED
  BY <1>3, <1>5, <1>8, <1>9, <1>10, <1>11, <1>12 DEF TreeInv, WhileOnce
-----------------------------------------------------------------------------
(* One lemma per action.                                                   *)

LEMMA InterruptKeepsTree == ASSUME TreeInv, InterruptsTreeTurn PROVE TreeInv'
<1>1. /\ UNCHANGED <<node, cancelMark, runLock, loop, runs, twice>>
      /\ deadTurns' = deadTurns \cup {node[Root].run} /\ stops' = stops + 1 /\ stops < MaxStops
      /\ node[Root].run # 0
  BY DEF InterruptsTreeTurn, TreeInv, StatesAreTrue
<1>2. node[Root].run \in RunsOfTree
  BY <1>1, RootFacts DEF TreeInv, Sessions, RunNumbers, RunsOfTree
<1>3. TreeTypes'
  BY <1>1, <1>2 DEF TreeInv, TreeTypes
<1>4. Made' = Made /\ UnderWay(Root)' = UnderWay(Root) /\ \A s \in Nodes : UnderWay(s)' = UnderWay(s)
  BY <1>1 DEF Made, UnderWay
<1>5. /\ RootIsFirst' /\ MadeInOrder' /\ TasksAreBelow' /\ RunsAreCounted' /\ LoopsAreTrue' /\ StatesAreTrue'
      /\ CallersWait'
  <2>1. RootIsFirst' /\ MadeInOrder' /\ TasksAreBelow'
    BY <1>1, <1>4 DEF TreeInv, RootIsFirst, MadeInOrder, TasksAreBelow
  <2>2. RunsAreCounted' /\ CallersWait'
    BY <1>1, <1>4 DEF TreeInv, RunsAreCounted, CallersWait, WaitsForChild, Active
  <2>3. LoopsAreTrue' /\ StatesAreTrue'
    BY <1>1, <1>4 DEF TreeInv, LoopsAreTrue, LoopIsTrue, StatesAreTrue, StateIsTrue, Active
  <2> QED
    BY <2>1, <2>2, <2>3
<1>6. ~twice' => WhileOnce'
  BY <1>1, <1>4 DEF TreeInv, WhileOnce, OneLoop, LocksAreHeld, LockOfLoop, CopiesKnowTheCall,
     MarksShow, Active, UnderWay, Made
<1> QED
  BY <1>3, <1>5, <1>6 DEF TreeInv

LEMMA SaveKeepsTree == ASSUME TreeInv, NEW r \in RunsOfTree, SavesStep(r) PROVE TreeInv'
<1>1. /\ UNCHANGED <<cancelMark, runLock, loop, deadTurns, runs, stops, twice>>
      /\ node' = [node EXCEPT ![loop[r].of] = loop[r].copy]
      /\ loop[r].at = "step" /\ ~Told(r)
  BY DEF SavesStep
<1>2. PICK c, v : c = loop[r].of /\ v = loop[r].copy
  OBVIOUS
<1>3. /\ TreeTypes /\ LoopIsTrue(r) /\ Active(r) /\ loop[r] \in Loops
  BY <1>1, RootFacts DEF TreeInv, LoopsAreTrue, Active
<1>4. c \in Made /\ v \in Sessions /\ SameTask(v, node[c]) /\ v.run = r /\ v.state = "running"
  BY <1>2, <1>3 DEF LoopIsTrue, Loops
<1>5. /\ v.status \in {"running", "user", "waiting"}
      /\ v.status = "user" <=> c = Root
      /\ v.status = "running" => loop[r].via \in {"call", "queue"}
      /\ loop[r].via \in {"call", "queue"} => v.status = "running"
  BY <1>2, <1>3 DEF LoopIsTrue, Loops
<1>6. node' = [node EXCEPT ![c] = v]
  BY <1>1, <1>2
<1>7. /\ Made' = Made /\ RootIsFirst' /\ TasksAreBelow'
      /\ \A s \in Nodes : SameTask(node'[s], node[s])
      /\ \A s \in Nodes : s # c => node'[s] = node[s]
      /\ node'[c] = v /\ node' \in [Nodes -> Sessions]
  BY <1>4, <1>5, <1>6, KeepTasks DEF TreeInv
<1>8. TreeTypes'
  BY <1>1, <1>3, <1>7 DEF TreeTypes
<1>9. c \in Nodes /\ r # 0 /\ r <= runs /\ runs \in Nat
  BY <1>3, <1>4 DEF Made, RunsOfTree, TreeInv, RunsAreCounted, TreeTypes, RunNumbers
<1>10. RunsAreCounted'
  <2>1. \A t \in Nodes : t # c /\ v.run # 0 => node[t].run # v.run
    BY <1>2, <1>3, <1>4 DEF TreeInv, RunsAreCounted
  <2>2. \A q \in RunsOfTree : loop'[q].at # "rest" =>
           /\ q <= runs'
           /\ \/ Active(q) /\ loop'[q].of = loop[q].of /\ (v.run = q => loop[q].of = c)
              \/ loop'[q].of = c /\ v.run = q
    BY <1>1, <1>2, <1>4 DEF TreeInv, RunsAreCounted, Active
  <2>3. \A s \in Nodes : cancelMark'[s] <= runs'
    BY <1>1 DEF TreeInv, RunsAreCounted
  <2>4. RunsAreCounted /\ runs' \in Nat /\ runs <= runs' /\ v.run <= runs'
    BY <1>1, <1>4, <1>9 DEF TreeInv
  <2> QED
    BY <1>3, <1>4, <1>6, <1>9, <2>1, <2>2, <2>3, <2>4, KeepRuns
<1>11. LoopsAreTrue'
  BY <1>1, <1>3, <1>7, KeepLoop DEF LoopsAreTrue, TreeInv, Made
<1>12. StatesAreTrue'
  BY <1>1, <1>4, <1>5, <1>7, <1>9 DEF TreeInv, StatesAreTrue, StateIsTrue, UnderWay, Active
<1>13. CallersWait'
  BY <1>1 DEF TreeInv, CallersWait, WaitsForChild
<1>14. ASSUME ~twice' PROVE WhileOnce'
  <2>1. ~twice /\ WhileOnce /\ \A s \in Nodes : UnderWay(s)' = UnderWay(s)
    BY <1>1, <1>14 DEF TreeInv, UnderWay
  <2>2. \A q \in RunsOfTree : Active(q) /\ loop[q].of = c => q = r
    BY <1>2, <1>3, <2>1 DEF WhileOnce, OneLoop
  <2>3. OneLoop'
    BY <1>1, <2>1 DEF WhileOnce, OneLoop, Active
  <2>4. v.status = "running" => c \in runLock
    BY <1>2, <1>3, <1>5, <2>1 DEF WhileOnce, LockOfLoop
  <2>5. LocksAreHeld'
    BY <1>1, <1>7, <2>1, <2>4 DEF WhileOnce, LocksAreHeld, Made
  <2>6. LockOfLoop'
    BY <1>1, <1>2, <1>4, <1>5, <1>7, <2>1, <2>2 DEF WhileOnce, LockOfLoop, Active, LoopsAreTrue,
       LoopIsTrue, TreeInv, Made
  <2>7. CopiesKnowTheCall'
    BY <1>1, <1>2, <1>4, <1>7, <2>1, <2>2 DEF WhileOnce, CopiesKnowTheCall, Active, LoopsAreTrue,
       LoopIsTrue, TreeInv, Made
  <2>8. c # Root => cancelMark[c] # r
    BY <1>1, <1>2 DEF Told
  <2>9. MarksShow'
    BY <1>1, <1>4, <1>7, <2>1, <2>8 DEF WhileOnce, MarksShow
  <2> QED
    BY <2>3, <2>5, <2>6, <2>7, <2>9 DEF WhileOnce
<1> QED
  BY <1>7, <1>8, <1>10, <1>11, <1>12, <1>13, <1>14 DEF TreeInv, MadeInOrder

LEMMA CancelKeepsTree == ASSUME TreeInv, NEW c \in Nodes, CancelsTask(c) PROVE TreeInv'
<1>1. /\ UNCHANGED <<runLock, loop, deadTurns, runs, twice>>
      /\ c \in Made \ {Root} /\ node[c].status \notin OverStatus
      /\ stops < MaxStops /\ stops' = stops + 1
      /\ cancelMark' = [cancelMark EXCEPT ![c] = node[c].run]
      /\ node' = IF c \in runLock THEN [node EXCEPT ![c].asked = TRUE]
                 ELSE [node EXCEPT ![c].status = "canceled", ![c].state = "idle"]
  BY DEF CancelsTask
<1>2. PICK v : v = IF c \in runLock THEN [node[c] EXCEPT !.asked = TRUE]
                   ELSE [node[c] EXCEPT !.status = "canceled", !.state = "idle"]
  OBVIOUS
<1>3. TreeTypes /\ node[c] \in Sessions /\ c # Root
  BY <1>1, RootFacts DEF TreeInv
<1>4. /\ v \in Sessions /\ SameTask(v, node[c]) /\ v.run = node[c].run
      /\ v.parentRun = node[c].parentRun
      /\ c \in runLock => v.status = node[c].status /\ v.state = node[c].state /\ v.asked
      /\ c \notin runLock => v.status = "canceled" /\ v.state = "idle"
  BY <1>2, <1>3 DEF Sessions, SameTask, TreeStatuses, TreeStates, OverStatus, CancelledStatus
<1>5. node' = [node EXCEPT ![c] = v]
  BY <1>1, <1>2, <1>3 DEF TreeTypes
<1>6. /\ v.status # "none"
      /\ v.status = "user" <=> c = Root
  BY <1>1, <1>3, <1>4 DEF Made, TreeInv, TasksAreBelow
<1>7. /\ Made' = Made /\ RootIsFirst' /\ TasksAreBelow'
      /\ \A s \in Nodes : SameTask(node'[s], node[s])
      /\ \A s \in Nodes : s # c => node'[s] = node[s]
      /\ node'[c] = v /\ node' \in [Nodes -> Sessions]
  BY <1>1, <1>3, <1>4, <1>5, <1>6, KeepTasks DEF TreeInv
<1>8. cancelMark' \in [Nodes -> RunNumbers] /\ node[c].run \in Nat
  BY <1>1, <1>3 DEF TreeTypes, Sessions, RunNumbers
<1>9. TreeTypes'
  BY <1>1, <1>3, <1>7, <1>8 DEF TreeTypes
<1>10. RunsAreCounted'
  <2>1. \A t \in Nodes : t # c /\ v.run # 0 => node[t].run # v.run
    BY <1>4 DEF TreeInv, RunsAreCounted
  <2>2. \A q \in RunsOfTree : loop'[q].at # "rest" =>
           /\ q <= runs'
           /\ \/ Active(q) /\ loop'[q].of = loop[q].of /\ (v.run = q => loop[q].of = c)
              \/ loop'[q].of = c /\ v.run = q
    BY <1>1, <1>4 DEF TreeInv, RunsAreCounted, Active
  <2>3. \A s \in Nodes : cancelMark'[s] <= runs'
    BY <1>1, <1>3 DEF TreeInv, RunsAreCounted, TreeTypes
  <2>4. /\ RunsAreCounted /\ runs \in Nat /\ runs' \in Nat /\ runs <= runs' /\ v.run <= runs'
    BY <1>1, <1>3, <1>4 DEF TreeInv, TreeTypes, RunsAreCounted, RunNumbers
  <2> QED
    BY <1>3, <1>4, <1>5, <2>1, <2>2, <2>3, <2>4, KeepRuns
<1>11. LoopsAreTrue'
  BY <1>1, <1>3, <1>7, KeepLoop DEF LoopsAreTrue, TreeInv, Made
<1>12. StatesAreTrue'
  <2>1. ASSUME NEW s \in Nodes PROVE StateIsTrue(s)'
    <3>1. StateIsTrue(s)
      BY DEF TreeInv, StatesAreTrue
    <3>2. CASE s = c
      BY <3>1, <3>2, <1>1, <1>4, <1>7 DEF StateIsTrue, Active
    <3> QED
      BY <3>1, <3>2, <1>1, <1>7 DEF StateIsTrue, Active
  <2>2. UnderWay(Root)' # {} => node'[Root].run # 0
    BY <1>1, <1>3, <1>7, RootFacts DEF TreeInv, StatesAreTrue, UnderWay
  <2> QED
    BY <2>1, <2>2 DEF StatesAreTrue
<1>13. CallersWait'
  BY <1>1 DEF TreeInv, CallersWait, WaitsForChild
<1>14. ASSUME ~twice' PROVE WhileOnce'
  <2>1. ~twice /\ WhileOnce /\ \A s \in Nodes : UnderWay(s)' = UnderWay(s)
    BY <1>1, <1>14 DEF TreeInv, UnderWay
  <2>2. OneLoop'
    BY <1>1, <2>1 DEF WhileOnce, OneLoop, Active
  <2>3. LocksAreHeld'
    BY <1>1, <1>4, <1>7, <2>1 DEF WhileOnce, LocksAreHeld, Made
  <2>4. LockOfLoop'
    BY <1>1, <1>4, <1>7, <2>1 DEF WhileOnce, LockOfLoop, Active, LoopsAreTrue, LoopIsTrue, TreeInv, Made
  <2>5. ASSUME NEW q \in RunsOfTree, Active(q)', loop'[q].of # Root
        PROVE  /\ loop'[q].copy.parentRun = node'[loop'[q].of].parentRun
               /\ loop'[q].via = "answer" => \/ node'[loop'[q].of].state = "running"
                                             \/ node'[loop'[q].of].status \in {"canceled", "queued"}
    BY <1>1, <1>4, <1>7, <2>1, <2>5 DEF WhileOnce, CopiesKnowTheCall, Active, LoopsAreTrue,
       LoopIsTrue, TreeInv, Made
  <2>6. CopiesKnowTheCall'
    BY <2>5 DEF CopiesKnowTheCall
  <2>7. c \in runLock => node[c].status # "queued"
    BY <1>1, <2>1 DEF WhileOnce, LocksAreHeld, LockOfLoop, UnderWay, Active
  <2>8. /\ v.status # "queued"
        /\ v.status \in CancelledStatus \/ v.asked
    BY <1>4, <2>7 DEF CancelledStatus
  <2>9. MarksShow'
    <3>1. \A s \in Nodes : s # c => cancelMark'[s] = cancelMark[s]
      BY <1>1, <1>3 DEF TreeTypes
    <3> QED
      BY <1>7, <2>1, <2>8, <3>1 DEF WhileOnce, MarksShow
  <2> QED
    BY <2>2, <2>3, <2>4, <2>6, <2>9 DEF WhileOnce
<1> QED
  BY <1>7, <1>9, <1>10, <1>11, <1>12, <1>13, <1>14 DEF TreeInv, MadeInOrder

LEMMA ResumeKeepsTree == ASSUME TreeInv, NEW c \in Nodes, ResumesTask(c) PROVE TreeInv'
<1>1. /\ UNCHANGED <<runLock, loop, deadTurns, runs, stops, twice>>
      /\ c # Root /\ node[c].status \in {"failed"} \cup CancelledStatus /\ c \notin runLock
      /\ cancelMark' = [cancelMark EXCEPT ![c] = 0]
      /\ node' = [node EXCEPT ![c].status = "queued", ![c].state = "idle", ![c].background = TRUE,
                              ![c].asked = FALSE, ![c].run = 0]
  BY DEF ResumesTask
<1>2. PICK v : v = [node[c] EXCEPT !.status = "queued", !.state = "idle", !.background = TRUE,
                                   !.asked = FALSE, !.run = 0]
  OBVIOUS
<1>3. TreeTypes /\ node[c] \in Sessions /\ c \in Made
  BY <1>1, RootFacts DEF TreeInv, Made, CancelledStatus
<1>4. /\ v \in Sessions /\ SameTask(v, node[c]) /\ v.run = 0 /\ v.parentRun = node[c].parentRun
      /\ v.status = "queued" /\ v.state = "idle"
  <2>1. 0 \in RunNumbers /\ "queued" \in TreeStatuses /\ "idle" \in TreeStates
    BY DEF RunNumbers, TreeStatuses, TreeStates
  <2> QED
    BY <1>2, <1>3, <2>1 DEF Sessions, SameTask
<1>5. node' = [node EXCEPT ![c] = v]
  BY <1>1, <1>2, <1>3 DEF TreeTypes
<1>6. /\ v.status # "none"
      /\ v.status = "user" <=> c = Root
  BY <1>1, <1>4
<1>7. /\ Made' = Made /\ RootIsFirst' /\ TasksAreBelow'
      /\ \A s \in Nodes : SameTask(node'[s], node[s])
      /\ \A s \in Nodes : s # c => node'[s] = node[s]
      /\ node'[c] = v /\ node' \in [Nodes -> Sessions]
  BY <1>3, <1>4, <1>5, <1>6, KeepTasks DEF TreeInv
<1>8. cancelMark' \in [Nodes -> RunNumbers]
  <2>1. 0 \in RunNumbers
    BY DEF RunNumbers
  <2> QED
    BY <1>1, <1>3, <2>1 DEF TreeTypes
<1>9. TreeTypes'
  BY <1>1, <1>3, <1>7, <1>8 DEF TreeTypes
<1>10. RunsAreCounted'
  <2>1. \A t \in Nodes : t # c /\ v.run # 0 => node[t].run # v.run
    BY <1>4
  <2>2. \A q \in RunsOfTree : loop'[q].at # "rest" =>
           /\ q <= runs'
           /\ \/ Active(q) /\ loop'[q].of = loop[q].of /\ (v.run = q => loop[q].of = c)
              \/ loop'[q].of = c /\ v.run = q
    BY <1>1, <1>4 DEF TreeInv, RunsAreCounted, Active, RunsOfTree
  <2>3. \A s \in Nodes : cancelMark'[s] <= runs'
    BY <1>1, <1>3 DEF TreeInv, RunsAreCounted, TreeTypes, RunNumbers
  <2>4. /\ RunsAreCounted /\ runs \in Nat /\ runs' \in Nat /\ runs <= runs' /\ v.run <= runs'
    BY <1>1, <1>3, <1>4 DEF TreeInv, TreeTypes, RunNumbers
  <2> QED
    BY <1>3, <1>4, <1>5, <2>1, <2>2, <2>3, <2>4, KeepRuns
<1>11. LoopsAreTrue'
  BY <1>1, <1>3, <1>7, KeepLoop DEF LoopsAreTrue, TreeInv, Made
<1>12. StatesAreTrue'
  <2>1. ASSUME NEW s \in Nodes PROVE StateIsTrue(s)'
    <3>1. StateIsTrue(s)
      BY DEF TreeInv, StatesAreTrue
    <3>2. CASE s = c
      BY <3>1, <3>2, <1>1, <1>4, <1>7 DEF StateIsTrue, Active
    <3> QED
      BY <3>1, <3>2, <1>1, <1>7 DEF StateIsTrue, Active
  <2>2. UnderWay(Root)' # {} => node'[Root].run # 0
    BY <1>1, <1>3, <1>7, RootFacts DEF TreeInv, StatesAreTrue, UnderWay
  <2> QED
    BY <2>1, <2>2 DEF StatesAreTrue
<1>13. CallersWait'
  BY <1>1 DEF TreeInv, CallersWait, WaitsForChild
<1>14. ASSUME ~twice' PROVE WhileOnce'
  <2>1. ~twice /\ WhileOnce /\ \A s \in Nodes : UnderWay(s)' = UnderWay(s)
    BY <1>1, <1>14 DEF TreeInv, UnderWay
  <2>2. OneLoop'
    BY <1>1, <2>1 DEF WhileOnce, OneLoop, Active
  <2>3. LocksAreHeld'
    BY <1>1, <1>4, <1>7, <2>1 DEF WhileOnce, LocksAreHeld, Made
  <2>4. LockOfLoop'
    BY <1>1, <1>4, <1>7, <2>1 DEF WhileOnce, LockOfLoop, Active, LoopsAreTrue, LoopIsTrue, TreeInv, Made
  <2>5. ASSUME NEW q \in RunsOfTree, Active(q)', loop'[q].of # Root
        PROVE  /\ loop'[q].copy.parentRun = node'[loop'[q].of].parentRun
               /\ loop'[q].via = "answer" => \/ node'[loop'[q].of].state = "running"
                                             \/ node'[loop'[q].of].status \in {"canceled", "queued"}
    BY <1>1, <1>4, <1>7, <2>1, <2>5 DEF WhileOnce, CopiesKnowTheCall, Active, LoopsAreTrue,
       LoopIsTrue, TreeInv, Made
  <2>6. CopiesKnowTheCall'
    BY <2>5 DEF CopiesKnowTheCall
  <2>7. MarksShow'
    BY <1>1, <1>3, <1>4, <1>7, <2>1 DEF WhileOnce, MarksShow, TreeTypes
  <2> QED
    BY <2>2, <2>3, <2>4, <2>6, <2>7 DEF WhileOnce
<1> QED
  BY <1>7, <1>9, <1>10, <1>11, <1>12, <1>13, <1>14 DEF TreeInv, MadeInOrder

\* A loop begins on a session that was made before.
BeginsWith(s, v, r, via) ==
  /\ s \in Made /\ v \in Sessions /\ r \in RunsOfTree /\ via \in {"turn", "queue", "answer"}
  /\ node' = [node EXCEPT ![s] = v] /\ SameTask(v, node[s]) /\ v.parentRun = node[s].parentRun
  /\ v.run = r /\ v.state = "running"
  /\ v.status = "user" <=> s = Root
  /\ via = "queue" => v.status = "running"
  /\ via = "turn" => v.status = "user"
  /\ via = "answer" => v.status \in {"waiting", "user"}
  /\ ~Active(r) /\ \A t \in Nodes : t # s => node[t].run # r
  /\ loop' = [loop EXCEPT ![r] = [at |-> "step", via |-> via, of |-> s, child |-> 0, copy |-> v]]
  /\ twice' = (twice \/ UnderWay(s) # {})
  /\ UNCHANGED <<cancelMark, deadTurns, stops>>
  /\ runs' \in RunNumbers /\ runs <= runs' /\ r <= runs'
  /\ runLock' = IF via = "queue" THEN runLock \cup {s} ELSE runLock
  /\ ~twice /\ s # Root /\ cancelMark[s] = r => v.asked \/ v.status \in CancelledStatus

LEMMA EnterKeepsTree ==
  ASSUME TreeInv, NEW s, NEW v, NEW r, NEW via, BeginsWith(s, v, r, via)
  PROVE  TreeInv'
<1> USE DEF BeginsWith
<1>1. TreeTypes /\ s \in Nodes /\ runs \in Nat /\ runs' \in Nat /\ r # 0
  BY DEF TreeInv, TreeTypes, Made, RunNumbers, RunsOfTree
<1>2. v.status \in {"running", "user", "waiting"}
  OBVIOUS
<1>3. /\ Made' = Made /\ RootIsFirst' /\ TasksAreBelow'
      /\ \A t \in Nodes : SameTask(node'[t], node[t])
      /\ \A t \in Nodes : t # s => node'[t] = node[t]
      /\ node'[s] = v /\ node' \in [Nodes -> Sessions]
  <2>1. v.status # "none" /\ RootIsFirst /\ TasksAreBelow
    BY <1>2 DEF TreeInv
  <2> QED
    BY <1>1, <2>1, KeepTasks
<1>4. /\ loop'[r] = [at |-> "step", via |-> via, of |-> s, child |-> 0, copy |-> v]
      /\ \A q \in RunsOfTree : q # r => loop'[q] = loop[q]
      /\ loop' \in [RunsOfTree -> Loops]
  <2>1. [at |-> "step", via |-> via, of |-> s, child |-> 0, copy |-> v] \in Loops
    BY <1>1 DEF Loops, RunNumbers
  <2> QED
    BY <1>1, <2>1 DEF TreeTypes
<1>5. TreeTypes'
  <2>1. s # Root \/ via # "queue"
    BY <1>2
  <2> QED
    BY <1>1, <1>3, <1>4, <2>1 DEF TreeTypes
<1>6. LoopIsTrue(r)' /\ loop'[r].at = "step" /\ loop'[r].of = s /\ loop'[r].via = via
      /\ loop'[r].copy = v
  <2>1. /\ loop'[r].at = "step" /\ loop'[r].of = s /\ loop'[r].via = via /\ loop'[r].copy = v
        /\ loop'[r].child = 0
    BY <1>4
  <2>2. s \in Made' /\ node'[s] = v
    BY <1>3
  <2> QED
    BY <2>1, <2>2 DEF LoopIsTrue, Active, SameTask
<1>7. RunsAreCounted'
  <2>1. \A q \in RunsOfTree : loop'[q].at # "rest" =>
           /\ q <= runs'
           /\ \/ Active(q) /\ loop'[q].of = loop[q].of /\ (v.run = q => loop[q].of = s)
              \/ loop'[q].of = s /\ v.run = q
    <3> SUFFICES ASSUME NEW q \in RunsOfTree, loop'[q].at # "rest"
                 PROVE  /\ q <= runs'
                        /\ \/ Active(q) /\ loop'[q].of = loop[q].of /\ (v.run = q => loop[q].of = s)
                           \/ loop'[q].of = s /\ v.run = q
      OBVIOUS
    <3>1. CASE q = r
      BY <3>1, <1>6
    <3>2. CASE q # r
      <4>1. Active(q) /\ loop'[q].of = loop[q].of
        BY <3>2, <1>4 DEF Active
      <4>2. q <= runs /\ q \in Nat
        BY <4>1 DEF TreeInv, RunsAreCounted, RunsOfTree
      <4> QED
        BY <4>1, <4>2, <3>2, <1>1
    <3> QED
      BY <3>1, <3>2
  <2>2. \A t \in Nodes : cancelMark'[t] <= runs'
    BY <1>1 DEF TreeInv, RunsAreCounted, TreeTypes, RunNumbers
  <2>3. RunsAreCounted /\ v.run <= runs' /\ \A t \in Nodes : t # s /\ v.run # 0 => node[t].run # v.run
    BY DEF TreeInv
  <2> QED
    BY <1>1, <2>1, <2>2, <2>3, KeepRuns
<1>8. LoopsAreTrue'
  <2>1. ASSUME NEW q \in RunsOfTree, q # r PROVE LoopIsTrue(q)'
    BY <2>1, <1>1, <1>3, <1>4, KeepLoop DEF TreeInv, LoopsAreTrue, Made
  <2> QED
    BY <2>1, <1>6 DEF LoopsAreTrue
<1>9. StatesAreTrue'
  <2>1. ASSUME NEW t \in Nodes PROVE StateIsTrue(t)'
    <3>1. CASE t = s
      BY <3>1, <1>2, <1>3 DEF StateIsTrue
    <3>2. CASE t # s
      <4>1. StateIsTrue(t) /\ node'[t] = node[t] /\ node[t].run # r
        BY <3>2, <1>3 DEF TreeInv, StatesAreTrue
      <4>2. node[t].run # 0 => loop'[node[t].run] = loop[node[t].run]
        BY <4>1, <1>1, <1>4 DEF TreeTypes, Sessions, RunNumbers, RunsOfTree
      <4> QED
        BY <4>1, <4>2 DEF StateIsTrue, Active
    <3> QED
      BY <3>1, <3>2
  <2>2. UnderWay(Root)' # {} => node'[Root].run # 0
    <3>1. CASE s = Root
      BY <3>1, <1>1, <1>3
    <3>2. CASE s # Root
      <4>1. UnderWay(Root)' \subseteq UnderWay(Root) /\ node'[Root] = node[Root]
        BY <3>2, <1>1, <1>3, <1>4, RootFacts DEF UnderWay
      <4> QED
        BY <4>1 DEF TreeInv, StatesAreTrue
    <3> QED
      BY <3>1, <3>2
  <2> QED
    BY <2>1, <2>2 DEF StatesAreTrue
<1>10. CallersWait'
  <2> SUFFICES ASSUME NEW q \in RunsOfTree, loop'[q].at = "call" PROVE WaitsForChild(q)'
    BY DEF CallersWait
  <2>1. q # r /\ loop'[q] = loop[q] /\ loop[q].at = "call"
    BY <1>4, <1>6
  <2>2. WaitsForChild(q)
    BY <2>1 DEF TreeInv, CallersWait
  <2>3. loop[q].child # r
    BY <2>2 DEF WaitsForChild, Active
  <2>4. loop'[loop[q].child] = loop[loop[q].child]
    BY <2>2, <2>3, <1>4 DEF WaitsForChild
  <2> QED
    BY <2>1, <2>2, <2>4 DEF WaitsForChild
<1>11. ASSUME ~twice' PROVE WhileOnce'
  <2>1. ~twice /\ OneLoop' /\ UnderWay(s) = {}
    <3>1. (~twice => OneLoop) /\ loop'[r].at # "rest" /\ loop'[r].of = s
      BY <1>6 DEF TreeInv, WhileOnce
    <3>2. \A q \in RunsOfTree : q # r /\ loop'[q].at # "rest" => Active(q) /\ loop'[q].of = loop[q].of
      BY <1>4 DEF Active
    <3> QED
      BY <1>1, <1>11, <3>1, <3>2, NoticesTwo
  <2>2. WhileOnce
    BY <2>1 DEF TreeInv
  <2>3. \A q \in RunsOfTree : Active(q) => loop[q].of # s
    BY <2>1 DEF UnderWay, Active
  <2>4. ASSUME NEW c \in Made \ {Root}
        PROVE  /\ c \in runLock' => \E q \in UnderWay(c)' : loop'[q].via \in {"call", "queue"}
               /\ node'[c].status = "running" => c \in runLock'
    <3>1. /\ c \in runLock => \E q \in UnderWay(c) : loop[q].via \in {"call", "queue"}
          /\ node[c].status = "running" => c \in runLock
      BY <2>2 DEF WhileOnce, LocksAreHeld
    <3>2. CASE c = s
      <4>1. c \notin runLock
        BY <2>1, <3>1, <3>2
      <4>2. r \in UnderWay(c)'
        BY <3>2, <1>6 DEF UnderWay
      <4> QED
        BY <3>2, <4>1, <4>2, <1>3, <1>6
    <3>3. CASE c # s
      <4>1. UnderWay(c) \subseteq UnderWay(c)' /\ \A q \in UnderWay(c) : loop'[q] = loop[q]
        BY <1>4, <2>3 DEF UnderWay, Active
      <4>2. (c \in runLock' <=> c \in runLock) /\ node'[c] = node[c]
        BY <3>3, <1>3 DEF Made
      <4> QED
        BY <3>1, <4>1, <4>2
    <3> QED
      BY <3>2, <3>3
  <2>5. LocksAreHeld'
    BY <1>3, <2>4 DEF LocksAreHeld
  <2>6. ASSUME NEW q \in RunsOfTree, loop'[q].at # "rest", q # r
        PROVE  /\ Active(q) /\ loop'[q] = loop[q] /\ loop[q].of # s
               /\ node'[loop[q].of] = node[loop[q].of]
    <3>1. Active(q) /\ loop'[q] = loop[q] /\ loop[q].of # s
      BY <2>6, <1>4, <2>3 DEF Active
    <3> QED
      BY <3>1, <1>3 DEF TreeInv, LoopsAreTrue, LoopIsTrue, Made
  <2>7. ASSUME NEW q \in RunsOfTree, loop'[q].at # "rest", loop'[q].via \in {"call", "queue"}
        PROVE  /\ loop'[q].of \in runLock' /\ node'[loop'[q].of].status = "running"
               /\ node'[loop'[q].of].run = q
    <3>1. CASE q = r
      BY <3>1, <2>7, <1>3, <1>6
    <3>2. CASE q # r
      BY <3>2, <2>2, <2>6, <2>7 DEF WhileOnce, LockOfLoop
    <3> QED
      BY <3>1, <3>2
  <2>8. LockOfLoop'
    BY <2>7 DEF LockOfLoop, Active
  <2>9. ASSUME NEW q \in RunsOfTree, loop'[q].at # "rest", loop'[q].of # Root
        PROVE  /\ loop'[q].copy.parentRun = node'[loop'[q].of].parentRun
               /\ loop'[q].via = "answer" => \/ node'[loop'[q].of].state = "running"
                                             \/ node'[loop'[q].of].status \in {"canceled", "queued"}
    <3>1. CASE q = r
      BY <3>1, <2>9, <1>3, <1>6
    <3>2. CASE q # r
      BY <3>2, <2>2, <2>6, <2>9 DEF WhileOnce, CopiesKnowTheCall
    <3> QED
      BY <3>1, <3>2
  <2>10. CopiesKnowTheCall'
    BY <2>9 DEF CopiesKnowTheCall, Active
  <2>11. MarksShow'
    BY <1>2, <1>3, <2>1, <2>2 DEF WhileOnce, MarksShow
  <2> QED
    BY <2>1, <2>5, <2>8, <2>10, <2>11 DEF WhileOnce
<1> QED
  BY <1>3, <1>5, <1>7, <1>8, <1>9, <1>10, <1>11 DEF TreeInv, MadeInOrder

\* A run number that was not given out.
LEMMA FreshRun ==
  ASSUME TreeInv, runs < MaxRuns
  PROVE  /\ runs + 1 \in RunsOfTree /\ runs + 1 \in RunNumbers /\ runs \in Nat
         /\ ~Active(runs + 1) /\ \A t \in Nodes : node[t].run # runs + 1 /\ cancelMark[t] # runs + 1
<1>1. runs \in Nat /\ runs + 1 \in RunsOfTree /\ runs + 1 \in RunNumbers
  BY DEF TreeInv, TreeTypes, RunNumbers, RunsOfTree
<1>2. \A t \in Nodes : node[t].run <= runs /\ cancelMark[t] <= runs /\ node[t].run \in Nat
                       /\ cancelMark[t] \in Nat
  BY RootFacts DEF TreeInv, RunsAreCounted, TreeTypes, Sessions, RunNumbers
<1>3. ~Active(runs + 1)
  BY <1>1 DEF TreeInv, RunsAreCounted
<1> QED
  BY <1>1, <1>2, <1>3

LEMMA StartKeepsTree == ASSUME TreeInv, StartsTreeTurn PROVE TreeInv'
<1>1. /\ node[Root].state \in {"idle", "stop"} /\ runs < MaxRuns /\ runs' = runs + 1
      /\ node' = [node EXCEPT ![Root].state = "running", ![Root].run = runs']
      /\ loop' = [loop EXCEPT ![runs'] = [at |-> "step", via |-> "turn", of |-> Root, child |-> 0,
                                          copy |-> node'[Root]]]
      /\ twice' = (twice \/ UnderWay(Root) # {})
      /\ UNCHANGED <<cancelMark, runLock, deadTurns, stops>>
  BY DEF StartsTreeTurn, Enters
<1>2. PICK v : v = [node[Root] EXCEPT !.state = "running", !.run = runs + 1]
  OBVIOUS
<1>3. TreeTypes /\ node[Root] \in Sessions /\ Root \in Nodes /\ Root \in Made
      /\ node[Root].status = "user"
  BY RootFacts DEF TreeInv, Made, RootIsFirst
<1>4. /\ runs + 1 \in RunsOfTree /\ runs + 1 \in RunNumbers /\ runs \in Nat
      /\ ~Active(runs + 1) /\ \A t \in Nodes : node[t].run # runs + 1 /\ cancelMark[t] # runs + 1
  BY <1>1, FreshRun
<1>5. /\ v \in Sessions /\ SameTask(v, node[Root]) /\ v.parentRun = node[Root].parentRun
      /\ v.run = runs + 1 /\ v.state = "running" /\ v.status = "user"
  BY <1>2, <1>3, <1>4 DEF Sessions, SameTask, TreeStates
<1>6. node' = [node EXCEPT ![Root] = v] /\ node'[Root] = v
  BY <1>1, <1>2, <1>3 DEF TreeTypes
<1>7. loop' = [loop EXCEPT ![runs + 1] = [at |-> "step", via |-> "turn", of |-> Root, child |-> 0,
                                          copy |-> v]]
  BY <1>1, <1>6
<1>8. /\ runs' \in RunNumbers /\ runs <= runs' /\ runs + 1 <= runs'
      /\ \A t \in Nodes : t # Root => node[t].run # runs + 1
      /\ "turn" \in {"turn", "queue", "answer"}
      /\ runLock' = IF "turn" = "queue" THEN runLock \cup {Root} ELSE runLock
  BY <1>1, <1>4
<1>9. BeginsWith(Root, v, runs + 1, "turn")
  BY <1>1, <1>3, <1>4, <1>5, <1>6, <1>7, <1>8 DEF BeginsWith
<1> QED
  BY <1>9, EnterKeepsTree

LEMMA AnswerKeepsTree == ASSUME TreeInv, NEW s \in Nodes, AnswersPaused(s) PROVE TreeInv'
<1>1. PICK r, v : r = node[s].run /\ v = [node[s] EXCEPT !.state = "running"]
  OBVIOUS
<1>2. /\ node[s].state = "paused" /\ loop[node[s].run].at = "rest"
      /\ node' = [node EXCEPT ![s].state = "running"]
      /\ loop' = [loop EXCEPT ![node[s].run] = [at |-> "step", via |-> "answer", of |-> s, child |-> 0,
                                                copy |-> node'[s]]]
      /\ twice' = (twice \/ UnderWay(s) # {})
      /\ UNCHANGED <<cancelMark, runLock, deadTurns, runs, stops>>
  BY DEF AnswersPaused, Enters
<1>3. TreeTypes /\ node[s] \in Sessions /\ StateIsTrue(s)
  BY RootFacts DEF TreeInv, StatesAreTrue
<1>4. node[s].status \in {"waiting", "user"} /\ r # 0 /\ s \in Made
  BY <1>1, <1>2, <1>3 DEF StateIsTrue, Made
<1>5. r \in RunsOfTree /\ ~Active(r) /\ r <= runs
  BY <1>1, <1>2, <1>3, <1>4 DEF Sessions, RunNumbers, RunsOfTree, Active, TreeInv, RunsAreCounted
<1>6. /\ v \in Sessions /\ SameTask(v, node[s]) /\ v.parentRun = node[s].parentRun
      /\ v.run = r /\ v.state = "running" /\ v.status = node[s].status /\ v.asked = node[s].asked
  BY <1>1, <1>3 DEF Sessions, SameTask, TreeStates
<1>7. v.status = "user" <=> s = Root
  BY <1>4, <1>6 DEF TreeInv, RootIsFirst, TasksAreBelow
<1>8. node' = [node EXCEPT ![s] = v] /\ node'[s] = v
  BY <1>1, <1>2, <1>3 DEF TreeTypes
<1>9. loop' = [loop EXCEPT ![r] = [at |-> "step", via |-> "answer", of |-> s, child |-> 0, copy |-> v]]
  BY <1>1, <1>2, <1>8
<1>10. \A t \in Nodes : t # s => node[t].run # r
  BY <1>1, <1>4 DEF TreeInv, RunsAreCounted
<1>11. ~twice /\ s # Root /\ cancelMark[s] = r => v.asked \/ v.status \in CancelledStatus
  BY <1>1, <1>2, <1>4, <1>6 DEF TreeInv, WhileOnce, MarksShow
<1>12. runs' \in RunNumbers /\ runs <= runs' /\ r <= runs' /\ "answer" \in {"turn", "queue", "answer"}
       /\ runLock' = (IF "answer" = "queue" THEN runLock \cup {s} ELSE runLock)
       /\ v.status \in {"waiting", "user"}
  BY <1>2, <1>3, <1>4, <1>5, <1>6 DEF TreeTypes, RunNumbers
<1>13. BeginsWith(s, v, r, "answer")
  BY <1>2, <1>4, <1>5, <1>6, <1>7, <1>8, <1>9, <1>10, <1>11, <1>12 DEF BeginsWith
<1> QED
  BY <1>13, EnterKeepsTree

LEMMA QueueKeepsTree == ASSUME TreeInv, NEW s \in Nodes, RunsQueued(s) PROVE TreeInv'
<1>1. /\ s # Root /\ node[s].status = "queued" /\ s \notin runLock
      /\ node[s].run # 0 \/ runs < MaxRuns
      /\ runs' = IF node[s].run = 0 THEN runs + 1 ELSE runs
      /\ runLock' = runLock \cup {s}
      /\ node' = [node EXCEPT ![s].status = "running", ![s].state = "running", ![s].asked = FALSE,
                              ![s].run = IF @ = 0 THEN runs' ELSE @]
      /\ loop' = [loop EXCEPT ![node'[s].run] = [at |-> "step", via |-> "queue", of |-> s, child |-> 0,
                                                 copy |-> node'[s]]]
      /\ twice' = (twice \/ UnderWay(s) # {})
      /\ UNCHANGED <<cancelMark, deadTurns, stops>>
  BY DEF RunsQueued, Enters
<1>2. PICK r : r = IF node[s].run = 0 THEN runs + 1 ELSE node[s].run
  OBVIOUS
<1>3. PICK v : v = [node[s] EXCEPT !.status = "running", !.state = "running", !.asked = FALSE, !.run = r]
  OBVIOUS
<1>4. TreeTypes /\ node[s] \in Sessions /\ StateIsTrue(s) /\ s \in Made
  BY <1>1, RootFacts DEF TreeInv, StatesAreTrue, Made
<1>5. /\ r \in RunsOfTree /\ r \in RunNumbers /\ ~Active(r) /\ r <= runs' /\ runs \in Nat
      /\ runs' \in RunNumbers /\ runs <= runs'
      /\ \A t \in Nodes : t # s => node[t].run # r
      /\ ~twice => cancelMark[s] # r
  <2>1. CASE node[s].run = 0
    <3>1. runs < MaxRuns /\ r = runs + 1 /\ runs' = runs + 1
      BY <2>1, <1>1, <1>2
    <3> QED
      BY <3>1, FreshRun
  <2>2. CASE node[s].run # 0
    <3>1. r = node[s].run /\ runs' = runs /\ r # 0
      BY <2>2, <1>1, <1>2
    <3>2. r \in RunNumbers /\ r \in RunsOfTree /\ runs \in Nat /\ runs \in RunNumbers
      BY <3>1, <1>4 DEF Sessions, RunNumbers, RunsOfTree, TreeTypes
    <3>3. ~Active(r) /\ r <= runs /\ \A t \in Nodes : t # s => node[t].run # r
      BY <3>1, <1>1, <1>4 DEF StateIsTrue, TreeInv, RunsAreCounted
    <3>4. ~twice => cancelMark[s] # r
      BY <3>1, <1>1 DEF TreeInv, WhileOnce, MarksShow
    <3> QED
      BY <3>1, <3>2, <3>3, <3>4
  <2> QED
    BY <2>1, <2>2
<1>6. /\ v \in Sessions /\ SameTask(v, node[s]) /\ v.parentRun = node[s].parentRun
      /\ v.run = r /\ v.state = "running" /\ v.status = "running"
  BY <1>3, <1>4, <1>5 DEF Sessions, SameTask, TreeStates, TreeStatuses
<1>7. node' = [node EXCEPT ![s] = v] /\ node'[s] = v
  <2>1. v = [node[s] EXCEPT !.status = "running", !.state = "running", !.asked = FALSE,
                            !.run = IF node[s].run = 0 THEN runs' ELSE node[s].run]
    BY <1>1, <1>2, <1>3
  <2>2. node' = [node EXCEPT ![s] = [node[s] EXCEPT !.status = "running", !.state = "running",
                   !.asked = FALSE, !.run = IF node[s].run = 0 THEN runs' ELSE node[s].run]]
    BY <1>1, <1>4 DEF TreeTypes, Sessions
  <2> QED
    BY <2>1, <2>2, <1>4 DEF TreeTypes
<1>8. loop' = [loop EXCEPT ![r] = [at |-> "step", via |-> "queue", of |-> s, child |-> 0, copy |-> v]]
  BY <1>1, <1>6, <1>7
<1>9. BeginsWith(s, v, r, "queue")
  BY <1>1, <1>4, <1>5, <1>6, <1>7, <1>8 DEF BeginsWith
<1> QED
  BY <1>9, EnterKeepsTree

\* What the caller of a loop writes of its session.
LEMMA SettledIs ==
  ASSUME TreeInv, NEW r \in RunsOfTree, Active(r),
         NEW outcome \in {"completed", "failed", "waiting", "interrupted"}, NEW v, v = Settled(r, outcome)
  PROVE  /\ v \in Sessions /\ SameTask(v, loop[r].copy) /\ v.run = r
         /\ v.parentRun = loop[r].copy.parentRun
         /\ v.status \notin {"none", "queued", "running"}
         /\ v.status = "user" <=> loop[r].of = Root
         /\ v.state = "paused" => v.status \in {"waiting", "user"}
         /\ outcome = "interrupted" /\ loop[r].via \in {"call", "answer"} =>
              v.status \in CancelledStatus \/ v.state = "stop"
<1>1. PICK copy : copy = loop[r].copy
  OBVIOUS
<1>2. loop[r] \in Loops /\ LoopIsTrue(r)
  BY RootFacts DEF TreeInv, LoopsAreTrue
<1>3. /\ copy \in Sessions /\ copy.run = r
      /\ loop[r].via \in {"turn", "call", "queue", "answer"}
  BY <1>1, <1>2 DEF Loops, LoopIsTrue
<1>4. /\ loop[r].via \in {"call", "queue"} => loop[r].of # Root
      /\ loop[r].via = "turn" => copy.status = "user"
      /\ loop[r].via = "answer" => copy.status \in {"waiting", "user"}
      /\ copy.status = "user" <=> loop[r].of = Root
  BY <1>1, <1>2 DEF LoopIsTrue
<1>5. /\ outcome \in TreeStatuses \ {"none", "queued", "running", "user"} /\ "canceled" \in TreeStatuses
      /\ "idle" \in TreeStates /\ "paused" \in TreeStates /\ StateAfter(outcome) \in TreeStates
      /\ StateAfter(outcome) = "paused" <=> outcome = "waiting"
      /\ outcome = "interrupted" => StateAfter(outcome) = "stop"
  BY DEF TreeStatuses, TreeStates, StateAfter, OverStatus, CancelledStatus
<1>6. CASE loop[r].via = "call"
  <2>1. v = [copy EXCEPT !.status = outcome, !.state = IF outcome = "waiting" THEN "paused" ELSE "idle"]
    BY <1>1, <1>6 DEF Settled
  <2> QED
    BY <1>1, <1>3, <1>4, <1>5, <1>6, <2>1 DEF Sessions, SameTask, CancelledStatus
<1>7. CASE loop[r].via = "queue"
  <2>1. \/ v = [copy EXCEPT !.status = "canceled", !.state = "idle"]
        \/ v = [copy EXCEPT !.status = outcome, !.state = StateAfter(outcome)]
    BY <1>1, <1>7 DEF Settled
  <2> QED
    BY <1>1, <1>3, <1>4, <1>5, <1>7, <2>1 DEF Sessions, SameTask, CancelledStatus
<1>8. CASE loop[r].via \in {"turn", "answer"}
  <2>1. v = [copy EXCEPT !.state = StateAfter(outcome)]
    BY <1>1, <1>8 DEF Settled
  <2> QED
    BY <1>1, <1>3, <1>4, <1>5, <1>8, <2>1 DEF Sessions, SameTask, CancelledStatus
<1> QED
  BY <1>3, <1>6, <1>7, <1>8

LEMMA NoLoopRests == NoLoop.at = "rest" /\ NoLoop.child = 0 /\ NoLoop.of = Root
  BY DEF NoLoop

LEMMA RunIsPositive ==
  ASSUME TreeTypes, NEW r \in RunsOfTree
  PROVE  r \in Nat /\ r # 0 /\ runs \in Nat
  BY DEF RunsOfTree, TreeTypes, RunNumbers

LEMMA ReturnKeepsTree ==
  ASSUME TreeInv, NEW r \in RunsOfTree,
         NEW outcome \in {"completed", "failed", "waiting", "interrupted"},
         ReturnsWith(r, outcome), Told(r) => outcome = "interrupted"
  PROVE  TreeInv'
<1>1. /\ loop[r].at = "step"
      /\ node' = [node EXCEPT ![loop[r].of] = Settled(r, outcome)]
      /\ loop' = [t \in RunsOfTree |-> IF t = r THEN NoLoop
                    ELSE IF loop[t].child = r THEN [loop[t] EXCEPT !.at = "step", !.child = 0]
                         ELSE loop[t]]
      /\ runLock' = IF loop[r].via \in {"call", "queue"} THEN runLock \ {loop[r].of} ELSE runLock
      /\ cancelMark' = IF loop[r].via = "queue" THEN [cancelMark EXCEPT ![loop[r].of] = 0] ELSE cancelMark
      /\ UNCHANGED <<deadTurns, runs, stops, twice>>
  BY DEF ReturnsWith
<1>2. PICK c, v : c = loop[r].of /\ v = Settled(r, outcome)
  OBVIOUS
<1>3. TreeTypes /\ Active(r) /\ LoopIsTrue(r) /\ r # 0 /\ r \in Nat
  <2>1. TreeTypes /\ Active(r) /\ LoopIsTrue(r)
    BY <1>1 DEF TreeInv, LoopsAreTrue, Active
  <2> QED
    BY <2>1, RunIsPositive
<1>4. /\ v \in Sessions /\ SameTask(v, loop[r].copy) /\ v.run = r
      /\ v.parentRun = loop[r].copy.parentRun
      /\ v.status \notin {"none", "queued", "running"}
      /\ v.status = "user" <=> c = Root
      /\ v.state = "paused" => v.status \in {"waiting", "user"}
      /\ outcome = "interrupted" /\ loop[r].via \in {"call", "answer"} =>
           v.status \in CancelledStatus \/ v.state = "stop"
  BY <1>2, <1>3, SettledIs
<1>5. c \in Made /\ c \in Nodes /\ SameTask(v, node[c])
  BY <1>2, <1>3, <1>4 DEF LoopIsTrue, SameTask, Made
<1>6. node' = [node EXCEPT ![c] = v]
  BY <1>1, <1>2
<1>7. /\ Made' = Made /\ RootIsFirst' /\ TasksAreBelow'
      /\ \A s \in Nodes : SameTask(node'[s], node[s])
      /\ \A s \in Nodes : s # c => node'[s] = node[s]
      /\ node'[c] = v /\ node' \in [Nodes -> Sessions]
  <2>1. v.status # "none" /\ RootIsFirst /\ TasksAreBelow
    BY <1>4 DEF TreeInv
  <2> QED
    BY <1>3, <1>4, <1>5, <1>6, <2>1, KeepTasks
<1>8. /\ loop' \in [RunsOfTree -> Loops] /\ loop'[r] = NoLoop
      /\ \A t \in RunsOfTree : t # r /\ loop[t].child # r => loop'[t] = loop[t]
      /\ \A t \in RunsOfTree : t # r /\ loop[t].child = r =>
           loop'[t] = [loop[t] EXCEPT !.at = "step", !.child = 0]
  <2>1. NoLoop \in Loops
    <3>1. /\ <<>> \in Seq(TaskAgents) /\ 0 \in Nodes /\ 0 \in RunNumbers /\ "none" \in TaskAgents
          /\ "none" \in TreeStatuses /\ "idle" \in TreeStates
      BY DEF Nodes, RunNumbers, TaskAgents, TreeStatuses, TreeStates
    <3>2. Nowhere \in Sessions
      BY <3>1 DEF Nowhere, Sessions, Root
    <3> QED
      BY <3>1, <3>2 DEF NoLoop, Loops, Root
  <2>2. \A t \in RunsOfTree : [loop[t] EXCEPT !.at = "step", !.child = 0] \in Loops
    <3>1. 0 \in RunNumbers
      BY DEF RunNumbers
    <3> QED
      BY <3>1, <1>3 DEF TreeTypes, Loops
  <2> QED
    BY <1>1, <1>3, <2>1, <2>2 DEF TreeTypes
<1>9. \A t \in RunsOfTree : loop'[t].at # "rest" =>
        /\ t # r /\ Active(t) /\ loop'[t].of = loop[t].of /\ loop'[t].via = loop[t].via
        /\ loop'[t].copy = loop[t].copy
        /\ loop'[t].at = "step" => loop'[t].child = 0
        /\ loop'[t].at = "call" => loop'[t] = loop[t] /\ loop[t].child # r
  <2> SUFFICES ASSUME NEW t \in RunsOfTree, loop'[t].at # "rest"
               PROVE  /\ t # r /\ Active(t) /\ loop'[t].of = loop[t].of /\ loop'[t].via = loop[t].via
                      /\ loop'[t].copy = loop[t].copy
                      /\ loop'[t].at = "step" => loop'[t].child = 0
                      /\ loop'[t].at = "call" => loop'[t] = loop[t] /\ loop[t].child # r
    OBVIOUS
  <2>1. t # r /\ LoopIsTrue(t) /\ loop[t] \in Loops
    <3>1. t # r
      BY <1>8, NoLoopRests
    <3> QED
      BY <3>1, RootFacts DEF TreeInv, LoopsAreTrue
  <2>2. CASE loop[t].child # r
    BY <2>1, <2>2, <1>8 DEF Active, LoopIsTrue
  <2>3. CASE loop[t].child = r
    <3>1. loop'[t] = [loop[t] EXCEPT !.at = "step", !.child = 0]
      BY <2>1, <2>3, <1>8
    <3>2. Active(t)
      BY <2>1, <2>3, <1>3 DEF LoopIsTrue
    <3> QED
      BY <2>1, <3>1, <3>2 DEF Loops
  <2> QED
    BY <2>2, <2>3
<1>10. \A t \in RunsOfTree : t # r /\ Active(t) => loop'[t].at # "rest"
  <2> SUFFICES ASSUME NEW t \in RunsOfTree, t # r, Active(t) PROVE loop'[t].at # "rest"
    OBVIOUS
  <2>1. loop[t] \in Loops
    BY RootFacts DEF TreeInv
  <2>2. [loop[t] EXCEPT !.at = "step", !.child = 0].at = "step"
    BY <2>1 DEF Loops
  <2> QED
    BY <2>2, <1>8 DEF Active
<1>11. /\ cancelMark' \in [Nodes -> RunNumbers]
       /\ \A s \in Nodes : s # c => cancelMark'[s] = cancelMark[s]
       /\ cancelMark'[c] \in {0, cancelMark[c]} /\ (loop[r].via = "queue" => cancelMark'[c] = 0)
  <2>1. 0 \in RunNumbers
    BY DEF RunNumbers
  <2> QED
    BY <1>1, <1>2, <1>3, <1>5, <2>1 DEF TreeTypes
<1>12. TreeTypes'
  BY <1>1, <1>3, <1>7, <1>8, <1>11 DEF TreeTypes
<1>13. RunsAreCounted'
  <2>1. \A t \in Nodes : t # c /\ v.run # 0 => node[t].run # v.run
    BY <1>2, <1>3, <1>4 DEF TreeInv, RunsAreCounted
  <2>2. \A q \in RunsOfTree : loop'[q].at # "rest" =>
           /\ q <= runs'
           /\ \/ Active(q) /\ loop'[q].of = loop[q].of /\ (v.run = q => loop[q].of = c)
              \/ loop'[q].of = c /\ v.run = q
    BY <1>1, <1>4, <1>9 DEF TreeInv, RunsAreCounted
  <2>3. runs \in Nat /\ runs' = runs /\ RunsAreCounted
    BY <1>1, <1>3, RunIsPositive DEF TreeInv
  <2>4. \A s \in Nodes : cancelMark'[s] <= runs'
    BY <1>5, <1>11, <2>3 DEF RunsAreCounted
  <2>5. /\ RunsAreCounted /\ runs \in Nat /\ runs' \in Nat /\ runs <= runs' /\ v.run <= runs'
    BY <1>3, <1>4, <2>3 DEF RunsAreCounted
  <2> QED
    BY <1>3, <1>4, <1>5, <1>6, <2>1, <2>2, <2>4, <2>5, KeepRuns
<1>14. LoopsAreTrue'
  <2> SUFFICES ASSUME NEW t \in RunsOfTree PROVE LoopIsTrue(t)'
    BY DEF LoopsAreTrue
  <2>1. LoopIsTrue(t) /\ loop[t] \in Loops
    BY RootFacts DEF TreeInv, LoopsAreTrue
  <2>2. CASE loop'[t].at = "rest"
    <3>1. loop'[t].child = 0 /\ loop'[t].of = Root
      <4>1. CASE t = r
        BY <4>1, <1>8, NoLoopRests
      <4>2. CASE t # r
        <5>1. ~Active(t)
          BY <2>2, <4>2, <1>10
        <5>2. loop[t].child = 0 /\ loop[t].of = Root
          BY <5>1, <2>1 DEF LoopIsTrue
        <5> QED
          BY <4>2, <5>2, <1>3, <1>8
      <4> QED
        BY <4>1, <4>2
    <3> QED
      BY <2>2, <3>1 DEF LoopIsTrue, Active
  <2>3. CASE loop'[t].at # "rest"
    <3>1. /\ t # r /\ Active(t) /\ loop'[t].of = loop[t].of /\ loop'[t].via = loop[t].via
          /\ loop'[t].copy = loop[t].copy
          /\ loop'[t].at = "step" => loop'[t].child = 0
      BY <2>3, <1>9
    <3>2. SameTask(loop[t].copy, node'[loop[t].of]) /\ loop[t].of \in Made'
      BY <2>1, <3>1, <1>7 DEF LoopIsTrue, SameTask, Made
    <3> QED
      BY <2>1, <2>3, <3>1, <3>2 DEF LoopIsTrue, Active
  <2> QED
    BY <2>2, <2>3
<1>15. StatesAreTrue'
  <2>1. ASSUME NEW s \in Nodes PROVE StateIsTrue(s)'
    <3>1. CASE s = c
      BY <3>1, <1>3, <1>4, <1>7 DEF StateIsTrue
    <3>2. CASE s # c
      <4>1. StateIsTrue(s) /\ node'[s] = node[s] /\ node[s] \in Sessions
        BY <3>2, <1>7, RootFacts DEF TreeInv, StatesAreTrue
      <4>2. node[s].run # 0 => node[s].run \in RunsOfTree
        BY <4>1 DEF Sessions, RunNumbers, RunsOfTree
      <4> QED
        BY <4>1, <4>2, <1>9 DEF StateIsTrue, Active
    <3> QED
      BY <3>1, <3>2
  <2>2. UnderWay(Root)' # {} => node'[Root].run # 0
    <3>1. UnderWay(Root)' \subseteq UnderWay(Root)
      BY <1>9 DEF UnderWay, Active
    <3>2. CASE c = Root
      BY <3>2, <1>3, <1>4, <1>7
    <3>3. CASE c # Root
      BY <3>1, <3>3, <1>3, <1>7, RootFacts DEF TreeInv, StatesAreTrue
    <3> QED
      BY <3>2, <3>3
  <2> QED
    BY <2>1, <2>2 DEF StatesAreTrue
<1>16. CallersWait'
  <2> SUFFICES ASSUME NEW q \in RunsOfTree, loop'[q].at = "call" PROVE WaitsForChild(q)'
    BY DEF CallersWait
  <2>1. loop'[q] = loop[q] /\ loop[q].child # r /\ loop[q].at = "call"
    BY <1>9
  <2>2. WaitsForChild(q)
    BY <2>1 DEF TreeInv, CallersWait
  <2>3. PICK p : p = loop[q].child
    OBVIOUS
  <2>4. p \in RunsOfTree /\ Active(p) /\ p # r
    BY <2>1, <2>2, <2>3 DEF WaitsForChild, Active
  <2>5. loop'[p].at # "rest" /\ loop'[p].via = loop[p].via /\ loop'[p].copy = loop[p].copy
    BY <2>4, <1>9, <1>10
  <2> QED
    BY <2>1, <2>2, <2>3, <2>4, <2>5 DEF WaitsForChild
<1>17. ASSUME ~twice' PROVE WhileOnce'
  <2>1. ~twice /\ WhileOnce
    BY <1>1, <1>17 DEF TreeInv
  <2>2. \A q \in RunsOfTree : Active(q) /\ loop[q].of = c => q = r
    BY <1>2, <1>3, <2>1 DEF WhileOnce, OneLoop
  <2>3. OneLoop'
    BY <1>9, <2>1 DEF WhileOnce, OneLoop, Active
  <2>4. ASSUME NEW d \in Made \ {Root}
        PROVE  /\ d \in runLock' => \E q \in UnderWay(d)' : loop'[q].via \in {"call", "queue"}
               /\ node'[d].status = "running" => d \in runLock'
    <3>1. /\ d \in runLock => \E q \in UnderWay(d) : loop[q].via \in {"call", "queue"}
          /\ node[d].status = "running" => d \in runLock
      BY <2>1 DEF WhileOnce, LocksAreHeld
    <3>2. CASE d = c
      <4>1. d \notin runLock'
        BY <3>1, <3>2, <2>2, <1>1, <1>2 DEF UnderWay, Active
      <4> QED
        BY <3>2, <4>1, <1>4, <1>7
    <3>3. CASE d # c
      <4>1. ASSUME NEW q \in UnderWay(d) PROVE q \in UnderWay(d)' /\ loop'[q].via = loop[q].via
        BY <3>3, <1>2, <1>9, <1>10 DEF UnderWay, Active
      <4>2. (d \in runLock' <=> d \in runLock) /\ node'[d] = node[d]
        BY <3>3, <1>1, <1>2, <1>7 DEF Made
      <4> QED
        BY <3>1, <4>1, <4>2
    <3> QED
      BY <3>2, <3>3
  <2>5. LocksAreHeld'
    BY <1>7, <2>4 DEF LocksAreHeld
  <2>6. ASSUME NEW q \in RunsOfTree, loop'[q].at # "rest"
        PROVE  /\ Active(q) /\ loop'[q].of = loop[q].of /\ loop'[q].via = loop[q].via
               /\ loop'[q].copy = loop[q].copy /\ loop[q].of # c
               /\ node'[loop[q].of] = node[loop[q].of]
               /\ loop[q].of \in runLock' <=> loop[q].of \in runLock
    <3>1. /\ Active(q) /\ loop'[q].of = loop[q].of /\ loop'[q].via = loop[q].via
          /\ loop'[q].copy = loop[q].copy /\ loop[q].of # c
      BY <2>6, <1>9, <2>2
    <3>2. loop[q].of \in Nodes
      BY <3>1 DEF TreeInv, LoopsAreTrue, LoopIsTrue, Made
    <3> QED
      BY <3>1, <3>2, <1>1, <1>2, <1>7
  <2>7. LockOfLoop'
    BY <2>1, <2>6 DEF WhileOnce, LockOfLoop, Active
  <2>8. CopiesKnowTheCall'
    BY <2>1, <2>6 DEF WhileOnce, CopiesKnowTheCall, Active
  <2>9. ASSUME c # Root, cancelMark'[c] = r
        PROVE  v.status \in CancelledStatus \/ v.state = "stop"
    <3>1. loop[r].via # "queue" /\ cancelMark[c] = r
      BY <2>9, <1>3, <1>11
    <3>2. outcome = "interrupted"
      BY <2>9, <3>1, <1>2 DEF Told
    <3>3. loop[r].via \in {"call", "answer"}
      BY <3>1, <2>9, <1>2, <1>3, RootFacts DEF LoopIsTrue, TreeInv, Loops
    <3> QED
      BY <3>2, <3>3, <1>4
  <2>10. MarksShow'
    BY <1>4, <1>7, <1>11, <2>1, <2>9 DEF WhileOnce, MarksShow
  <2> QED
    BY <2>3, <2>5, <2>7, <2>8, <2>10 DEF WhileOnce
<1> QED
  BY <1>7, <1>12, <1>13, <1>14, <1>15, <1>16, <1>17 DEF TreeInv, MadeInOrder

\* A task call that may be made, and what it writes.
CallWrites(r, c, agent, background, v) ==
  /\ r \in RunsOfTree /\ Active(r) /\ c \in Nodes \ {Root} /\ agent \in Profiles
  /\ background \in BOOLEAN /\ runs < MaxRuns
  /\ \/ c \notin Made /\ \A t \in 1..(c - 1) : t \in Made
     \/ MayResume(loop[r].of, c, agent)
  /\ Governed(loop[r].of, agent) /\ v = Delegated(r, c, agent, background)

\* What a task call writes of the child puts it below the caller.
LEMMA DelegatedIs ==
  ASSUME TreeInv, NEW r, NEW c, NEW agent, NEW background, NEW v,
         CallWrites(r, c, agent, background, v)
  PROVE  /\ v \in Sessions /\ v.parent = loop[r].of /\ v.parent \in Made /\ v.parent < c
         /\ v.lineage = Append(node[v.parent].lineage, v.agent)
         /\ v.depth = Len(v.lineage) /\ v.depth <= MaxDepth
         /\ \A i, j \in DOMAIN v.lineage : i # j => v.lineage[i] # v.lineage[j]
         /\ v.run = runs + 1 /\ v.parentRun = r
         /\ background => v.status = "queued" /\ v.state = "idle"
         /\ ~background => v.status = "running" /\ v.state = "running"
         /\ c \in Made => SameTask(v, node[c])
<1> USE DEF CallWrites
<1>1. PICK p : p = loop[r].of
  OBVIOUS
<1>2. /\ p \in Made /\ p \in Nodes /\ node[p] \in Sessions /\ node[c] \in Sessions
      /\ p \in Nat /\ c \in Nat /\ c # 0
  BY <1>1, RootFacts DEF TreeInv, LoopsAreTrue, LoopIsTrue, Made, Root
<1>3. PICK above : above = node[p].lineage
  OBVIOUS
<1>4. above \in Seq(TaskAgents) /\ agent \in TaskAgents
  BY <1>2, <1>3 DEF Sessions, TaskAgents
<1>5. /\ node[p].depth = Len(above) /\ Len(above) \in Nat /\ Len(above) + 1 <= MaxDepth
      /\ \A i, j \in DOMAIN above : i # j => above[i] # above[j]
      /\ \A i \in DOMAIN above : above[i] # agent
  <2>1. node[p].depth = Len(above) /\ \A i, j \in DOMAIN above : i # j => above[i] # above[j]
    BY <1>2, <1>3 DEF TreeInv, RootIsFirst, TasksAreBelow
  <2>2. Len(above) \in Nat
    BY <1>4
  <2>3. node[p].depth + 1 <= MaxDepth /\ \A i \in DOMAIN above : above[i] # agent
    BY <1>1, <1>3 DEF Governed
  <2> QED
    BY <2>1, <2>2, <2>3
<1>6. v = [parent |-> p, agent |-> agent, lineage |-> Append(above, agent),
           depth |-> Len(above) + 1, run |-> runs + 1, parentRun |-> r,
           status |-> IF background THEN "queued" ELSE "running",
           state |-> IF background THEN "idle" ELSE "running",
           background |-> background, asked |-> node[c].asked]
  BY <1>1, <1>3, <1>5 DEF Delegated
<1>7. PICK below : below = Append(above, agent)
  OBVIOUS
<1>8. /\ below \in Seq(TaskAgents) /\ Len(below) = Len(above) + 1
      /\ \A i \in 1..Len(above) : below[i] = above[i]
      /\ below[Len(above) + 1] = agent
  BY <1>4, <1>7
<1>9. \A i, j \in DOMAIN below : i # j => below[i] # below[j]
  <2>1. DOMAIN below = 1..(Len(above) + 1) /\ DOMAIN above = 1..Len(above)
    BY <1>4, <1>8
  <2> QED
    BY <2>1, <1>5, <1>8
<1>10. runs + 1 \in RunNumbers /\ r \in RunNumbers
  BY FreshRun DEF RunsOfTree, RunNumbers
<1>11. v \in Sessions
  <2>1. /\ {"queued", "running"} \subseteq TreeStatuses /\ {"idle", "running"} \subseteq TreeStates
        /\ node[c].asked \in BOOLEAN /\ Len(above) + 1 \in Nat
    BY <1>2, <1>5 DEF TreeStatuses, TreeStates, Sessions
  <2> QED
    BY <1>2, <1>4, <1>6, <1>7, <1>8, <1>10, <2>1 DEF Sessions
<1>12. p < c
  <2>1. CASE c \notin Made
    <3>1. p # c
      BY <1>2, <2>1
    <3>2. ~(c < p)
      BY <1>2, <2>1 DEF TreeInv, MadeInOrder
    <3> QED
      BY <1>2, <3>1, <3>2
  <2>2. CASE c \in Made
    <3>1. MayResume(p, c, agent)
      BY <1>1, <2>2
    <3> QED
      BY <3>1 DEF MayResume, TreeInv, TasksAreBelow
  <2> QED
    BY <2>1, <2>2
<1>13. ASSUME c \in Made PROVE SameTask(v, node[c])
  <2>1. node[c].parent = p /\ node[c].agent = agent
    BY <1>1, <1>13 DEF MayResume
  <2>2. node[c].lineage = Append(node[node[c].parent].lineage, node[c].agent) /\ node[c].depth = Len(node[c].lineage)
    BY <1>13 DEF TreeInv, TasksAreBelow
  <2>3. node[c].lineage = below /\ node[c].depth = Len(below)
    BY <2>1, <2>2, <1>3, <1>7
  <2> QED
    BY <2>1, <2>3, <1>6, <1>7, <1>8 DEF SameTask
<1>14. /\ v.lineage = below /\ v.depth = Len(below) /\ v.depth <= MaxDepth
       /\ v.parent = p /\ v.agent = agent /\ v.run = runs + 1 /\ v.parentRun = r
       /\ background => v.status = "queued" /\ v.state = "idle"
       /\ ~background => v.status = "running" /\ v.state = "running"
  BY <1>5, <1>6, <1>7, <1>8
<1>15. v.lineage = Append(node[v.parent].lineage, v.agent)
  BY <1>14, <1>3, <1>7
<1>16. \A i, j \in DOMAIN v.lineage : i # j => v.lineage[i] # v.lineage[j]
  BY <1>9, <1>14
<1> QED
  BY <1>1, <1>2, <1>11, <1>12, <1>13, <1>14, <1>15, <1>16

\* A task is made, or called once more, in its place.
LEMMA MakeTask ==
  ASSUME TreeInv, NEW c \in Nodes \ {Root}, NEW v \in Sessions, node' = [node EXCEPT ![c] = v],
         v.parent \in Made, v.parent < c, v.lineage = Append(node[v.parent].lineage, v.agent),
         v.depth = Len(v.lineage), v.depth <= MaxDepth,
         \A i, j \in DOMAIN v.lineage : i # j => v.lineage[i] # v.lineage[j],
         v.status \in {"queued", "running"}, c \in Made => SameTask(v, node[c]),
         c \notin Made => \A t \in 1..(c - 1) : t \in Made
  PROVE  /\ Made' = Made \cup {c} /\ RootIsFirst' /\ MadeInOrder' /\ TasksAreBelow'
         /\ \A s \in Made : SameTask(node'[s], node[s])
         /\ \A s \in Nodes : s # c => node'[s] = node[s]
         /\ node'[c] = v /\ node' \in [Nodes -> Sessions]
<1>1. TreeTypes /\ Nodes \in SUBSET Nat /\ Root \in Nodes /\ Root = 0
  BY RootFacts DEF TreeInv, Root
<1>2. /\ \A s \in Nodes : s # c => node'[s] = node[s]
      /\ node'[c] = v /\ node' \in [Nodes -> Sessions]
  BY <1>1 DEF TreeTypes
<1>3. Made' = Made \cup {c}
  BY <1>2 DEF Made
<1>4. \A s \in Made : SameTask(node'[s], node[s])
  BY <1>2 DEF SameTask, Made
<1>5. RootIsFirst'
  BY <1>1, <1>2 DEF RootIsFirst, TreeInv
<1>6. MadeInOrder'
  <2>1. Root \in Made
    BY <1>1 DEF Made, TreeInv, RootIsFirst
  <2>2. \A t \in Nodes : t < c => t \in Made
    BY <1>1, <2>1 DEF TreeInv, MadeInOrder
  <2> QED
    BY <1>3, <2>2 DEF TreeInv, MadeInOrder
<1>7. TasksAreBelow'
  <2> SUFFICES ASSUME NEW d \in (Made \cup {c}) \ {Root}
               PROVE  /\ node'[d].parent \in Made \cup {c} /\ node'[d].parent < d
                      /\ node'[d].lineage = Append(node'[node'[d].parent].lineage, node'[d].agent)
                      /\ node'[d].depth = Len(node'[d].lineage) /\ node'[d].depth <= MaxDepth
                      /\ \A i, j \in DOMAIN node'[d].lineage :
                           i # j => node'[d].lineage[i] # node'[d].lineage[j]
                      /\ node'[d].status # "user"
    BY <1>3 DEF TasksAreBelow
  <2>1. CASE d = c
    <3>1. node'[d] = v /\ v.parent # c /\ v.parent \in Nodes
      BY <1>1, <1>2, <2>1 DEF Made
    <3>2. node'[v.parent].lineage = node[v.parent].lineage
      BY <1>2, <3>1
    <3>3. v.lineage = Append(node'[v.parent].lineage, v.agent)
      BY <3>2
    <3> QED
      BY <2>1, <3>1, <3>3
  <2>2. CASE d # c
    <3>1. d \in Made \ {Root} /\ node'[d] = node[d]
      BY <1>2, <2>2 DEF Made
    <3>2. /\ node[d].parent \in Made /\ node[d].parent < d
          /\ node[d].lineage = Append(node[node[d].parent].lineage, node[d].agent)
          /\ node[d].depth = Len(node[d].lineage) /\ node[d].depth <= MaxDepth
          /\ \A i, j \in DOMAIN node[d].lineage :
               i # j => node[d].lineage[i] # node[d].lineage[j]
          /\ node[d].status # "user"
      BY <3>1 DEF TreeInv, TasksAreBelow
    <3>3. node'[node[d].parent].lineage = node[node[d].parent].lineage
      BY <1>4, <3>2 DEF SameTask
    <3>4. node'[d].lineage = Append(node'[node'[d].parent].lineage, node'[d].agent)
      BY <3>1, <3>2, <3>3
    <3>5. \A i, j \in DOMAIN node'[d].lineage : i # j => node'[d].lineage[i] # node'[d].lineage[j]
      BY <3>1, <3>2
    <3> QED
      BY <3>1, <3>2, <3>4, <3>5
  <2> QED
    BY <2>1, <2>2
<1> QED
  BY <1>2, <1>3, <1>4, <1>5, <1>6, <1>7

\* What a task call does to the loops: a loop of the new run may begin, for
\* which the caller then waits.
CallsLoop(r, n, c, v, background) ==
  /\ loop' \in [RunsOfTree -> Loops]
  /\ \A q \in RunsOfTree : Active(q) => loop'[q].at # "rest"
  /\ \A q \in RunsOfTree : loop'[q].at = "rest" => loop'[q] = loop[q]
  /\ \A q \in RunsOfTree : loop'[q].at = "step" => loop'[q].child = 0
  /\ \A q \in RunsOfTree : loop'[q].at = "call" =>
       loop'[q] = loop[q] \/ (q = r /\ loop'[q].child = n /\ ~background)
  /\ \A q \in RunsOfTree : loop'[q].at # "rest" =>
       \/ /\ q # n /\ Active(q) /\ loop'[q].of = loop[q].of /\ loop'[q].via = loop[q].via
          /\ loop'[q].copy = loop[q].copy
       \/ /\ q = n /\ ~background /\ loop'[q].of = c /\ loop'[q].via = "call" /\ loop'[q].copy = v
  /\ ~background => loop'[n].at = "step" /\ loop'[n].of = c /\ loop'[n].via = "call" /\ loop'[n].copy = v

CallBegins(r, n, c, v, background) ==
  /\ r \in RunsOfTree /\ n \in RunsOfTree /\ ~Active(n) /\ c \in Nodes \ {Root}
  /\ v \in Sessions /\ background \in BOOLEAN /\ loop[r].at = "step"
  /\ loop' = IF background THEN loop
             ELSE [loop EXCEPT ![r].at = "call", ![r].child = n,
                               ![n] = [at |-> "step", via |-> "call", of |-> c, child |-> 0, copy |-> v]]

LEMMA CallIs ==
  ASSUME TreeInv, NEW r, NEW n, NEW c, NEW v, NEW background, CallBegins(r, n, c, v, background)
  PROVE  CallsLoop(r, n, c, v, background)
<1> USE DEF CallBegins
<1>1. /\ TreeTypes /\ n # r /\ n \in RunNumbers /\ 0 \in RunNumbers
      /\ \A q \in RunsOfTree : loop[q] \in Loops /\ LoopIsTrue(q)
  BY RootFacts DEF TreeInv, LoopsAreTrue, Active, RunsOfTree, RunNumbers
<1>2. CASE background
  <2>1. loop' = loop
    BY <1>2
  <2> QED
    BY <1>1, <1>2, <2>1 DEF CallsLoop, TreeTypes, LoopIsTrue, Active
<1>3. CASE ~background
  <2>1. PICK begun : begun = [at |-> "step", via |-> "call", of |-> c, child |-> 0, copy |-> v]
    OBVIOUS
  <2>2. PICK waits : waits = [loop[r] EXCEPT !.at = "call", !.child = n]
    OBVIOUS
  <2>3. /\ begun \in Loops /\ waits \in Loops
        /\ begun.at = "step" /\ begun.of = c /\ begun.via = "call" /\ begun.copy = v /\ begun.child = 0
        /\ waits.at = "call" /\ waits.child = n /\ waits.of = loop[r].of /\ waits.via = loop[r].via
        /\ waits.copy = loop[r].copy
    BY <1>1, <2>1, <2>2 DEF Loops
  <2>4. loop' = [loop EXCEPT ![r] = waits, ![n] = begun]
    BY <1>1, <1>3, <2>1, <2>2 DEF TreeTypes
  <2>5. /\ loop' \in [RunsOfTree -> Loops] /\ loop'[r] = waits /\ loop'[n] = begun
        /\ \A q \in RunsOfTree : q # r /\ q # n => loop'[q] = loop[q]
    BY <1>1, <2>3, <2>4 DEF TreeTypes
  <2> QED
    BY <1>1, <1>3, <2>3, <2>5 DEF CallsLoop, LoopIsTrue, Active
<1> QED
  BY <1>2, <1>3

LEMMA DelegateKeepsTree ==
  ASSUME TreeInv, NEW r \in RunsOfTree, NEW c \in Nodes \ {Root}, NEW agent \in Profiles,
         NEW background \in BOOLEAN, Delegates(r, c, agent, background)
  PROVE  TreeInv'
<1>1. /\ loop[r].at = "step" /\ runs < MaxRuns /\ c \notin runLock
      /\ \/ c \notin Made /\ \A t \in 1..(c - 1) : t \in Made
         \/ MayResume(loop[r].of, c, agent)
      /\ Governed(loop[r].of, agent)
      /\ runs' = runs + 1
      /\ node' = [node EXCEPT ![c] = Delegated(r, c, agent, background)]
      /\ background => UNCHANGED <<loop, runLock, twice>>
      /\ ~background =>
           /\ runLock' = runLock \cup {c}
           /\ loop' = [loop EXCEPT ![r].at = "call", ![r].child = runs',
                                   ![runs'] = [at |-> "step", via |-> "call", of |-> c,
                                               child |-> 0, copy |-> node'[c]]]
           /\ twice' = (twice \/ UnderWay(c) # {})
      /\ UNCHANGED <<cancelMark, deadTurns, stops>>
  BY DEF Delegates
<1>2. PICK v, n : v = Delegated(r, c, agent, background) /\ n = runs + 1
  OBVIOUS
<1>3. TreeTypes /\ Active(r) /\ \A q \in RunsOfTree : LoopIsTrue(q) /\ loop[q] \in Loops
  BY <1>1, RootFacts DEF TreeInv, LoopsAreTrue, Active
<1>4. /\ n \in RunsOfTree /\ n \in RunNumbers /\ runs \in Nat /\ runs' = n
      /\ ~Active(n) /\ \A t \in Nodes : node[t].run # n /\ cancelMark[t] # n
  BY <1>1, <1>2, FreshRun
<1>5. /\ v \in Sessions /\ v.parent = loop[r].of /\ v.parent \in Made /\ v.parent < c
      /\ v.lineage = Append(node[v.parent].lineage, v.agent)
      /\ v.depth = Len(v.lineage) /\ v.depth <= MaxDepth
      /\ \A i, j \in DOMAIN v.lineage : i # j => v.lineage[i] # v.lineage[j]
      /\ v.run = n /\ v.parentRun = r
      /\ background => v.status = "queued" /\ v.state = "idle"
      /\ ~background => v.status = "running" /\ v.state = "running"
      /\ c \in Made => SameTask(v, node[c])
  <2>1. CallWrites(r, c, agent, background, v)
    BY <1>1, <1>2, <1>3 DEF CallWrites
  <2> QED
    BY <2>1, <1>2, DelegatedIs
<1>6. node' = [node EXCEPT ![c] = v]
  BY <1>1, <1>2
<1>7. /\ Made' = Made \cup {c} /\ RootIsFirst' /\ MadeInOrder' /\ TasksAreBelow'
      /\ \A s \in Made : SameTask(node'[s], node[s])
      /\ \A s \in Nodes : s # c => node'[s] = node[s]
      /\ node'[c] = v /\ node' \in [Nodes -> Sessions]
  <2>1. v.status \in {"queued", "running"} /\ (c \notin Made => \A t \in 1..(c - 1) : t \in Made)
    BY <1>1, <1>5 DEF MayResume
  <2> QED
    BY <1>5, <1>6, <2>1, MakeTask
<1>8. CallsLoop(r, n, c, v, background)
  <2>1. loop' = IF background THEN loop
                ELSE [loop EXCEPT ![r].at = "call", ![r].child = n,
                                  ![n] = [at |-> "step", via |-> "call", of |-> c, child |-> 0, copy |-> v]]
    BY <1>1, <1>4, <1>7
  <2> QED
    <3>1. CallBegins(r, n, c, v, background)
      BY <1>1, <1>4, <1>5, <2>1 DEF CallBegins
    <3> QED
      BY <3>1, CallIs
<1>9. \A q \in RunsOfTree : loop'[q].at # "rest" =>
       \/ /\ q # n /\ Active(q) /\ loop'[q].of = loop[q].of /\ loop'[q].via = loop[q].via
          /\ loop'[q].copy = loop[q].copy
       \/ /\ q = n /\ ~background /\ loop'[q].of = c /\ loop'[q].via = "call" /\ loop'[q].copy = v
  BY <1>8 DEF CallsLoop
<1>10. TreeTypes'
  <2>1. runLock' \in SUBSET (Nodes \ {Root}) /\ twice' \in BOOLEAN /\ runs' \in RunNumbers
    BY <1>1, <1>3, <1>4 DEF TreeTypes
  <2>2. loop' \in [RunsOfTree -> Loops]
    BY <1>8 DEF CallsLoop
  <2> QED
    BY <1>1, <1>3, <1>7, <2>1, <2>2 DEF TreeTypes
<1>11. RunsAreCounted'
  <2>1. \A t \in Nodes : t # c /\ v.run # 0 => node[t].run # v.run
    BY <1>4, <1>5
  <2>2. \A q \in RunsOfTree : loop'[q].at # "rest" =>
           /\ q <= runs'
           /\ \/ Active(q) /\ loop'[q].of = loop[q].of /\ (v.run = q => loop[q].of = c)
              \/ loop'[q].of = c /\ v.run = q
    <3> SUFFICES ASSUME NEW q \in RunsOfTree, loop'[q].at # "rest"
                 PROVE  /\ q <= runs'
                        /\ \/ Active(q) /\ loop'[q].of = loop[q].of /\ (v.run = q => loop[q].of = c)
                           \/ loop'[q].of = c /\ v.run = q
      OBVIOUS
    <3>1. CASE q = n
      <4>1. loop'[q].of = c
        BY <3>1, <1>9
      <4>2. q <= runs' /\ v.run = q
        BY <3>1, <1>4, <1>5 DEF RunNumbers
      <4> QED
        BY <4>1, <4>2
    <3>2. CASE q # n
      <4>1. Active(q) /\ loop'[q].of = loop[q].of
        BY <3>2, <1>9
      <4>2. q <= runs /\ q \in Nat
        BY <4>1, <1>3, RunIsPositive DEF TreeInv, RunsAreCounted
      <4> QED
        BY <3>2, <4>1, <4>2, <1>1, <1>4, <1>5
    <3> QED
      BY <3>1, <3>2
  <2>3. \A t \in Nodes : cancelMark'[t] <= runs'
    BY <1>1, <1>3, <1>4 DEF TreeInv, RunsAreCounted, TreeTypes, RunNumbers
  <2>4. /\ RunsAreCounted /\ runs \in Nat /\ runs' \in Nat /\ runs <= runs' /\ v.run <= runs'
    BY <1>1, <1>4, <1>5 DEF TreeInv
  <2> QED
    BY <1>3, <1>5, <1>6, <2>1, <2>2, <2>3, <2>4, KeepRuns
<1>12. LoopsAreTrue'
  <2> SUFFICES ASSUME NEW q \in RunsOfTree PROVE LoopIsTrue(q)'
    BY DEF LoopsAreTrue
  <2>1. CASE loop'[q].at = "rest"
    <3>1. loop'[q] = loop[q]
      BY <2>1, <1>8 DEF CallsLoop
    <3> QED
      BY <2>1, <3>1, <1>3 DEF LoopIsTrue, Active
  <2>2. CASE loop'[q].at # "rest"
    <3>1. loop'[q].at = "step" => loop'[q].child = 0
      BY <1>8 DEF CallsLoop
    <3>2. CASE q = n
      <4>1. loop'[q].of = c /\ loop'[q].via = "call" /\ loop'[q].copy = v /\ ~background
        BY <2>2, <3>2, <1>9
      <4>2. c \in Made' /\ SameTask(v, node'[c])
        BY <1>7 DEF SameTask
      <4> QED
        BY <2>2, <3>1, <3>2, <4>1, <4>2, <1>5 DEF LoopIsTrue, Active
    <3>3. CASE q # n
      <4>1. /\ Active(q) /\ loop'[q].of = loop[q].of /\ loop'[q].via = loop[q].via
            /\ loop'[q].copy = loop[q].copy
        BY <2>2, <3>3, <1>9
      <4>2. loop[q].of \in Made /\ SameTask(loop[q].copy, node[loop[q].of])
        BY <4>1, <1>3 DEF LoopIsTrue
      <4>3. loop[q].of \in Made' /\ SameTask(loop[q].copy, node'[loop[q].of])
        BY <4>2, <1>7 DEF SameTask
      <4> QED
        BY <2>2, <3>1, <4>1, <4>3, <1>3 DEF LoopIsTrue, Active
    <3> QED
      BY <3>2, <3>3
  <2> QED
    BY <2>1, <2>2
<1>13. StatesAreTrue'
  <2>1. ASSUME NEW s \in Nodes PROVE StateIsTrue(s)'
    <3>1. CASE s = c
      <4>1. background => ~Active(n)'
        BY <1>4, <1>9 DEF Active
      <4> QED
        BY <3>1, <4>1, <1>5, <1>7 DEF StateIsTrue
    <3>2. CASE s # c
      <4>1. StateIsTrue(s) /\ node'[s] = node[s] /\ node[s] \in Sessions /\ node[s].run # n
        BY <3>2, <1>4, <1>7, RootFacts DEF TreeInv, StatesAreTrue
      <4>2. node[s].run # 0 => node[s].run \in RunsOfTree
        BY <4>1 DEF Sessions, RunNumbers, RunsOfTree
      <4> QED
        BY <4>1, <4>2, <1>9 DEF StateIsTrue, Active
    <3> QED
      BY <3>1, <3>2
  <2>2. UnderWay(Root)' # {} => node'[Root].run # 0
    <3>1. UnderWay(Root)' \subseteq UnderWay(Root)
      BY <1>9 DEF UnderWay, Active
    <3> QED
      BY <3>1, <1>7, RootFacts DEF TreeInv, StatesAreTrue
  <2> QED
    BY <2>1, <2>2 DEF StatesAreTrue
<1>14. CallersWait'
  <2> SUFFICES ASSUME NEW q \in RunsOfTree, loop'[q].at = "call" PROVE WaitsForChild(q)'
    BY DEF CallersWait
  <2>1. CASE q = r /\ loop'[q].child = n /\ ~background
    <3>1. loop'[n].at = "step" /\ loop'[n].via = "call" /\ loop'[n].copy = v
      BY <2>1, <1>8 DEF CallsLoop
    <3>2. loop'[q].of = loop[r].of
      BY <2>1, <1>3, <1>4, <1>9
    <3> QED
      BY <2>1, <3>1, <3>2, <1>4, <1>5 DEF WaitsForChild
  <2>2. CASE loop'[q] = loop[q]
    <3>1. WaitsForChild(q)
      BY <2>2 DEF TreeInv, CallersWait
    <3>2. PICK p : p = loop[q].child
      OBVIOUS
    <3>3. p \in RunsOfTree /\ Active(p) /\ p # n
      BY <3>1, <3>2, <1>4 DEF WaitsForChild, Active
    <3>4. loop'[p].at # "rest"
      BY <3>3, <1>8 DEF CallsLoop
    <3>5. loop'[p].via = loop[p].via /\ loop'[p].copy = loop[p].copy
      BY <3>3, <3>4, <1>9
    <3> QED
      BY <2>2, <3>1, <3>2, <3>3, <3>4, <3>5 DEF WaitsForChild
  <2>3. loop'[q] = loop[q] \/ (q = r /\ loop'[q].child = n /\ ~background)
    BY <1>8 DEF CallsLoop
  <2> QED
    BY <2>1, <2>2, <2>3
<1>15. ASSUME ~twice' PROVE WhileOnce'
  <2>1. ~twice /\ WhileOnce
    BY <1>1, <1>3, <1>15 DEF TreeInv, TreeTypes
  <2>2. \A q \in RunsOfTree : Active(q) => loop[q].of # c
    <3> SUFFICES ASSUME NEW q \in RunsOfTree, Active(q), loop[q].of = c PROVE FALSE
      OBVIOUS
    <3>1. c \in Made /\ LoopIsTrue(q) /\ loop[q] \in Loops
      BY <1>3 DEF LoopIsTrue
    <3>2. MayResume(loop[r].of, c, agent)
      BY <3>1, <1>1
    <3>3. loop[q].via \in {"call", "queue", "answer"}
      BY <3>1 DEF LoopIsTrue, Loops
    <3>4. loop[q].via \notin {"call", "queue"}
      BY <1>1, <2>1 DEF WhileOnce, LockOfLoop
    <3> QED
      BY <3>2, <3>3, <3>4, <2>1 DEF WhileOnce, CopiesKnowTheCall, MayResume
  <2>3. OneLoop'
    BY <2>1, <2>2, <1>9 DEF WhileOnce, OneLoop, Active
  <2>4. ASSUME NEW d \in (Made \cup {c}) \ {Root}
        PROVE  /\ d \in runLock' => \E q \in UnderWay(d)' : loop'[q].via \in {"call", "queue"}
               /\ node'[d].status = "running" => d \in runLock'
    <3>1. CASE d = c
      <4>1. CASE background
        BY <3>1, <4>1, <1>1, <1>5, <1>7
      <4>2. CASE ~background
        <5>1. n \in UnderWay(c)' /\ loop'[n].via = "call"
          BY <4>2, <1>4, <1>8 DEF CallsLoop, UnderWay
        <5> QED
          BY <3>1, <4>2, <5>1, <1>1
      <4> QED
        BY <4>1, <4>2
    <3>2. CASE d # c
      <4>1. /\ d \in runLock => \E q \in UnderWay(d) : loop[q].via \in {"call", "queue"}
            /\ node[d].status = "running" => d \in runLock
        BY <3>2, <2>1 DEF WhileOnce, LocksAreHeld
      <4>2. ASSUME NEW q \in UnderWay(d) PROVE q \in UnderWay(d)' /\ loop'[q].via = loop[q].via
        <5>1. q \in RunsOfTree /\ Active(q) /\ loop[q].of = d /\ q # n
          BY <1>4 DEF UnderWay, Active
        <5>2. loop'[q].at # "rest"
          BY <5>1, <1>8 DEF CallsLoop
        <5> QED
          BY <5>1, <5>2, <1>9 DEF UnderWay
      <4>3. (d \in runLock' <=> d \in runLock) /\ node'[d] = node[d]
        BY <3>2, <1>1, <1>7 DEF Made
      <4> QED
        BY <4>1, <4>2, <4>3
    <3> QED
      BY <3>1, <3>2
  <2>5. LocksAreHeld'
    BY <1>7, <2>4 DEF LocksAreHeld
  <2>6. ASSUME NEW q \in RunsOfTree, loop'[q].at # "rest", q # n
        PROVE  /\ Active(q) /\ loop'[q].of = loop[q].of /\ loop'[q].via = loop[q].via
               /\ loop'[q].copy = loop[q].copy /\ loop[q].of # c
               /\ node'[loop[q].of] = node[loop[q].of]
               /\ loop[q].of \in runLock' <=> loop[q].of \in runLock
    <3>1. /\ Active(q) /\ loop'[q].of = loop[q].of /\ loop'[q].via = loop[q].via
          /\ loop'[q].copy = loop[q].copy /\ loop[q].of # c
      BY <2>6, <1>9, <2>2
    <3>2. loop[q].of \in Nodes
      BY <3>1, <1>3 DEF LoopIsTrue, Made
    <3> QED
      BY <3>1, <3>2, <1>1, <1>7
  <2>7. ASSUME NEW q \in RunsOfTree, loop'[q].at # "rest", q = n
        PROVE  ~background /\ loop'[q].of = c /\ loop'[q].via = "call" /\ loop'[q].copy = v
    BY <2>7, <1>9
  <2>8. ASSUME NEW q \in RunsOfTree, loop'[q].at # "rest", loop'[q].via \in {"call", "queue"}
        PROVE  /\ loop'[q].of \in runLock' /\ node'[loop'[q].of].status = "running"
               /\ node'[loop'[q].of].run = q
    <3>1. CASE q = n
      BY <3>1, <2>7, <2>8, <1>1, <1>5, <1>7
    <3>2. CASE q # n
      BY <3>2, <2>1, <2>6, <2>8 DEF WhileOnce, LockOfLoop
    <3> QED
      BY <3>1, <3>2
  <2>9. LockOfLoop'
    BY <2>8 DEF LockOfLoop, Active
  <2>10. ASSUME NEW q \in RunsOfTree, loop'[q].at # "rest", loop'[q].of # Root
         PROVE  /\ loop'[q].copy.parentRun = node'[loop'[q].of].parentRun
                /\ loop'[q].via = "answer" => \/ node'[loop'[q].of].state = "running"
                                              \/ node'[loop'[q].of].status \in {"canceled", "queued"}
    <3>1. CASE q = n
      BY <3>1, <2>7, <2>10, <1>7
    <3>2. CASE q # n
      BY <3>2, <2>1, <2>6, <2>10 DEF WhileOnce, CopiesKnowTheCall
    <3> QED
      BY <3>1, <3>2
  <2>11. CopiesKnowTheCall'
    BY <2>10 DEF CopiesKnowTheCall, Active
  <2>12. MarksShow'
    BY <1>1, <1>4, <1>5, <1>7, <2>1 DEF WhileOnce, MarksShow
  <2> QED
    BY <2>3, <2>5, <2>9, <2>11, <2>12 DEF WhileOnce
<1> QED
  BY <1>7, <1>10, <1>11, <1>12, <1>13, <1>14, <1>15 DEF TreeInv

THEOREM TreeInvHolds == TreeSpec => []TreeInv
<1>1. TreeInv /\ [TreeNext]_treeVars => TreeInv'
  <2> SUFFICES ASSUME TreeInv, [TreeNext]_treeVars PROVE TreeInv'
    OBVIOUS
  <2>1. CASE UNCHANGED treeVars
    <3>1. UNCHANGED <<node, cancelMark, runLock, loop, deadTurns, runs, stops, twice>>
      BY <2>1 DEF treeVars
    <3> QED
      BY <3>1 DEF TreeInv, TreeTypes, RootIsFirst, MadeInOrder, TasksAreBelow, RunsAreCounted,
         LoopsAreTrue, LoopIsTrue, StatesAreTrue, StateIsTrue, CallersWait, WaitsForChild, WhileOnce,
         OneLoop, LocksAreHeld, LockOfLoop, CopiesKnowTheCall, MarksShow, Active, UnderWay, Made
  <2>2. CASE StartsTreeTurn \/ InterruptsTreeTurn
    BY <2>2, StartKeepsTree, InterruptKeepsTree
  <2>3. ASSUME NEW r \in RunsOfTree, NEW c \in Nodes \ {Root}, NEW agent \in Profiles,
               NEW background \in BOOLEAN, Delegates(r, c, agent, background)
        PROVE  TreeInv'
    BY <2>3, DelegateKeepsTree
  <2>4. ASSUME NEW r \in RunsOfTree, SavesStep(r) PROVE TreeInv'
    BY <2>4, SaveKeepsTree
  <2>5. ASSUME NEW r \in RunsOfTree, ReturnsItself(r) PROVE TreeInv'
    <3>1. PICK outcome \in {"completed", "failed", "waiting"} : ~Told(r) /\ ReturnsWith(r, outcome)
      BY <2>5 DEF ReturnsItself
    <3> QED
      BY <3>1, ReturnKeepsTree
  <2>6. ASSUME NEW r \in RunsOfTree, NoticesCancel(r) PROVE TreeInv'
    <3>1. ReturnsWith(r, "interrupted")
      BY <2>6 DEF NoticesCancel
    <3> QED
      BY <3>1, ReturnKeepsTree
  <2>7. ASSUME NEW s \in Nodes, AnswersPaused(s) \/ RunsQueued(s) \/ CancelsTask(s) \/ ResumesTask(s)
        PROVE  TreeInv'
    BY <2>7, AnswerKeepsTree, QueueKeepsTree, CancelKeepsTree, ResumeKeepsTree
  <2> QED
    BY <2>1, <2>2, <2>3, <2>4, <2>5, <2>6, <2>7 DEF TreeNext
<1> QED
  BY <1>1, TreeInitInv, PTL DEF TreeSpec

\* Every variable holds what it should: what the run checks of it follows.
THEOREM TreeTypeCorrect == TreeSpec => []TreeTypeOK
<1>1. TreeInv => TreeTypeOK
  <2> SUFFICES ASSUME TreeInv PROVE TreeTypeOK
    OBVIOUS
  <2>1. TreeTypes
    BY DEF TreeInv
  <2>2. \A s \in Nodes : node[s].parent \in Nodes /\ node[s].run \in 0..MaxRuns
    BY <2>1, RootFacts DEF Sessions, RunNumbers
  <2>3. \A r \in RunsOfTree : loop[r].at \in {"rest", "step", "call"} /\ loop[r].of \in Nodes
    BY <2>1, RootFacts DEF Loops
  <2> QED
    BY <2>1, <2>2, <2>3 DEF TreeTypes, TreeTypeOK, RunNumbers
<1> QED
  BY <1>1, TreeInvHolds, PTL
-----------------------------------------------------------------------------
(* A cancel is for all that is below.                                      *)

\* What the climb from a task to the root collects in d steps, from those
\* in now; it exists, so the recursive definitions mean what they say.
ClimbUp(f, now, m) ==
  f = [d \in 0..m |-> {t \in Nodes : \/ t \in now
                                     \/ d > 0 /\ node[t].parent # Root /\ node[t].parent \in f[d - 1]}]

LEMMA ClimbExists == ASSUME NEW now, NEW m \in Nat PROVE \E f : ClimbUp(f, now, m)
<1> DEFINE S == {k \in Nat : \E f : ClimbUp(f, now, k)}
<1>1. 0 \in S
  <2>1. PICK f : f = [d \in 0..0 |-> {t \in Nodes : t \in now}]
    OBVIOUS
  <2>2. ClimbUp(f, now, 0)
    BY <2>1 DEF ClimbUp
  <2> QED
    BY <2>2
<1>2. ASSUME NEW k \in S PROVE k + 1 \in S
  <2>1. PICK f : ClimbUp(f, now, k)
    OBVIOUS
  <2>2. PICK last : last = {t \in Nodes : t \in now \/ (node[t].parent # Root /\ node[t].parent \in f[k])}
    OBVIOUS
  <2>3. PICK g : g = [d \in 0..(k + 1) |-> IF d <= k THEN f[d] ELSE last]
    OBVIOUS
  <2>4. /\ \A d \in 0..k : g[d] = f[d]
        /\ g[k + 1] = last
    BY <2>3
  <2>5. ASSUME NEW d \in 0..(k + 1)
        PROVE  g[d] = {t \in Nodes : \/ t \in now
                                     \/ d > 0 /\ node[t].parent # Root /\ node[t].parent \in g[d - 1]}
    <3>1. CASE d = k + 1
      <4>1. d > 0 /\ g[d - 1] = f[k] /\ g[d] = last
        BY <2>4, <3>1
      <4> QED
        BY <2>2, <4>1
    <3>2. CASE d # k + 1
      <4>1. d \in 0..k /\ g[d] = f[d] /\ (d > 0 => g[d - 1] = f[d - 1])
        BY <2>4, <3>2
      <4>2. f[d] = {t \in Nodes : \/ t \in now
                                  \/ d > 0 /\ node[t].parent # Root /\ node[t].parent \in f[d - 1]}
        BY <2>1, <4>1 DEF ClimbUp
      <4> QED
        BY <4>1, <4>2
    <3> QED
      BY <3>1, <3>2
  <2>6. ClimbUp(g, now, k + 1)
    BY <2>3, <2>5 DEF ClimbUp
  <2> QED
    BY <2>6
<1>3. S = Nat
  <2> HIDE DEF S
  <2>1. S \in SUBSET Nat
    BY DEF S
  <2> QED
    BY <1>1, <1>2, <2>1, SetInduction
<1> QED
  BY <1>3

\* The climb has ended after MaxTasks steps, for a parent comes first.
LEMMA ClimbEnds ==
  ASSUME TreeInv, NEW now, NEW f, ClimbUp(f, now, MaxTasks), NEW c \in Made
  PROVE  c \in f[MaxTasks] <=> c \in now \/ (node[c].parent # Root /\ node[c].parent \in f[MaxTasks])
<1>1. /\ MaxTasks \in Nat /\ Root = 0 /\ Made \subseteq 0..MaxTasks /\ Nodes = 0..MaxTasks
  BY DEF Root, Made, Nodes
<1>2. \A t \in Made : t # Root => node[t].parent \in Made /\ node[t].parent < t
  BY DEF TreeInv, TasksAreBelow
<1>3. node[Root].parent = Root
  BY DEF TreeInv, RootIsFirst
<1>4. \A d \in 0..MaxTasks : \A t \in Made :
        t \in f[d] <=> t \in now \/ (d > 0 /\ node[t].parent # Root /\ node[t].parent \in f[d - 1])
  BY <1>1 DEF ClimbUp
<1> DEFINE Moves(t) == \E d \in 1..MaxTasks : t <= d /\ ~(t \in f[d] <=> t \in f[d - 1])
           T == {t \in Made : Moves(t)}
<1>5. T = {}
  <2> SUFFICES ASSUME T # {} PROVE FALSE
    OBVIOUS
  <2>1. T \in SUBSET Nat
    <3>1. T \subseteq Made
      OBVIOUS
    <3>2. Made \subseteq Nat
      BY <1>1
    <3> HIDE DEF T
    <3> QED
      BY <3>1, <3>2
  <2>2. PICK t \in T : \A y \in T : t <= y
    <3> HIDE DEF T
    <3> QED
      BY <2>1, LeastNat
  <2>3. PICK d \in 1..MaxTasks : t <= d /\ ~(t \in f[d] <=> t \in f[d - 1])
    BY <2>2
  <2>4. PICK p : p = node[t].parent
    OBVIOUS
  <2>5. t \in Made /\ t \in Nat /\ d \in Nat /\ d > 0 /\ d - 1 \in 0..MaxTasks /\ d \in 0..MaxTasks
    BY <1>1, <2>2, <2>3
  <2>6. /\ t \in f[d] <=> t \in now \/ (p # Root /\ p \in f[d - 1])
        /\ t \in f[d - 1] <=> t \in now \/ (d - 1 > 0 /\ p # Root /\ p \in f[(d - 1) - 1])
    BY <1>4, <2>4, <2>5
  <2>7. p # Root
    BY <2>3, <2>6
  <2>8. p \in Made /\ p < t /\ p \in Nat /\ p # 0
    <3>1. t # Root
      BY <1>3, <2>4, <2>7
    <3>2. p \in Made /\ p < t
      BY <1>2, <2>4, <2>5, <3>1
    <3> HIDE DEF Moves, T
    <3> QED
      BY <1>1, <2>7, <3>2
  <2>9. d - 1 \in 1..MaxTasks /\ p <= d - 1
    BY <2>3, <2>5, <2>8
  <2>10. ~Moves(p)
    BY <2>2, <2>5, <2>8
  <2>11. p \in f[d - 1] <=> p \in f[(d - 1) - 1]
    BY <2>9, <2>10
  <2> QED
    BY <2>3, <2>6, <2>9, <2>11
<1>6. CASE c = Root \/ node[c].parent = Root
  BY <1>1, <1>3, <1>4, <1>6
<1>7. CASE c # Root /\ node[c].parent # Root
  <2>1. PICK p : p = node[c].parent
    OBVIOUS
  <2>2. p \in Made /\ p < c /\ p \in 0..MaxTasks /\ c \in 0..MaxTasks
    BY <1>1, <1>2, <1>7, <2>1
  <2>3. MaxTasks \in 1..MaxTasks /\ p <= MaxTasks
    BY <1>1, <2>2
  <2>4. ~Moves(p)
    BY <1>5, <2>2
  <2>5. p \in f[MaxTasks] <=> p \in f[MaxTasks - 1]
    BY <2>3, <2>4
  <2> HIDE DEF Moves, T
  <2>6. c \in f[MaxTasks] <=> c \in now \/ p \in f[MaxTasks - 1]
    BY <1>4, <1>7, <2>1, <2>2, <2>3
  <2> QED
    BY <1>7, <2>1, <2>5, <2>6
<1> QED
  BY <1>6, <1>7

\* A task learns of a stop from its parent or from what its parent is told.
LEMMA ToldIs ==
  ASSUME TreeInv, NEW t \in Made
  PROVE  t \in ToldOnTheWay <=> \/ Shows(node[t].parent, node[t].parentRun)
                                \/ node[t].parent # Root /\ node[t].parent \in ToldOnTheWay
<1> DEFINE now == {u \in Nodes : Shows(node[u].parent, node[u].parentRun)}
           Told1 == CHOOSE f : f = [d \in 0..MaxTasks |->
                      {u \in Nodes : \/ Shows(node[u].parent, node[u].parentRun)
                                     \/ d > 0 /\ node[u].parent # Root /\ node[u].parent \in f[d - 1]}]
<1>1. ToldOnTheWay = Told1[MaxTasks]
  BY DEF ToldOnTheWay
<1>2. PICK g : ClimbUp(g, now, MaxTasks)
  BY ClimbExists
<1>3. g = [d \in 0..MaxTasks |->
             {u \in Nodes : \/ Shows(node[u].parent, node[u].parentRun)
                            \/ d > 0 /\ node[u].parent # Root /\ node[u].parent \in g[d - 1]}]
  BY <1>2 DEF ClimbUp
<1>4. Told1 = [d \in 0..MaxTasks |->
             {u \in Nodes : \/ Shows(node[u].parent, node[u].parentRun)
                            \/ d > 0 /\ node[u].parent # Root /\ node[u].parent \in Told1[d - 1]}]
  BY <1>3
<1>5. PICK f : f = Told1
  OBVIOUS
<1>6. ClimbUp(f, now, MaxTasks)
  BY <1>4, <1>5 DEF ClimbUp
<1>7. t \in f[MaxTasks] <=> t \in now \/ (node[t].parent # Root /\ node[t].parent \in f[MaxTasks])
  BY <1>6, ClimbEnds
<1>8. t \in now <=> Shows(node[t].parent, node[t].parentRun)
  BY DEF Made
<1> QED
  BY <1>1, <1>5, <1>7, <1>8

\* What is below a session is its children and what is below those.
LEMMA BelowIs ==
  ASSUME TreeInv, NEW s, NEW t \in Made \ {Root}
  PROVE  t \in Below(s) <=> \/ node[t].parent = s
                            \/ node[t].parent # Root /\ node[t].parent \in Below(s)
<1> DEFINE now == {u \in Nodes : node[u].parent = s}
           Under1 == CHOOSE f : f = [d \in 0..MaxTasks |->
                      {u \in Nodes : \/ node[u].parent = s
                                     \/ d > 0 /\ node[u].parent # Root /\ node[u].parent \in f[d - 1]}]
<1>1. Below(s) = Under1[MaxTasks] \cap (Made \ {Root})
  BY DEF Below
<1>2. PICK g : ClimbUp(g, now, MaxTasks)
  BY ClimbExists
<1>3. g = [d \in 0..MaxTasks |->
             {u \in Nodes : \/ node[u].parent = s
                            \/ d > 0 /\ node[u].parent # Root /\ node[u].parent \in g[d - 1]}]
  BY <1>2 DEF ClimbUp
<1>4. Under1 = [d \in 0..MaxTasks |->
             {u \in Nodes : \/ node[u].parent = s
                            \/ d > 0 /\ node[u].parent # Root /\ node[u].parent \in Under1[d - 1]}]
  BY <1>3
<1>5. PICK f : f = Under1
  OBVIOUS
<1>6. ClimbUp(f, now, MaxTasks)
  BY <1>4, <1>5 DEF ClimbUp
<1>7. t \in f[MaxTasks] <=> t \in now \/ (node[t].parent # Root /\ node[t].parent \in f[MaxTasks])
  BY <1>6, ClimbEnds
<1>8. t \in now <=> node[t].parent = s
  BY DEF Made
<1>9. node[t].parent \in Made
  BY DEF TreeInv, TasksAreBelow
<1> QED
  BY <1>1, <1>5, <1>7, <1>8, <1>9

LEMMA CascadeFollows == ASSUME TreeInv, ~twice PROVE CascadeReaches
<1>1. /\ WhileOnce /\ MarksShow /\ CopiesKnowTheCall /\ RootIsFirst /\ TasksAreBelow
      /\ \A r \in RunsOfTree : LoopIsTrue(r)
  BY DEF TreeInv, WhileOnce, LoopsAreTrue
<1>2. ASSUME NEW s \in Nodes, CancelSeen(s), NEW run PROVE Shows(s, run)
  BY <1>1, <1>2 DEF CancelSeen, Shows, MarksShow
<1>3. ASSUME NEW s \in Nodes, CancelSeen(s) PROVE Below(s) \subseteq ToldOnTheWay
  <2> DEFINE T == Below(s) \ ToldOnTheWay
  <2> SUFFICES ASSUME T # {} PROVE FALSE
    OBVIOUS
  <2>1. Below(s) \subseteq Made \ {Root} /\ Made \subseteq Nat
    BY DEF Below, Made, Nodes
  <2>2. PICK t \in T : \A y \in T : t <= y
    <3>1. T \in SUBSET Nat
      BY <2>1
    <3> HIDE DEF T
    <3> QED
      BY <3>1, LeastNat
  <2>3. PICK p : p = node[t].parent
    OBVIOUS
  <2>4. t \in Made \ {Root} /\ p \in Made /\ p < t /\ p \in Nat /\ t \in Nat
    BY <1>1, <2>1, <2>2, <2>3 DEF TasksAreBelow
  <2>5. p = s \/ (p # Root /\ p \in Below(s))
    BY <2>2, <2>3, <2>4, BelowIs
  <2>6. ~Shows(p, node[t].parentRun) /\ (p = Root \/ p \notin ToldOnTheWay)
    BY <2>2, <2>3, <2>4, ToldIs
  <2>7. p # s
    BY <1>2, <1>3, <2>6
  <2>8. p \in T
    BY <2>5, <2>6, <2>7
  <2> QED
    BY <2>2, <2>4, <2>8
<1>4. ASSUME NEW s \in Nodes, CancelSeen(s), NEW t \in Below(s), NEW r \in UnderWay(t)
      PROVE  Told(r)
  <2>1. t \in Made \ {Root} /\ t \in ToldOnTheWay
    BY <1>3, <1>4 DEF Below
  <2>2. r \in RunsOfTree /\ Active(r) /\ loop[r].of = t
    BY <1>4 DEF UnderWay, Active
  <2>3. loop[r].copy.parent = node[t].parent /\ loop[r].copy.parentRun = node[t].parentRun
    BY <1>1, <2>1, <2>2 DEF LoopIsTrue, SameTask, CopiesKnowTheCall
  <2>4. \/ Shows(node[t].parent, node[t].parentRun)
        \/ node[t].parent # Root /\ node[t].parent \in ToldOnTheWay
    BY <2>1, ToldIs
  <2> QED
    BY <2>1, <2>2, <2>3, <2>4 DEF Told, AncestorTold
<1>5. ASSUME NEW r \in RunsOfTree, loop[r].at = "call", Told(r), loop[loop[r].child].at = "step"
      PROVE  Told(loop[r].child)
  <2>1. PICK p, s : p = loop[r].child /\ s = loop[r].of
    OBVIOUS
  <2>2. p \in RunsOfTree /\ Active(p) /\ loop[p].via = "call" /\ loop[p].copy.parentRun = r
        /\ loop[p].copy.parent = s
    BY <1>5, <2>1 DEF TreeInv, CallersWait, WaitsForChild, Active
  <2>3. loop[p].of # Root
    BY <1>1, <2>2 DEF LoopIsTrue
  <2>4. s \in Made /\ Active(r) /\ SameTask(loop[r].copy, node[s])
    BY <1>1, <1>5, <2>1 DEF LoopIsTrue, Active
  <2>5. Shows(s, r) \/ (s # Root /\ s \in ToldOnTheWay)
    <3>1. CASE r \in deadTurns \/ cancelMark[s] = r
      BY <3>1 DEF Shows
    <3>2. CASE AncestorTold(s, loop[r].copy)
      <4>1. s # Root
        BY <3>2 DEF AncestorTold
      <4>2. loop[r].copy.parent = node[s].parent /\ loop[r].copy.parentRun = node[s].parentRun
        BY <1>1, <2>1, <2>4, <4>1 DEF SameTask, CopiesKnowTheCall
      <4>3. \/ Shows(node[s].parent, node[s].parentRun)
            \/ node[s].parent # Root /\ node[s].parent \in ToldOnTheWay
        BY <3>2, <4>2 DEF AncestorTold
      <4> QED
        BY <2>4, <4>1, <4>3, ToldIs
    <3> QED
      BY <1>5, <2>1, <3>1, <3>2 DEF Told
  <2>6. AncestorTold(loop[p].of, loop[p].copy)
    BY <2>2, <2>3, <2>5 DEF AncestorTold
  <2> QED
    BY <2>1, <2>6 DEF Told
<1> QED
  BY <1>4, <1>5 DEF CascadeReaches

LEMMA ShapeFollows == ASSUME TreeInv PROVE TreeKeepsShape
<1>1. ASSUME NEW c \in Made \ {Root}
      PROVE  /\ node[c].lineage = Append(node[node[c].parent].lineage, node[c].agent)
             /\ node[c].depth = Len(node[c].lineage) /\ node[c].depth <= MaxDepth
             /\ \A i, j \in DOMAIN node[c].lineage :
                  i # j => node[c].lineage[i] # node[c].lineage[j]
  BY DEF TreeInv, TasksAreBelow
<1>2. ASSUME NEW c \in Made \ {Root}, ~twice
      PROVE  /\ c \in runLock <=> \E r \in UnderWay(c) : loop[r].via \in {"call", "queue"}
             /\ node[c].status = "running" => c \in runLock
  <2>1. LocksAreHeld /\ LockOfLoop
    BY <1>2 DEF TreeInv, WhileOnce
  <2>2. ASSUME NEW r \in UnderWay(c), loop[r].via \in {"call", "queue"} PROVE c \in runLock
    BY <2>1, <2>2 DEF LockOfLoop, UnderWay, Active
  <2> QED
    BY <2>1, <2>2 DEF LocksAreHeld
<1>3. ASSUME NEW r \in RunsOfTree, loop[r].at = "call"
      PROVE  LET called == loop[loop[r].child] IN
               called.at # "rest" /\ called.via = "call" /\ called.copy.parentRun = r
  BY <1>3 DEF TreeInv, CallersWait, WaitsForChild
<1> QED
  BY <1>1, <1>2, <1>3 DEF TreeKeepsShape

\* Tasks form a tree of bounded depth in which no subagent is called below
\* itself, a lock stands for one loop, a caller waits for a run of its own
\* child, and a cancel is seen by every loop below before its next step.
THEOREM TreeStaysGoverned == TreeSpec => []TreeIsGoverned
<1>1. TreeInv => TreeIsGoverned
  BY CascadeFollows, ShapeFollows DEF TreeIsGoverned, CascadeReaches
<1> QED
  BY <1>1, TreeInvHolds, PTL
=============================================================================
