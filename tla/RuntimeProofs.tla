----------------------------- MODULE RuntimeProofs -----------------------------
(***************************************************************************)
(* Theorems about the parts of the runtime that turns and commands share.  *)
(***************************************************************************)
EXTENDS MCRuntime, OrdersProofs, FunctionTheorems, TLAPS

-----------------------------------------------------------------------------
(* The processes of local MCP servers.                                     *)

\* The states of a caller that has a process of its own.
Bringing == {"start", "register"}

Doings ==
  [op : {"none"}] \cup [op : {"read"}, s : Locals, v : Versions]
  \cup [op : Bringing, s : Locals, p : 1..MaxProcesses]
  \cup [op : {"turn"}, all : [Locals -> Versions \cup {0}]]

ProcessTyped ==
  /\ configured \in [Locals -> Versions \cup {0}]
  /\ registry \in [Locals -> 0..MaxProcesses]
  /\ process \in [1..MaxProcesses ->
                    [version : Versions \cup {0},
                     state : {"unused", "up", "exited", "closed", "dropped"}]]
  /\ doing \in [Callers -> Doings]
  /\ ranWith \subseteq Versions \X Versions

IsUp(p) == process[p].state \in {"up", "exited"}

\* A process that runs is a name's, or a caller's who brings it up.
RegisteredApart ==
  \A s \in Locals : registry[s] # 0 =>
    /\ IsUp(registry[s])
    /\ \A r \in Locals \ {s} : registry[r] # registry[s]
    /\ \A t \in Callers : doing[t].op \in Bringing => doing[t].p # registry[s]

BroughtApart ==
  \A t \in Callers : doing[t].op \in Bringing =>
    /\ IsUp(doing[t].p)
    /\ \A u \in Callers \ {t} : doing[u].op \in Bringing => doing[u].p # doing[t].p

RanAsWanted == \A pair \in ranWith : pair[1] = pair[2]

ProcessInv == ProcessTyped /\ RegisteredApart /\ BroughtApart /\ RanAsWanted

LEMMA DoingOf ==
  ASSUME ProcessTyped, NEW t \in Callers
  PROVE  /\ doing[t] \in Doings
         /\ doing[t].op \in {"none", "read", "turn"} \cup Bringing
         /\ doing[t].op = "read" =>
              doing[t] = [op |-> "read", s |-> doing[t].s, v |-> doing[t].v]
              /\ doing[t].s \in Locals /\ doing[t].v \in Versions
         /\ doing[t].op = "turn" => doing[t].all \in [Locals -> Versions \cup {0}]
         /\ doing[t].op \in Bringing =>
              doing[t] = [op |-> doing[t].op, s |-> doing[t].s, p |-> doing[t].p]
              /\ doing[t].s \in Locals /\ doing[t].p \in 1..MaxProcesses
<1>1. doing[t] \in Doings
  BY DEF ProcessTyped
<1>2. CASE doing[t] \in [op : {"none"}]
  BY <1>1, <1>2 DEF Bringing
<1>3. CASE doing[t] \in [op : {"read"}, s : Locals, v : Versions]
  BY <1>1, <1>3 DEF Bringing
<1>4. CASE doing[t] \in [op : Bringing, s : Locals, p : 1..MaxProcesses]
  BY <1>1, <1>4 DEF Bringing
<1>5. CASE doing[t] \in [op : {"turn"}, all : [Locals -> Versions \cup {0}]]
  BY <1>1, <1>5 DEF Bringing
<1> QED
  BY <1>1, <1>2, <1>3, <1>4, <1>5 DEF Doings

\* A caller goes on, and a name may lose its process.
LEMMA CallerGoes ==
  ASSUME ProcessInv, NEW t \in Callers, NEW d \in Doings, d.op \notin Bringing,
         doing' = doing \/ Goes(t, d),
         \/ UNCHANGED <<registry, process>>
         \/ \E s \in Locals : registry[s] # 0 /\ TakesOut(s)
  PROVE  /\ doing' \in [Callers -> Doings]
         /\ registry' \in [Locals -> 0..MaxProcesses]
         /\ process' \in [1..MaxProcesses ->
              [version : Versions \cup {0},
               state : {"unused", "up", "exited", "closed", "dropped"}]]
         /\ RegisteredApart' /\ BroughtApart'
<1>1. ProcessTyped
  BY DEF ProcessInv
<1>2. /\ doing' \in [Callers -> Doings]
      /\ \A u \in Callers : doing'[u].op \in Bringing => doing'[u] = doing[u]
  BY <1>1 DEF Goes, ProcessTyped
<1>3. \A u \in Callers : doing[u].op \in Bringing => doing[u].p \in 1..MaxProcesses
  BY <1>1, DoingOf
<1>4. CASE UNCHANGED <<registry, process>>
  BY <1>1, <1>2, <1>4 DEF ProcessInv, ProcessTyped, RegisteredApart, BroughtApart, IsUp
<1>5. ASSUME NEW s \in Locals, registry[s] # 0, TakesOut(s)
      PROVE  /\ registry' \in [Locals -> 0..MaxProcesses]
             /\ process' \in [1..MaxProcesses ->
                  [version : Versions \cup {0},
                   state : {"unused", "up", "exited", "closed", "dropped"}]]
             /\ RegisteredApart' /\ BroughtApart'
  <2>1. registry[s] \in 1..MaxProcesses
    BY <1>1, <1>5, ProcessAssumption DEF ProcessTyped
  <2>2. /\ registry' \in [Locals -> 0..MaxProcesses] /\ registry'[s] = 0
        /\ \A r \in Locals \ {s} : registry'[r] = registry[r]
    BY <1>1, <1>5, ProcessAssumption DEF ProcessTyped, TakesOut
  <2>3. /\ process' \in [1..MaxProcesses ->
              [version : Versions \cup {0},
               state : {"unused", "up", "exited", "closed", "dropped"}]]
        /\ \A p \in 1..MaxProcesses : p # registry[s] => process'[p] = process[p]
    BY <1>1, <1>5, <2>1 DEF ProcessTyped, TakesOut, Closed
  <2>4. \A r \in Locals : registry'[r] # 0 =>
          registry'[r] = registry[r] /\ registry[r] \in 1..MaxProcesses /\ registry[r] # registry[s]
    BY <1>1, <1>5, <2>2, ProcessAssumption DEF ProcessInv, RegisteredApart, ProcessTyped
  <2>5. RegisteredApart'
    BY <1>2, <2>2, <2>3, <2>4 DEF ProcessInv, RegisteredApart, IsUp
  <2>6. BroughtApart'
    BY <1>2, <1>3, <1>5, <2>3 DEF ProcessInv, RegisteredApart, BroughtApart, IsUp
  <2> QED
    BY <2>2, <2>3, <2>5, <2>6
<1> QED
  BY <1>2, <1>4, <1>5

\* A caller starts a process and brings it up, or closes it again.
LEMMA ServerStarts ==
  ASSUME ProcessInv, NEW t \in Callers, StartsServer(t)
  PROVE  ProcessInv'
<1> SUFFICES ASSUME NEW n, n = Spawned PROVE ProcessInv'
  OBVIOUS
<1>1. ProcessTyped
  BY DEF ProcessInv
<1>2. n \in 1..MaxProcesses /\ process[n].state = "unused"
  BY DEF StartsServer, CanSpawn, Spawned
<1>3. doing[t].s \in Locals /\ doing[t].v \in Versions
  BY <1>1, DoingOf DEF StartsServer
<1>4. /\ doing' \in [Callers -> Doings]
      /\ doing'[t] = [op |-> "start", s |-> doing[t].s, p |-> n]
      /\ \A u \in Callers \ {t} : doing'[u] = doing[u]
  BY <1>1, <1>2, <1>3 DEF StartsServer, Goes, ProcessTyped, Doings, Bringing
<1>5. /\ process' \in [1..MaxProcesses ->
            [version : Versions \cup {0},
             state : {"unused", "up", "exited", "closed", "dropped"}]]
      /\ process'[n].state = "up"
      /\ \A p \in 1..MaxProcesses : p # n => process'[p] = process[p]
  BY <1>1, <1>2, <1>3 DEF StartsServer, ProcessTyped
<1>6. configured' = configured /\ registry' = registry /\ ranWith' = ranWith
  BY DEF StartsServer
<1>7. \A s \in Locals : registry[s] # 0 => registry[s] \in 1..MaxProcesses /\ registry[s] # n
  BY <1>1, <1>2, ProcessAssumption DEF ProcessInv, RegisteredApart, IsUp, ProcessTyped
<1>8. \A u \in Callers : doing[u].op \in Bringing =>
        doing[u].p \in 1..MaxProcesses /\ doing[u].p # n
  BY <1>1, <1>2, DoingOf DEF ProcessInv, BroughtApart, IsUp
<1>9. RegisteredApart'
  BY <1>4, <1>5, <1>6, <1>7 DEF ProcessInv, RegisteredApart, IsUp
<1>10. BroughtApart'
  BY <1>4, <1>5, <1>8 DEF ProcessInv, BroughtApart, IsUp
<1> QED
  BY <1>1, <1>4, <1>5, <1>6, <1>9, <1>10 DEF ProcessInv, ProcessTyped, RanAsWanted

LEMMA ServerInitializes ==
  ASSUME ProcessInv, NEW t \in Callers, Initializes(t)
  PROVE  ProcessInv'
<1> SUFFICES ASSUME NEW s, s = doing[t].s, NEW p, p = doing[t].p PROVE ProcessInv'
  OBVIOUS
<1>1. ProcessTyped /\ doing[t].op = "start"
  BY DEF ProcessInv, Initializes
<1>2. /\ s \in Locals /\ p \in 1..MaxProcesses
      /\ doing[t] = [op |-> "start", s |-> s, p |-> p]
  BY <1>1, DoingOf DEF Bringing
<1>3. configured' = configured /\ ranWith' = ranWith
  BY DEF Initializes
<1>4. /\ \A r \in Locals : registry[r] # 0 => registry[r] \in 1..MaxProcesses /\ registry[r] # p
      /\ \A u \in Callers \ {t} : doing[u].op \in Bringing =>
           doing[u].p \in 1..MaxProcesses /\ doing[u].p # p
  BY <1>1, DoingOf, ProcessAssumption
  DEF ProcessInv, RegisteredApart, BroughtApart, ProcessTyped, Bringing
<1>5. CASE /\ Alive(p) /\ registry' = [registry EXCEPT ![s] = 0]
           /\ process' = IF registry[s] = 0 THEN process ELSE Closed(registry[s])
           /\ Goes(t, [doing[t] EXCEPT !.op = "register"])
  <2>1. /\ doing' \in [Callers -> Doings]
        /\ doing'[t] = [op |-> "register", s |-> s, p |-> p]
        /\ \A u \in Callers \ {t} : doing'[u] = doing[u]
    <3>1. [doing[t] EXCEPT !.op = "register"] = [op |-> "register", s |-> s, p |-> p]
      BY <1>2
    <3> QED
      BY <1>1, <1>2, <1>5, <3>1 DEF Goes, ProcessTyped, Doings, Bringing
  <2>2. /\ registry' \in [Locals -> 0..MaxProcesses] /\ registry'[s] = 0
        /\ \A r \in Locals \ {s} : registry'[r] = registry[r]
    BY <1>1, <1>2, <1>5, ProcessAssumption DEF ProcessTyped
  <2>3. /\ process' \in [1..MaxProcesses ->
              [version : Versions \cup {0},
               state : {"unused", "up", "exited", "closed", "dropped"}]]
        /\ \A q \in 1..MaxProcesses : q # registry[s] => process'[q] = process[q]
    BY <1>1, <1>2, <1>4, <1>5 DEF ProcessTyped, Closed
  <2>4. \A r \in Locals : registry'[r] # 0 =>
          registry'[r] = registry[r] /\ registry[r] \in 1..MaxProcesses /\ registry[r] # registry[s]
    BY <1>2, <1>4, <2>2 DEF ProcessInv, RegisteredApart
  <2>5. RegisteredApart'
    BY <1>2, <1>4, <2>1, <2>2, <2>3, <2>4 DEF ProcessInv, RegisteredApart, IsUp
  <2>6. \A u \in Callers : doing[u].op \in Bringing =>
          doing[u].p \in 1..MaxProcesses /\ doing[u].p # registry[s]
    BY <1>1, <1>2, <1>4, DoingOf, ProcessAssumption DEF ProcessInv, RegisteredApart
  <2>7. \A u \in Callers : doing'[u].op \in Bringing =>
          doing[u].op \in Bringing /\ doing'[u].p = doing[u].p
    <3>1. doing[t].op \in Bringing /\ doing'[t].p = doing[t].p
      BY <1>1, <2>1 DEF Bringing
    <3> QED
      BY <2>1, <3>1
  <2>8. BroughtApart'
    BY <2>3, <2>6, <2>7 DEF ProcessInv, BroughtApart, IsUp
  <2> QED
    BY <1>1, <1>3, <2>1, <2>2, <2>3, <2>5, <2>8 DEF ProcessInv, ProcessTyped, RanAsWanted
<1>6. CASE process' = Closed(p) /\ Goes(t, NoProcessCall) /\ UNCHANGED registry
  <2>1. /\ doing' \in [Callers -> Doings] /\ doing'[t].op = "none"
        /\ \A u \in Callers \ {t} : doing'[u] = doing[u]
    BY <1>1, <1>6 DEF Goes, ProcessTyped, Doings, NoProcessCall
  <2>2. /\ process' \in [1..MaxProcesses ->
              [version : Versions \cup {0},
               state : {"unused", "up", "exited", "closed", "dropped"}]]
        /\ \A q \in 1..MaxProcesses : q # p => process'[q] = process[q]
    BY <1>1, <1>2, <1>6 DEF ProcessTyped, Closed
  <2>3. RegisteredApart'
    BY <1>4, <1>6, <2>1, <2>2 DEF ProcessInv, RegisteredApart, IsUp, Bringing
  <2>4. BroughtApart'
    BY <1>4, <2>1, <2>2 DEF ProcessInv, BroughtApart, IsUp, Bringing
  <2> QED
    BY <1>1, <1>3, <1>6, <2>1, <2>2, <2>3, <2>4 DEF ProcessInv, ProcessTyped, RanAsWanted
<1> QED
  BY <1>5, <1>6 DEF Initializes

\* It is registered; what another start has registered meanwhile is dropped.
LEMMA ServerRegisters ==
  ASSUME ProcessInv, NEW t \in Callers, Registers(t)
  PROVE  ProcessInv'
<1> SUFFICES ASSUME NEW s, s = doing[t].s, NEW p, p = doing[t].p PROVE ProcessInv'
  OBVIOUS
<1>1. ProcessTyped /\ doing[t].op = "register"
  BY DEF ProcessInv, Registers
<1>2. /\ s \in Locals /\ p \in 1..MaxProcesses
  BY <1>1, DoingOf DEF Bringing
<1>3. configured' = configured /\ ranWith' = ranWith
  BY DEF Registers
<1>4. /\ \A r \in Locals : registry[r] # 0 => registry[r] \in 1..MaxProcesses /\ registry[r] # p
      /\ \A u \in Callers \ {t} : doing[u].op \in Bringing =>
           doing[u].p \in 1..MaxProcesses /\ doing[u].p # p
      /\ IsUp(p)
  BY <1>1, DoingOf, ProcessAssumption
  DEF ProcessInv, RegisteredApart, BroughtApart, ProcessTyped, Bringing
<1>5. /\ doing' \in [Callers -> Doings] /\ doing'[t].op = "none"
      /\ \A u \in Callers \ {t} : doing'[u] = doing[u]
  BY <1>1 DEF Registers, Goes, ProcessTyped, Doings, NoProcessCall
<1>6. /\ registry' \in [Locals -> 0..MaxProcesses] /\ registry'[s] = p
      /\ \A r \in Locals \ {s} : registry'[r] = registry[r]
  BY <1>1, <1>2 DEF Registers, ProcessTyped
<1>7. /\ process' \in [1..MaxProcesses ->
            [version : Versions \cup {0},
             state : {"unused", "up", "exited", "closed", "dropped"}]]
      /\ \A q \in 1..MaxProcesses : q # registry[s] => process'[q] = process[q]
  BY <1>1, <1>2, <1>4 DEF Registers, ProcessTyped
<1>8. \A u \in Callers : doing[u].op \in Bringing =>
        doing[u].p \in 1..MaxProcesses /\ doing[u].p # registry[s]
  BY <1>1, <1>2, <1>4, DoingOf, ProcessAssumption DEF ProcessInv, RegisteredApart
<1>9. RegisteredApart'
  <2>1. \A r \in Locals \ {s} : registry[r] # 0 => registry[r] # registry[s]
    BY <1>2 DEF ProcessInv, RegisteredApart
  <2>2. \A u \in Callers : doing'[u].op \in Bringing => u # t /\ doing'[u] = doing[u]
    BY <1>5 DEF Bringing
  <2>3. \A r \in Locals : registry'[r] # 0 =>
          IsUp(registry'[r]) /\ registry'[r] # registry[s] /\ registry'[r] \in 1..MaxProcesses
    BY <1>2, <1>4, <1>6, <2>1 DEF ProcessInv, RegisteredApart
  <2>4. \A r \in Locals : registry'[r] # 0 => process'[registry'[r]] = process[registry'[r]]
    BY <1>7, <2>3
  <2> QED
    BY <1>2, <1>4, <1>6, <2>2, <2>3, <2>4 DEF ProcessInv, RegisteredApart, IsUp
<1>10. BroughtApart'
  BY <1>4, <1>5, <1>7, <1>8 DEF ProcessInv, BroughtApart, IsUp, Bringing
<1> QED
  BY <1>1, <1>3, <1>5, <1>6, <1>7, <1>9, <1>10 DEF ProcessInv, ProcessTyped, RanAsWanted

LEMMA ProcessExits ==
  ASSUME ProcessInv, NEW p \in 1..MaxProcesses, Exits(p)
  PROVE  ProcessInv'
<1>1. ProcessTyped /\ process[p].state = "up"
  BY DEF ProcessInv, Exits, Alive
<1>2. /\ process' \in [1..MaxProcesses ->
            [version : Versions \cup {0},
             state : {"unused", "up", "exited", "closed", "dropped"}]]
      /\ \A q \in 1..MaxProcesses : IsUp(q) => IsUp(q)'
  BY <1>1 DEF Exits, ProcessTyped, IsUp
<1>3. /\ configured' = configured /\ registry' = registry /\ doing' = doing
      /\ ranWith' = ranWith
  BY DEF Exits
<1>4. \A s \in Locals : registry[s] # 0 => registry[s] \in 1..MaxProcesses
  BY <1>1, ProcessAssumption DEF ProcessTyped
<1>5. \A u \in Callers : doing[u].op \in Bringing => doing[u].p \in 1..MaxProcesses
  BY <1>1, DoingOf
<1>6. RegisteredApart'
  <2>1. \A s \in Locals : registry[s] # 0 => IsUp(registry[s])'
    BY <1>2, <1>3, <1>4 DEF ProcessInv, RegisteredApart, IsUp
  <2> QED
    BY <1>3, <2>1 DEF ProcessInv, RegisteredApart, IsUp
<1>7. BroughtApart'
  <2>1. \A u \in Callers : doing[u].op \in Bringing => IsUp(doing[u].p)'
    BY <1>2, <1>3, <1>5 DEF ProcessInv, BroughtApart, IsUp
  <2> QED
    BY <1>3, <2>1 DEF ProcessInv, BroughtApart, IsUp
<1> QED
  BY <1>1, <1>2, <1>3, <1>6, <1>7 DEF ProcessInv, ProcessTyped, RanAsWanted

\* The other actions of a caller, and the file that is edited.
LEMMA CallersGoOn ==
  ASSUME ProcessInv, NEW t \in Callers, NEW s,
         \/ s \in Locals /\ (ReadsServer(t, s) \/ RefreshesForTurn(t, s) \/ CallsRegistered(t, s))
         \/ s \in Locals /\ (RefusesRegistered(t, s) \/ LosesRegistered(t, s) \/ CallsAlone(t, s))
         \/ ListsServers(t) \/ RefreshesServer(t) \/ StopsServer(t)
         \/ BeginsTurn(t) \/ EndsTurn(t)
  PROVE  ProcessInv'
<1>1. ProcessTyped /\ configured' = configured
  BY DEF ProcessInv, ReadsServer, RefreshesForTurn, CallsRegistered, RefusesRegistered,
         LosesRegistered, CallsAlone, ListsServers, RefreshesServer, StopsServer,
         BeginsTurn, EndsTurn
<1>2. /\ doing[t].op = "read" =>
           /\ doing[t] = [op |-> "read", s |-> doing[t].s, v |-> doing[t].v]
           /\ doing[t].s \in Locals /\ doing[t].v \in Versions
      /\ doing[t].op = "turn" => doing[t].all \in [Locals -> Versions \cup {0}]
  BY <1>1, DoingOf
<1>3. NoProcessCall \in Doings /\ NoProcessCall.op \notin Bringing
  BY DEF NoProcessCall, Doings, Bringing
<1>4. \E d \in Doings : d.op \notin Bringing /\ (doing' = doing \/ Goes(t, d))
  <2>1. CASE s \in Locals /\ ReadsServer(t, s)
    <3> DEFINE d == [op |-> "read", s |-> s, v |-> configured[s]]
    <3>1. d \in Doings /\ d.op \notin Bringing
      BY <1>1, <2>1 DEF ReadsServer, ProcessTyped, Doings, Bringing
    <3> QED
      BY <2>1, <3>1 DEF ReadsServer
  <2>2. CASE BeginsTurn(t)
    <3> DEFINE d == [op |-> "turn", all |-> configured]
    <3>1. d \in Doings /\ d.op \notin Bringing
      BY <1>1 DEF ProcessTyped, Doings, Bringing
    <3> QED
      BY <2>2, <3>1 DEF BeginsTurn
  <2>3. CASE StopsServer(t)
    <3>1. CASE Goes(t, NoProcessCall)
      BY <1>3, <3>1
    <3>2. CASE /\ configured[doing[t].s] # 0
               /\ Goes(t, [doing[t] EXCEPT !.v = configured[doing[t].s]])
      <4> DEFINE d == [op |-> "read", s |-> doing[t].s, v |-> configured[doing[t].s]]
      <4>1. d = [doing[t] EXCEPT !.v = configured[doing[t].s]]
        BY <1>2, <2>3 DEF StopsServer
      <4>2. d \in Doings /\ d.op \notin Bringing
        BY <1>1, <1>2, <2>3, <3>2 DEF StopsServer, ProcessTyped, Doings, Bringing
      <4> QED
        BY <3>2, <4>1, <4>2
    <3> QED
      BY <2>3, <3>1, <3>2 DEF StopsServer
  <2>4. CASE ListsServers(t) \/ RefreshesServer(t) \/ EndsTurn(t)
    BY <1>3, <2>4 DEF ListsServers, RefreshesServer, EndsTurn
  <2>5. CASE \/ RefreshesForTurn(t, s) \/ CallsRegistered(t, s) \/ RefusesRegistered(t, s)
             \/ LosesRegistered(t, s) \/ CallsAlone(t, s)
    BY <1>3, <2>5 DEF RefreshesForTurn, CallsRegistered, RefusesRegistered,
                      LosesRegistered, CallsAlone
  <2> QED
    BY <2>1, <2>2, <2>3, <2>4, <2>5
<1>5. \/ UNCHANGED <<registry, process>>
      \/ \E r \in Locals : registry[r] # 0 /\ TakesOut(r)
  <2>1. CASE ListsServers(t) \/ RefreshesServer(t) \/ StopsServer(t)
    BY <1>2, <2>1 DEF ListsServers, RefreshesServer, StopsServer, Refreshes
  <2>2. CASE \/ ReadsServer(t, s) \/ CallsRegistered(t, s) \/ CallsAlone(t, s)
             \/ BeginsTurn(t) \/ EndsTurn(t)
    BY <2>2 DEF ReadsServer, CallsRegistered, CallsAlone, BeginsTurn, EndsTurn
  <2>3. CASE /\ s \in Locals
             /\ RefreshesForTurn(t, s) \/ RefusesRegistered(t, s) \/ LosesRegistered(t, s)
    BY <2>3 DEF RefreshesForTurn, RefusesRegistered, LosesRegistered, Refreshes
  <2> QED
    BY <2>1, <2>2, <2>3
<1>6. ranWith' \subseteq Versions \X Versions /\ RanAsWanted'
  <2>1. CASE s \in Locals /\ (CallsRegistered(t, s) \/ CallsAlone(t, s))
    <3>1. /\ doing[t].all[s] \in Versions
          /\ ranWith' = ranWith \cup {<<doing[t].all[s], doing[t].all[s]>>}
      BY <1>2, <2>1 DEF CallsRegistered, CallsAlone, Calls, Fits, SameVersion
    <3> QED
      BY <3>1 DEF ProcessInv, ProcessTyped, RanAsWanted
  <2>2. CASE ~(s \in Locals /\ (CallsRegistered(t, s) \/ CallsAlone(t, s)))
    <3>1. ranWith' = ranWith
      BY <2>2 DEF ReadsServer, RefreshesForTurn, RefusesRegistered, LosesRegistered,
                  ListsServers, RefreshesServer, StopsServer, BeginsTurn, EndsTurn
    <3> QED
      BY <3>1 DEF ProcessInv, ProcessTyped, RanAsWanted
  <2> QED
    BY <2>1, <2>2
<1>7. /\ doing' \in [Callers -> Doings]
      /\ registry' \in [Locals -> 0..MaxProcesses]
      /\ process' \in [1..MaxProcesses ->
           [version : Versions \cup {0},
            state : {"unused", "up", "exited", "closed", "dropped"}]]
      /\ RegisteredApart' /\ BroughtApart'
  BY <1>4, <1>5, CallerGoes
<1> QED
  BY <1>1, <1>6, <1>7 DEF ProcessInv, ProcessTyped

LEMMA ProcessSteps == ProcessInv /\ [ProcessNext]_processVars => ProcessInv'
<1> SUFFICES ASSUME ProcessInv, [ProcessNext]_processVars PROVE ProcessInv'
  OBVIOUS
<1>1. ASSUME NEW s \in Locals, Configures(s) PROVE ProcessInv'
  <2>1. configured' \in [Locals -> Versions \cup {0}]
    BY <1>1 DEF Configures, ProcessInv, ProcessTyped
  <2> QED
    BY <1>1, <2>1 DEF Configures, ProcessInv, ProcessTyped, RegisteredApart, BroughtApart,
                      IsUp, RanAsWanted
<1>2. CASE UNCHANGED processVars
  BY <1>2 DEF processVars, ProcessInv, ProcessTyped, RegisteredApart, BroughtApart,
              IsUp, RanAsWanted
<1> QED
  BY <1>1, <1>2, CallersGoOn, ServerStarts, ServerInitializes, ServerRegisters,
     ProcessExits DEF ProcessNext

LEMMA ProcessStarts == ProcessInit => ProcessInv
<1> SUFFICES ASSUME ProcessInit PROVE ProcessInv
  OBVIOUS
<1>1. ProcessTyped
  BY ProcessAssumption DEF ProcessInit, ProcessTyped, Doings, NoProcessCall
<1> QED
  BY <1>1 DEF ProcessInit, ProcessInv, RegisteredApart, BroughtApart, RanAsWanted,
              NoProcessCall, Bringing

\* For any number of local servers, configurations, callers and processes: the
\* registry names processes that were started, and callers are where the code
\* can be.
THEOREM ProcessTypeCorrect == ProcessSpec => []ProcessTypeOK
<1>1. ProcessInv => ProcessTypeOK
  BY DoingOf DEF ProcessInv, ProcessTyped, ProcessTypeOK, Bringing
<1> QED
  BY <1>1, ProcessStarts, ProcessSteps, PTL DEF ProcessSpec

\* However starts, stops, refreshes, calls, edits of mcp.json and exits of
\* processes follow each other, and although a start gives the registry's lock
\* back while its process comes up: a call is run by a process of the
\* configuration its turn has read, and a registered process has one owner,
\* which nobody closed while it was registered.
THEOREM CallsAreRunAsConfigured == ProcessSpec => []CallsRunAsConfigured
<1>1. ProcessInv => CallsRunAsConfigured
  BY DEF ProcessInv, RegisteredApart, RanAsWanted, CallsRunAsConfigured, IsUp, Bringing
<1> QED
  BY <1>1, ProcessStarts, ProcessSteps, PTL DEF ProcessSpec

-----------------------------------------------------------------------------
(* The credentials of remote MCP servers.                                  *)

CredentialRecords == [url : Urls \cup {0}, access : 0..MaxTokens, pending : 0..MaxLogins]

Jobs ==
  [op : {"none"}] \cup [op : {"edit", "turn"}, all : [Remotes -> Urls \cup {0}]]
  \cup [op : {"forget"}, s : Remotes] \cup [op : {"discover"}, s : Remotes, url : Urls]
  \cup [op : {"login"}, s : Remotes, url : Urls, old : CredentialRecords]
  \cup [op : {"exchange", "renew"}, s : Remotes, old : CredentialRecords]

McpTyped ==
  /\ config \in [Remotes -> Urls \cup {0}]
  /\ credential \in [Remotes -> CredentialRecords]
  /\ job \in [Threads -> Jobs]
  /\ token \in [1..MaxTokens -> Urls \cup {0}]
  /\ logins \in 0..MaxLogins
  /\ presented \subseteq (1..MaxTokens) \X Urls

\* The token of a credential was issued for the credential's URL.
Sound(c) ==
  /\ c.access # 0 => c.url # 0 /\ token[c.access] = c.url
  /\ c.pending # 0 => c.url # 0

\* So is the token of every copy a request works on, whatever was written
\* over the credential since.
CopySound(j) ==
  /\ j.op = "login" => Sound(j.old) /\ (j.old.access # 0 => j.old.url = j.url)
  /\ j.op \in {"exchange", "renew"} => Sound(j.old) /\ j.old.url # 0

McpInv ==
  /\ McpTyped
  /\ \A s \in Remotes : Sound(credential[s])
  /\ \A t \in Threads : CopySound(job[t])
  /\ TokensGoHome

LEMMA JobOf ==
  ASSUME McpTyped, NEW t \in Threads
  PROVE  /\ job[t] \in Jobs
         /\ job[t].op \in {"edit", "turn"} => job[t].all \in [Remotes -> Urls \cup {0}]
         /\ job[t].op \in {"forget", "discover", "login", "exchange", "renew"} =>
              job[t].s \in Remotes
         /\ job[t].op \in {"discover", "login"} => job[t].url \in Urls
         /\ job[t].op \in {"login", "exchange", "renew"} => job[t].old \in CredentialRecords
<1>1. job[t] \in Jobs
  BY DEF McpTyped
<1>2. CASE job[t] \in [op : {"none"}]
  BY <1>1, <1>2
<1>3. CASE job[t] \in [op : {"edit", "turn"}, all : [Remotes -> Urls \cup {0}]]
  BY <1>1, <1>3
<1>4. CASE job[t] \in [op : {"forget"}, s : Remotes]
  BY <1>1, <1>4
<1>5. CASE job[t] \in [op : {"discover"}, s : Remotes, url : Urls]
  BY <1>1, <1>5
<1>6. CASE job[t] \in [op : {"login"}, s : Remotes, url : Urls, old : CredentialRecords]
  BY <1>1, <1>6
<1>7. CASE job[t] \in [op : {"exchange", "renew"}, s : Remotes, old : CredentialRecords]
  BY <1>1, <1>7
<1> QED
  BY <1>1, <1>2, <1>3, <1>4, <1>5, <1>6, <1>7 DEF Jobs

\* A request goes on with a sound copy; at most one credential is written, to
\* a sound one, and no token is issued.
LEMMA RequestGoesOn ==
  ASSUME McpInv, NEW t \in Threads, NEW j \in Jobs, CopySound(j), Becomes(t, j),
         config' \in [Remotes -> Urls \cup {0}], logins' \in 0..MaxLogins, token' = token,
         \/ credential' = credential
         \/ \E s \in Remotes, c \in CredentialRecords :
              Sound(c) /\ credential' = [credential EXCEPT ![s] = c],
         presented' = presented
  PROVE  McpInv'
<1>1. McpTyped
  BY DEF McpInv
<1>2. job' \in [Threads -> Jobs] /\ \A u \in Threads : CopySound(job'[u])
  BY <1>1 DEF McpInv, McpTyped, Becomes
<1>3. credential' \in [Remotes -> CredentialRecords] /\ \A s \in Remotes : Sound(credential'[s])
  BY <1>1 DEF McpInv, McpTyped
<1>4. /\ \A s \in Remotes : Sound(credential[s])'
      /\ \A u \in Threads : CopySound(job[u])'
  BY <1>2, <1>3 DEF Sound, CopySound
<1> QED
  BY <1>1, <1>2, <1>3, <1>4 DEF McpInv, McpTyped, TokensGoHome

\* A token that is issued was nobody's before.
LEMMA TokenIsStored ==
  ASSUME McpInv, NEW t \in Threads, StoresToken(t)
  PROVE  McpInv'
<1> SUFFICES ASSUME NEW s, s = job[t].s, NEW c, c = job[t].old PROVE McpInv'
  OBVIOUS
<1>1. McpTyped /\ s \in Remotes /\ c \in CredentialRecords /\ Sound(c) /\ c.url # 0
  BY JobOf DEF McpInv, StoresToken, CopySound
<1>2. PICK n \in 1..MaxTokens :
        /\ token[n] = 0 /\ token' = [token EXCEPT ![n] = c.url]
        /\ credential' = [credential EXCEPT ![s] =
                            [url |-> c.url, access |-> n, pending |-> 0]]
  BY DEF StoresToken
<1>3. /\ config' = config /\ logins' = logins /\ presented' = presented
      /\ job' = [job EXCEPT ![t] = NoJob]
  BY DEF StoresToken, Done, Becomes
<1>4. /\ token' \in [1..MaxTokens -> Urls \cup {0}] /\ token'[n] = c.url
      /\ \A k \in 1..MaxTokens : token[k] # 0 => token'[k] = token[k]
  BY <1>1, <1>2 DEF McpTyped, CredentialRecords
<1>5. ASSUME NEW d \in CredentialRecords, Sound(d) PROVE Sound(d)'
  BY <1>4, <1>5, CredentialAssumption DEF Sound, CredentialRecords
<1>6. /\ job' \in [Threads -> Jobs]
      /\ \A u \in Threads : job'[u] = IF u = t THEN NoJob ELSE job[u]
  BY <1>1, <1>3 DEF McpTyped, Jobs, NoJob
<1>7. \A u \in Threads : CopySound(job[u])'
  <2> SUFFICES ASSUME NEW u \in Threads PROVE CopySound(job[u])'
    OBVIOUS
  <2>1. CASE u = t
    BY <1>6, <2>1 DEF CopySound, NoJob
  <2>2. CASE u # t
    <3>1. job'[u] = job[u] /\ CopySound(job[u])
      BY <1>6, <2>2 DEF McpInv
    <3>2. job[u].op \in {"login", "exchange", "renew"} => job[u].old \in CredentialRecords
      BY <1>1, JobOf
    <3> QED
      BY <1>5, <3>1, <3>2 DEF CopySound, Sound
  <2> QED
    BY <2>1, <2>2
<1>8. DEFINE e == [url |-> c.url, access |-> n, pending |-> 0]
<1>9. /\ e \in CredentialRecords /\ Sound(e)'
      /\ credential' \in [Remotes -> CredentialRecords] /\ credential'[s] = e
      /\ \A r \in Remotes \ {s} : credential'[r] = credential[r]
  <2>1. e \in CredentialRecords
    BY <1>1, CredentialAssumption DEF CredentialRecords
  <2> QED
    BY <1>1, <1>2, <1>4, <2>1 DEF McpTyped, Sound
<1>10. \A r \in Remotes : Sound(credential[r])'
  <2>1. \A r \in Remotes : Sound(credential[r]) /\ credential[r] \in CredentialRecords
    BY <1>1 DEF McpInv, McpTyped
  <2> QED
    BY <1>5, <1>9, <2>1 DEF Sound
<1>11. TokensGoHome'
  BY <1>1, <1>3, <1>4, CredentialAssumption DEF McpInv, McpTyped, TokensGoHome
<1> QED
  BY <1>1, <1>3, <1>4, <1>6, <1>7, <1>9, <1>10, <1>11 DEF McpInv, McpTyped

LEMMA McpSteps == McpInv /\ [McpNext]_mcpVars => McpInv'
<1> SUFFICES ASSUME McpInv, [McpNext]_mcpVars PROVE McpInv'
  OBVIOUS
<1>1. McpTyped /\ NoCredential \in CredentialRecords /\ Sound(NoCredential)
  BY CredentialAssumption DEF McpInv, NoCredential, CredentialRecords, Sound
<1>2. NoJob \in Jobs /\ CopySound(NoJob)
  BY DEF NoJob, Jobs, CopySound
<1>3. ASSUME NEW t \in Threads, NEW j \in Jobs, CopySound(j), Becomes(t, j),
             UNCHANGED <<config, credential, token, logins, presented>>
      PROVE  McpInv'
  BY <1>1, <1>3, RequestGoesOn DEF McpTyped
<1>4. ASSUME NEW t \in Threads, NEW s \in Remotes, NEW c \in CredentialRecords, Sound(c),
             credential' = [credential EXCEPT ![s] = c], Done(t),
             UNCHANGED <<config, token, presented>>, logins' \in 0..MaxLogins
      PROVE  McpInv'
  BY <1>1, <1>2, <1>4, RequestGoesOn DEF McpTyped, Done
<1>5. ASSUME NEW t \in Threads, ReadsConfig(t) \/ StartsTurn(t) PROVE McpInv'
  <2>1. PICK op \in {"edit", "turn"} :
          /\ Becomes(t, [op |-> op, all |-> config])
          /\ UNCHANGED <<config, credential, token, logins, presented>>
    BY <1>5 DEF ReadsConfig, StartsTurn
  <2>2. [op |-> op, all |-> config] \in Jobs /\ CopySound([op |-> op, all |-> config])
    BY <1>1 DEF McpTyped, Jobs, CopySound
  <2> QED
    BY <1>3, <2>1, <2>2
<1>6. ASSUME NEW t \in Threads, WritesConfig(t) PROVE McpInv'
  <2>1. job[t].all \in [Remotes -> Urls \cup {0}]
    BY <1>1, <1>6, JobOf DEF WritesConfig, Doing
  <2>2. config' \in [Remotes -> Urls \cup {0}]
    BY <1>6, <2>1 DEF WritesConfig
  <2> QED
    BY <1>1, <1>2, <1>6, <2>2, RequestGoesOn DEF WritesConfig, Done, McpTyped
<1>7. ASSUME NEW t \in Threads, DeletesServer(t) PROVE McpInv'
  <2>1. job[t].all \in [Remotes -> Urls \cup {0}]
    BY <1>1, <1>7, JobOf DEF DeletesServer, Doing
  <2>2. PICK s \in Remotes :
          /\ config' = [job[t].all EXCEPT ![s] = 0]
          /\ Becomes(t, [op |-> "forget", s |-> s])
    BY <1>7 DEF DeletesServer
  <2>3. /\ config' \in [Remotes -> Urls \cup {0}]
        /\ [op |-> "forget", s |-> s] \in Jobs /\ CopySound([op |-> "forget", s |-> s])
    BY <2>1, <2>2 DEF Jobs, CopySound
  <2> QED
    BY <1>1, <1>7, <2>2, <2>3, RequestGoesOn DEF DeletesServer, McpTyped
<1>8. ASSUME NEW t \in Threads, ForgetsCredential(t) PROVE McpInv'
  <2>1. job[t].s \in Remotes
    BY <1>1, <1>8, JobOf DEF ForgetsCredential, Doing
  <2> QED
    BY <1>1, <1>4, <1>8, <2>1 DEF ForgetsCredential, McpTyped
<1>9. ASSUME NEW t \in Threads, NEW s \in Remotes, StartsLogin(t, s) PROVE McpInv'
  <2> DEFINE j == [op |-> "discover", s |-> s, url |-> config[s]]
  <2>1. j \in Jobs /\ CopySound(j)
    BY <1>1, <1>9 DEF StartsLogin, McpTyped, Jobs, CopySound
  <2> QED
    BY <1>3, <1>9, <2>1 DEF StartsLogin
<1>10. ASSUME NEW t \in Threads, LooksUpClient(t) PROVE McpInv'
  <2>1. job[t].s \in Remotes /\ job[t].url \in Urls
    BY <1>1, <1>10, JobOf DEF LooksUpClient, Doing
  <2> DEFINE old == Existing(job[t].s, job[t].url)
             j == [op |-> "login", s |-> job[t].s, url |-> job[t].url, old |-> old]
  <2>2. /\ old \in CredentialRecords /\ Sound(old)
        /\ old.access # 0 => old.url = job[t].url
    BY <1>1, <2>1 DEF McpInv, McpTyped, Existing, NoCredential
  <2> HIDE DEF old
  <2>3. j \in Jobs /\ CopySound(j)
    BY <2>1, <2>2 DEF Jobs, CopySound
  <2> QED
    BY <1>3, <1>10, <2>3 DEF LooksUpClient, old
<1>11. ASSUME NEW t \in Threads, HandsOutLogin(t) PROVE McpInv'
  <2>1. /\ job[t].s \in Remotes /\ job[t].url \in Urls /\ job[t].old \in CredentialRecords
        /\ CopySound(job[t]) /\ job[t].op = "login"
    BY <1>1, <1>11, JobOf DEF HandsOutLogin, Doing, McpInv
  <2> DEFINE c == [url |-> job[t].url, access |-> job[t].old.access, pending |-> logins + 1]
  <2>2. logins + 1 \in 0..MaxLogins
    BY <1>1, <1>11, CredentialAssumption DEF HandsOutLogin, McpTyped
  <2>3. c \in CredentialRecords /\ Sound(c)
    BY <2>1, <2>2, CredentialAssumption DEF CredentialRecords, CopySound, Sound
  <2> QED
    BY <1>4, <1>11, <2>1, <2>2, <2>3 DEF HandsOutLogin
<1>12. ASSUME NEW t \in Threads, NEW s \in Remotes, StartsCallback(t, s) \/ StartsRefresh(t, s)
       PROVE  McpInv'
  <2>1. PICK op \in {"exchange", "renew"} :
          /\ Becomes(t, [op |-> op, s |-> s, old |-> credential[s]])
          /\ UNCHANGED <<config, credential, token, logins, presented>>
    BY <1>12 DEF StartsCallback, StartsRefresh
  <2>2. credential[s] \in CredentialRecords /\ Sound(credential[s]) /\ credential[s].url # 0
    BY <1>1, <1>12 DEF McpInv, McpTyped, StartsCallback, StartsRefresh, Sound
  <2> DEFINE j == [op |-> op, s |-> s, old |-> credential[s]]
  <2>3. j \in Jobs /\ CopySound(j)
    BY <2>2 DEF Jobs, CopySound
  <2> QED
    BY <1>3, <2>1, <2>3
<1>13. ASSUME NEW t \in Threads, FailsExchange(t) PROVE McpInv'
  <2>1. /\ job[t].s \in Remotes /\ job[t].old \in CredentialRecords /\ Sound(job[t].old)
    BY <1>1, <1>13, JobOf DEF FailsExchange, McpInv, CopySound
  <2> DEFINE c == [url |-> job[t].old.url, access |-> job[t].old.access, pending |-> 0]
  <2>2. c = [job[t].old EXCEPT !.pending = 0] /\ c \in CredentialRecords /\ Sound(c)
    BY <2>1, CredentialAssumption DEF CredentialRecords, Sound
  <2>3. \E d \in CredentialRecords : Sound(d) /\ credential' = [credential EXCEPT ![job[t].s] = d]
    BY <1>13, <2>1, <2>2 DEF FailsExchange
  <2>4. Done(t) /\ UNCHANGED <<config, token, presented>> /\ logins' \in 0..MaxLogins
    BY <1>1, <1>13 DEF FailsExchange, McpTyped
  <2> QED
    BY <1>4, <2>1, <2>3, <2>4
<1>14. ASSUME NEW t \in Threads, NEW s \in Remotes, StartsRevoke(t, s) PROVE McpInv'
  <2>1. \E j \in {NoJob, [op |-> "forget", s |-> s]} : Becomes(t, j)
    BY <1>14 DEF StartsRevoke
  <2>2. [op |-> "forget", s |-> s] \in Jobs /\ CopySound([op |-> "forget", s |-> s])
    BY DEF Jobs, CopySound
  <2> QED
    BY <1>2, <1>3, <1>14, <2>1, <2>2 DEF StartsRevoke
<1>15. ASSUME NEW t \in Threads, NEW s \in Remotes, Presents(t, s) PROVE McpInv'
  <2>1. /\ job[t].all \in [Remotes -> Urls \cup {0}] /\ job[t].all[s] # 0
        /\ credential[s].access # 0 /\ credential[s].url = job[t].all[s]
        /\ presented' = presented \cup {<<credential[s].access, job[t].all[s]>>}
        /\ UNCHANGED <<config, credential, token, logins>> /\ job' = [job EXCEPT ![t] = NoJob]
    BY <1>1, <1>15, JobOf DEF Presents, Doing, Applies, Done, Becomes
  <2>2. /\ credential[s].access \in 1..MaxTokens /\ job[t].all[s] \in Urls
        /\ token[credential[s].access] = job[t].all[s]
    BY <1>1, <2>1, CredentialAssumption DEF McpInv, McpTyped, CredentialRecords, Sound
  <2>3. presented' \subseteq (1..MaxTokens) \X Urls /\ TokensGoHome'
    BY <1>1, <2>1, <2>2 DEF McpInv, McpTyped, TokensGoHome
  <2>4. job' \in [Threads -> Jobs] /\ \A u \in Threads : CopySound(job'[u])
    BY <1>1, <1>2, <2>1 DEF McpInv, McpTyped
  <2> QED
    BY <1>1, <2>1, <2>3, <2>4 DEF McpInv, McpTyped, Sound, CopySound
<1>16. CASE UNCHANGED mcpVars
  BY <1>16 DEF mcpVars, McpInv, McpTyped, Sound, CopySound, TokensGoHome
<1> QED
  BY <1>5, <1>6, <1>7, <1>8, <1>9, <1>10, <1>11, <1>12, <1>13, <1>14, <1>15, <1>16,
     TokenIsStored DEF McpNext

LEMMA McpStarts == McpInit => McpInv
<1> SUFFICES ASSUME McpInit PROVE McpInv
  OBVIOUS
<1>1. McpTyped
  BY CredentialAssumption DEF McpInit, McpTyped, CredentialRecords, NoCredential, Jobs, NoJob
<1> QED
  BY <1>1 DEF McpInit, McpInv, Sound, CopySound, NoCredential, NoJob, TokensGoHome

\* For any number of remote servers, URLs, requests and tokens: file and
\* credentials hold what can be written to them.
THEOREM CredentialTypeCorrect == McpSpec => []McpTypeOK
<1>1. McpInv => McpTypeOK
  BY DEF McpInv, McpTyped, McpTypeOK, CredentialRecords
<1> QED
  BY <1>1, McpStarts, McpSteps, PTL DEF McpSpec

\* Although every request writes back the whole copy it has loaded, with a
\* network call in between and without a lock: no server is ever shown a token
\* that was issued for another URL than the one it is configured with.
THEOREM TokensOnlyGoHome == McpSpec => []TokensGoHome
<1>1. McpInv => TokensGoHome
  BY DEF McpInv
<1> QED
  BY <1>1, McpStarts, McpSteps, PTL DEF McpSpec

-----------------------------------------------------------------------------
(* The tools of a turn.                                                    *)

Contexts == [read : SUBSET Workspace, bans : SUBSET ToolIds, only : SUBSET ToolIds,
             skip : BOOLEAN]

ToolsTyped ==
  /\ rulebook \in Rulebooks /\ skipping \in BOOLEAN
  /\ onDisk \in [Workspace -> 0..MaxVersion] /\ seen \in [Workspace -> 0..MaxVersion]
  /\ context \in Contexts
  /\ stage \in {"loop", "run", "write", "waiting", "over"} /\ toolCall \in ToolCalls
  /\ stage \in {"run", "write", "waiting"} => toolCall # NoCall
  /\ stage = "write" => toolCall.tool \in {"write", "edit"}
  /\ pauses \in Nat /\ loaded \subseteq Skills
  /\ stage = "waiting" => pauses # 0

\* What a turn knows it has read it has seen, and so it has what it is about
\* to overwrite, unless someone made the file meanwhile.
ReadIsSeen ==
  /\ \A f \in context.read : seen[f] # 0
  /\ stage = "write" /\ outsideEdits = 0 =>
       onDisk[toolCall.file] = 0 \/ seen[toolCall.file] # 0

\* Until it is paused, a turn keeps the lists of the skill it has loaded.
KeepsLists ==
  pauses = 0 =>
    /\ context.skip = skipping
    /\ \A s \in loaded : loaded = {s} => s.bans \subseteq context.bans

ToolsInv == ToolsTyped /\ ReadIsSeen /\ KeepsLists /\ ToolsStayInBounds

\* The calls there are.
LEMMA CallsAre ==
  ASSUME NEW c \in ToolCalls, c # NoCall
  PROVE  /\ c.tool \in ToolIds
         /\ c.tool # "skill" => c.file \in Workspace
         /\ c.tool = "skill" => c.skill \in Skills
<1>1. CASE c \in [tool : {"read", "write", "edit"}, file : Workspace, skill : {NoCall.skill}]
  BY <1>1 DEF ToolIds
<1>2. CASE c \in [tool : {"skill"}, file : {"none"}, skill : Skills]
  BY <1>2 DEF ToolIds
<1> QED
  BY <1>1, <1>2 DEF ToolCalls

\* What is allowed is not what the last rule that applies forbids.
LEMMA AllowedIsNotForbidden ==
  ASSUME ToolsTyped, NEW ctx, NEW c, Gate(ctx, c) = "allow"
  PROVE  ~Forbidden(c)
<1> DEFINE fits(i) == RuleApplies(rulebook[i], c)
           last == {i \in 1..Len(rulebook) : fits(i) /\ \A j \in 1..Len(rulebook) :
                                                          fits(j) => j <= i}
<1>1. Decide(rulebook, c) # "deny"
  BY DEF Gate
<1>2. Len(rulebook) \in Nat
  BY ToolAssumption DEF ToolsTyped
<1>3. ASSUME NEW i \in 1..Len(rulebook), fits(i), rulebook[i].action = "deny",
             \A j \in i + 1..Len(rulebook) : ~fits(j)
      PROVE  FALSE
  <2> HIDE DEF fits
  <2>1. i \in last
    BY <1>2, <1>3
  <2>2. \A k \in last : k = i
    BY <1>2, <1>3, <2>1
  <2>3. (CHOOSE k \in last : TRUE) = i
    BY <2>1, <2>2
  <2>4. Decide(rulebook, c) = IF last = {} THEN "ask"
                              ELSE rulebook[CHOOSE k \in last : TRUE].action
    BY DEF Decide, fits
  <2> QED
    BY <1>1, <1>3, <2>1, <2>3, <2>4
<1> QED
  BY <1>3 DEF Forbidden

\* A call that a skill's list bans is not allowed where the list is kept.
LEMMA AllowedIsNotBanned ==
  ASSUME ToolsInv, NEW c, Gate(context, c) = "allow", pauses = 0,
         NEW s \in Skills, loaded \subseteq {s}
  PROVE  ~BannedBySkill(c)
<1>1. \A r \in loaded : r.bans \subseteq context.bans
  BY DEF ToolsInv, KeepsLists
<1>2. ~Restricted(context, c)
  BY DEF Gate
<1> QED
  BY <1>1, <1>2 DEF BannedBySkill, Restricted

\* A call ends in a context that has read what it had, and f if that was seen.
LEMMA CallFinishes ==
  ASSUME ToolsInv, NEW ctx \in Contexts, Finishes(ctx),
         UNCHANGED <<rulebook, skipping, pauses>>,
         onDisk' \in [Workspace -> 0..MaxVersion], seen' \in [Workspace -> 0..MaxVersion],
         loaded' \in SUBSET Skills, loaded \subseteq loaded',
         \A f \in ctx.read : seen'[f] # 0,
         pauses = 0 => /\ ctx.skip = skipping
                       /\ \A s \in loaded' : loaded' = {s} => s.bans \subseteq ctx.bans,
         overran' = overran
  PROVE  ToolsInv'
<1>1. FreshContext(skipping) \in Contexts /\ FreshContext(skipping).read = {}
  BY DEF FreshContext, Contexts, ToolsInv, ToolsTyped
<1>2. NoCall \in ToolCalls
  BY DEF ToolCalls
<1>3. /\ stage' = "loop" /\ toolCall' = NoCall /\ context' \in Contexts
      /\ context' = ctx \/ context' = FreshContext(skipping)
      /\ pauses = 0 => context' = ctx
  BY <1>1 DEF Finishes
<1>4. ToolsTyped'
  BY <1>2, <1>3 DEF ToolsInv, ToolsTyped
<1>5. ReadIsSeen'
  BY <1>1, <1>3 DEF ReadIsSeen
<1>6. KeepsLists'
  BY <1>3 DEF KeepsLists
<1>7. ToolsStayInBounds'
  BY DEF ToolsInv, ToolsStayInBounds
<1> QED
  BY <1>4, <1>5, <1>6, <1>7 DEF ToolsInv

LEMMA ToolIsCalled ==
  ASSUME ToolsInv, NEW c \in ToolCalls, CallsTool(c)
  PROVE  ToolsInv'
<1>1. /\ ToolsTyped /\ stage = "loop" /\ c # NoCall /\ toolCall' = c
      /\ UNCHANGED <<rulebook, skipping, onDisk, seen, loaded, outsideEdits>>
  BY DEF ToolsInv, CallsTool
<1>2. FreshContext(skipping) \in Contexts /\ FreshContext(skipping).read = {}
  BY <1>1 DEF FreshContext, Contexts, ToolsTyped
<1>3. \/ Gate(context, c) = "allow" /\ stage' = "run" /\ UNCHANGED <<pauses, context>>
      \/ /\ Gate(context, c) # "allow" /\ stage' = "waiting" /\ pauses' = pauses + 1
         /\ context' = FreshContext(skipping)
  BY DEF CallsTool
<1>4. ToolsTyped'
  BY <1>1, <1>2, <1>3 DEF ToolsTyped
<1>5. ReadIsSeen'
  BY <1>1, <1>2, <1>3 DEF ToolsInv, ReadIsSeen
<1>6. KeepsLists'
  BY <1>1, <1>3 DEF ToolsInv, KeepsLists, ToolsTyped
<1>7. "rule" \notin overran' /\ "unseen" \notin overran'
  BY <1>1, AllowedIsNotForbidden DEF ToolsInv, ToolsStayInBounds, CallsTool
<1>8. ASSUME pauses' = 0, NEW s \in Skills, loaded' \subseteq {s}
      PROVE  "skill" \notin overran'
  <2>1. pauses = 0 /\ "skill" \notin overran /\ loaded \subseteq {s}
    BY <1>1, <1>3, <1>8 DEF ToolsInv, ToolsStayInBounds, ToolsTyped
  <2>2. ~(Gate(context, c) = "allow" /\ BannedBySkill(c))
    BY <2>1, AllowedIsNotBanned
  <2> QED
    BY <2>1, <2>2 DEF CallsTool
<1> QED
  BY <1>4, <1>5, <1>6, <1>7, <1>8 DEF ToolsInv, ToolsStayInBounds

LEMMA ApprovalIsAnswered ==
  ASSUME ToolsInv, NEW allow \in BOOLEAN, AnswersApproval(allow)
  PROVE  ToolsInv'
<1>1. /\ ToolsTyped /\ stage = "waiting" /\ pauses # 0
      /\ UNCHANGED <<rulebook, skipping, onDisk, pauses, seen, loaded, outsideEdits>>
  BY DEF ToolsInv, ToolsTyped, AnswersApproval
<1>2. FreshContext(TRUE) \in Contexts /\ FreshContext(TRUE).read = {}
  BY DEF FreshContext, Contexts
<1>3. NoCall \in ToolCalls
  BY DEF ToolCalls
<1>4. \/ /\ Gate(FreshContext(TRUE), toolCall) = "allow" /\ stage' = "run"
         /\ context' = FreshContext(TRUE) /\ toolCall' = toolCall
         /\ overran' = overran \cup (IF Forbidden(toolCall) THEN {"rule"} ELSE {})
      \/ /\ stage' \in {"loop", "over"} /\ toolCall' = NoCall
         /\ context' = context /\ overran' = overran
  BY DEF AnswersApproval
<1>5. ToolsTyped'
  BY <1>1, <1>2, <1>3, <1>4 DEF ToolsTyped
<1>6. ReadIsSeen'
  BY <1>1, <1>2, <1>4 DEF ToolsInv, ReadIsSeen
<1>7. KeepsLists'
  BY <1>1 DEF KeepsLists
<1>8. overran' = overran
  BY <1>1, <1>4, AllowedIsNotForbidden
<1> QED
  BY <1>1, <1>5, <1>6, <1>7, <1>8 DEF ToolsInv, ToolsStayInBounds

LEMMA ToolEnds ==
  ASSUME ToolsInv,
         \/ ReadsFile \/ CannotReplace \/ LoadsSkill \/ RefusesSkill
         \/ LooksAtFile /\ stage' # "write"
  PROVE  ToolsInv'
<1>1. ToolsTyped /\ ReadIsSeen /\ KeepsLists /\ context \in Contexts
  BY DEF ToolsInv, ToolsTyped
<1>2. ASSUME Fails, UNCHANGED <<rulebook, skipping, pauses, loaded, overran>>
      PROVE  ToolsInv'
  <2>1. loaded' \in SUBSET Skills /\ onDisk' \in [Workspace -> 0..MaxVersion]
        /\ seen' \in [Workspace -> 0..MaxVersion]
    BY <1>1, <1>2 DEF ToolsTyped, Fails
  <2>2. \A f \in context.read : seen'[f] # 0
    BY <1>1, <1>2 DEF ReadIsSeen, Fails
  <2> QED
    BY <1>1, <1>2, <2>1, <2>2, CallFinishes DEF Fails, KeepsLists
<1>3. ASSUME ReadsFile, ~Fails
      PROVE  ToolsInv'
  <2> SUFFICES ASSUME NEW f, f = toolCall.file PROVE ToolsInv'
    OBVIOUS
  <2>1. /\ f \in Workspace /\ onDisk[f] # 0 /\ Sees(f, onDisk[f])
        /\ UNCHANGED <<rulebook, skipping, pauses, loaded, overran, onDisk>>
    BY <1>1, <1>3, CallsAre DEF ReadsFile, ToolsTyped
  <2> DEFINE ctx == [context EXCEPT !.read = @ \cup {f}]
  <2>2. /\ ctx \in Contexts /\ ctx.read = context.read \cup {f}
        /\ ctx.skip = context.skip /\ ctx.bans = context.bans
    BY <1>1, <2>1 DEF Contexts
  <2>3. /\ seen' = [seen EXCEPT ![f] = onDisk[f]] /\ Finishes(ctx)
        /\ seen' \in [Workspace -> 0..MaxVersion] /\ onDisk' \in [Workspace -> 0..MaxVersion]
    BY <1>1, <2>1 DEF Sees, ToolsTyped
  <2>4. \A g \in ctx.read : seen'[g] # 0
    BY <1>1, <2>1, <2>2, <2>3 DEF ReadIsSeen, ToolsTyped, Contexts
  <2>5. loaded' \in SUBSET Skills /\ loaded \subseteq loaded'
    BY <1>1, <2>1 DEF ToolsTyped
  <2> HIDE DEF ctx
  <2> QED
    BY <1>1, <2>1, <2>2, <2>3, <2>4, <2>5, CallFinishes DEF KeepsLists
<1>4. ASSUME LoadsSkill
      PROVE  ToolsInv'
  <2> SUFFICES ASSUME NEW s, s = toolCall.skill PROVE ToolsInv'
    OBVIOUS
  <2> DEFINE ctx == [read |-> context.read, skip |-> context.skip,
                     bans |-> IF s.bans = {} THEN context.bans ELSE s.bans,
                     only |-> IF s.only = {} THEN context.only ELSE s.only]
  <2>1. /\ s \in Skills /\ s.bans \subseteq ToolIds /\ s.only \subseteq ToolIds
        /\ Finishes(ctx) /\ loaded' = loaded \cup {s}
        /\ UNCHANGED <<rulebook, skipping, onDisk, pauses, seen, overran, outsideEdits>>
    BY <1>1, <1>4, CallsAre, ToolAssumption DEF LoadsSkill, ToolsTyped
  <2>2. /\ ctx \in Contexts /\ ctx.read = context.read
        /\ ctx.skip = context.skip /\ s.bans \subseteq ctx.bans
    BY <1>1, <2>1 DEF Contexts
  <2>3. \A r \in loaded' : loaded' = {r} => r.bans \subseteq ctx.bans
    BY <2>1, <2>2
  <2>4. \A f \in ctx.read : seen'[f] # 0
    BY <1>1, <2>1, <2>2 DEF ReadIsSeen
  <2>5. /\ loaded' \in SUBSET Skills /\ loaded \subseteq loaded'
        /\ onDisk' \in [Workspace -> 0..MaxVersion] /\ seen' \in [Workspace -> 0..MaxVersion]
    BY <1>1, <2>1 DEF ToolsTyped
  <2> HIDE DEF ctx
  <2> QED
    BY <1>1, <2>1, <2>2, <2>3, <2>4, <2>5, CallFinishes DEF KeepsLists
<1>5. ReadsFile /\ Fails => UNCHANGED <<rulebook, skipping, pauses, loaded, overran>>
  BY DEF ReadsFile
<1>6. CannotReplace \/ RefusesSkill \/ (LooksAtFile /\ stage' # "write") =>
        Fails /\ UNCHANGED <<rulebook, skipping, pauses, loaded, overran>>
  BY DEF CannotReplace, RefusesSkill, LooksAtFile
<1> QED
  BY <1>2, <1>3, <1>4, <1>5, <1>6

LEMMA FileIsLookedAt ==
  ASSUME ToolsInv, LooksAtFile, stage' = "write"
  PROVE  ToolsInv'
<1> SUFFICES ASSUME NEW f, f = toolCall.file PROVE ToolsInv'
  OBVIOUS
<1>1. /\ ToolsTyped /\ stage = "run" /\ toolCall.tool \in {"write", "edit"}
      /\ f \in Workspace
      /\ UNCHANGED <<rulebook, skipping, pauses, loaded, overran>>
  BY CallsAre DEF ToolsInv, ToolsTyped, LooksAtFile
<1>2. /\ onDisk[f] = 0 \/ f \in context.read
      /\ \/ toolCall' = AsWrite(toolCall) /\ seen' = seen
         \/ toolCall' = toolCall /\ onDisk[f] # 0 /\ seen' = [seen EXCEPT ![f] = onDisk[f]]
      /\ onDisk' = onDisk /\ context' = context /\ outsideEdits' = 0
  BY DEF LooksAtFile, Fails, Finishes, Unread
<1>3. /\ AsWrite(toolCall) \in ToolCalls /\ AsWrite(toolCall).file = f
      /\ AsWrite(toolCall).tool = "write"
  BY <1>1 DEF ToolsTyped, ToolCalls, NoCall, AsWrite
<1>7. /\ seen' \in [Workspace -> 0..MaxVersion]
      /\ \A g \in Workspace : seen[g] # 0 => seen'[g] # 0
      /\ onDisk[f] # 0 => seen'[f] # 0
  BY <1>1, <1>2 DEF ToolsInv, ReadIsSeen, ToolsTyped, Contexts
<1>8. /\ toolCall' \in ToolCalls /\ toolCall'.file = f /\ toolCall' # NoCall
      /\ toolCall'.tool \in {"write", "edit"}
  BY <1>1, <1>2, <1>3 DEF ToolsTyped, NoCall
<1>4. ToolsTyped'
  BY <1>1, <1>2, <1>7, <1>8, stage' = "write" DEF ToolsTyped
<1>5. ReadIsSeen'
  BY <1>1, <1>2, <1>7, <1>8 DEF ToolsInv, ReadIsSeen, ToolsTyped, Contexts
<1> QED
  BY <1>1, <1>2, <1>4, <1>5 DEF ToolsInv, KeepsLists, ToolsStayInBounds

LEMMA FileIsWritten ==
  ASSUME ToolsInv, WritesFile
  PROVE  ToolsInv'
<1> SUFFICES ASSUME NEW f, f = toolCall.file PROVE ToolsInv'
  OBVIOUS
<1>1. /\ ToolsTyped /\ ReadIsSeen /\ KeepsLists /\ context \in Contexts /\ stage = "write"
      /\ f \in Workspace /\ onDisk[f] < MaxVersion
      /\ onDisk' = [onDisk EXCEPT ![f] = @ + 1] /\ Sees(f, onDisk[f] + 1)
      /\ UNCHANGED <<rulebook, skipping, pauses, loaded>>
  BY CallsAre DEF ToolsInv, ToolsTyped, WritesFile
<1>2. overran' = overran
  BY <1>1 DEF WritesFile, ReadIsSeen
<1> DEFINE ctx == [context EXCEPT !.read = @ \cup {f}]
<1>3. /\ ctx \in Contexts /\ ctx.read = context.read \cup {f}
      /\ ctx.skip = context.skip /\ ctx.bans = context.bans
  BY <1>1 DEF Contexts
<1>4. /\ onDisk[f] + 1 \in 0..MaxVersion /\ onDisk[f] + 1 # 0
      /\ onDisk' \in [Workspace -> 0..MaxVersion]
  BY <1>1, ToolAssumption DEF ToolsTyped
<1>5. /\ seen' = [seen EXCEPT ![f] = onDisk[f] + 1] /\ Finishes(ctx)
      /\ seen' \in [Workspace -> 0..MaxVersion]
  BY <1>1, <1>4 DEF Sees, ToolsTyped
<1>6. \A g \in ctx.read : seen'[g] # 0
  BY <1>1, <1>3, <1>4, <1>5 DEF ReadIsSeen, ToolsTyped, Contexts
<1>7. loaded' \in SUBSET Skills /\ loaded \subseteq loaded'
  BY <1>1 DEF ToolsTyped
<1> HIDE DEF ctx
<1> QED
  BY <1>1, <1>2, <1>3, <1>4, <1>5, <1>6, <1>7, CallFinishes DEF KeepsLists

LEMMA ToolsSteps == ToolsInv /\ [ToolsNext]_toolVars => ToolsInv'
<1> SUFFICES ASSUME ToolsInv, [ToolsNext]_toolVars PROVE ToolsInv'
  OBVIOUS
<1>1. ASSUME NEW f \in Workspace, OthersWrite(f)
      PROVE  ToolsInv'
  <2>1. /\ ToolsTyped /\ onDisk' \in [Workspace -> 0..MaxVersion]
        /\ UNCHANGED <<rulebook, skipping, context, stage, toolCall, pauses, seen, loaded,
                       overran>>
        /\ outsideEdits' = IF stage = "write" THEN 1 ELSE outsideEdits
    BY <1>1, ToolAssumption DEF OthersWrite, ToolsInv, ToolsTyped
  <2>2. ToolsTyped'
    BY <2>1 DEF ToolsTyped
  <2> QED
    BY <2>1, <2>2 DEF ToolsInv, ReadIsSeen, KeepsLists, ToolsStayInBounds
<1>2. CASE UNCHANGED toolVars
  BY <1>2 DEF toolVars, ToolsInv, ToolsTyped, ReadIsSeen, KeepsLists, ToolsStayInBounds
<1>3. CASE ToolsNext
  <2>1. LooksAtFile => ToolsInv'
    BY ToolEnds, FileIsLookedAt
  <2> QED
    BY <1>1, <1>3, <2>1, ToolIsCalled, ApprovalIsAnswered, ToolEnds, FileIsWritten
    DEF ToolsNext
<1> QED
  BY <1>2, <1>3

LEMMA ToolsStart == ToolsInit => ToolsInv
<1> SUFFICES ASSUME ToolsInit PROVE ToolsInv
  OBVIOUS
<1>1. context \in Contexts /\ context.read = {} /\ context.skip = skipping
  BY DEF ToolsInit, FreshContext, Contexts
<1>2. NoCall \in ToolCalls
  BY DEF ToolCalls
<1>3. ToolsTyped
  BY <1>1, <1>2, ToolAssumption DEF ToolsInit, ToolsTyped
<1> QED
  BY <1>1, <1>3 DEF ToolsInit, ToolsInv, ReadIsSeen, KeepsLists, ToolsStayInBounds

\* Every variable of the tools' model keeps its type.
THEOREM ToolTypeCorrect == ToolsSpec => []ToolsTypeOK
<1>1. ToolsInv => ToolsTypeOK
  BY DEF ToolsInv, ToolsTyped, ToolsTypeOK, Contexts
<1> QED
  BY ToolsStart, ToolsSteps, <1>1, PTL DEF ToolsSpec

\* However reads, writes, skills, approvals and the edits of others follow each
\* other, and whatever the rules: nothing runs against the rule that is last in
\* force, nothing against the one skill a turn has loaded until an approval
\* takes its context away, and nothing is overwritten unseen.
THEOREM ToolsKeepInBounds == ToolsSpec => []ToolsStayInBounds
<1>1. ToolsInv => ToolsStayInBounds
  BY DEF ToolsInv
<1> QED
  BY ToolsStart, ToolsSteps, <1>1, PTL DEF ToolsSpec

-----------------------------------------------------------------------------
(* The undo and redo of file changes.                                      *)

Stacks == [undo : Seq(Change), redo : Seq(Change)]

\* What a stack can hold after r turns.
Held(q, r) == Len(q) <= StackHolds /\ \A i \in 1..Len(q) : q[i].run <= r

FilesTyped ==
  /\ disk \in [Files -> Contents] /\ checkpoint \in [Files -> Contents]
  /\ stacks \in Stacks /\ runs \in 0..MaxRuns /\ foreign \subseteq Files
  /\ \/ copy = NoCopy
     \/ copy \in [run : {runs} \ {0}, undo : Seq(Change), redo : Seq(Change), changed : SUBSET Files]
  /\ Held(stacks.undo, runs) /\ Held(stacks.redo, runs)
  /\ copy # NoCopy => Held(copy.undo, runs) /\ Held(copy.redo, runs)

\* The changes of a file are undone turn by turn, and redone turn by turn.
TurnsAscend(undo, redo, f) ==
  /\ \A i, j \in 1..Len(undo) :
       i < j /\ undo[i].file = f /\ undo[j].file = f => undo[i].run <= undo[j].run
  /\ \A i, j \in 1..Len(redo) :
       i < j /\ redo[i].file = f /\ redo[j].file = f => redo[j].run <= redo[i].run
  /\ \A i \in 1..Len(undo) : \A j \in 1..Len(redo) :
       undo[i].file = f /\ redo[j].file = f => undo[i].run <= redo[j].run

Linked(undo, redo, f, content) ==
  /\ UndoPath(undo, f, content) /\ RedoPath(redo, f, Kept(content))
  /\ TurnsAscend(undo, redo, f)

\* A turn's copy is right about all files; what is saved is not about those
\* the turn has changed.
FilesInv ==
  /\ FilesTyped
  /\ \A f \in Files \ foreign :
       /\ copy = NoCopy \/ f \notin copy.changed => Linked(stacks.undo, stacks.redo, f, disk[f])
       /\ copy # NoCopy => Linked(copy.undo, copy.redo, f, disk[f])

\* p is q without its first entries and with one more.
PushedOn(p, q, c, over) ==
  /\ Len(p) = Len(q) - over + 1 /\ p[Len(p)] = c
  /\ \A k \in 1..Len(p) - 1 : p[k] = q[k + over]

\* A push leaves the end of the stack and puts the change on top.
LEMMA PushedStack ==
  ASSUME NEW A, NEW q \in Seq(A), NEW c \in A, NEW p, p = Push(q, c)
  PROVE  /\ p \in Seq(A) /\ Len(p) \in 1..StackHolds
         /\ \E over \in 0..Len(q) : PushedOn(p, q, c, over)
<1> DEFINE longer == Append(q, c)
           n == Len(longer)
           over == IF n > StackHolds THEN n - StackHolds ELSE 0
<1>1. /\ Len(q) \in Nat /\ longer \in Seq(A) /\ n = Len(q) + 1
      /\ longer[Len(q) + 1] = c /\ \A k \in 1..Len(q) : longer[k] = q[k]
  BY AppendProperties
<1>2. p = SubSeq(longer, over + 1, n)
  BY DEF Push
<1> HIDE DEF longer, n
<1>3. over \in 0..Len(q) /\ n - over \in 1..StackHolds
  BY <1>1, FileAssumption
<1> HIDE DEF over
<1>4. \A k \in over + 1..n : longer[k] \in A
  BY <1>1, <1>3, ElementOfSeq DEF n
<1>5. /\ p \in Seq(A) /\ Len(p) = n - (over + 1) + 1
      /\ \A k \in 1..n - (over + 1) + 1 : p[k] = longer[over + 1 + k - 1]
  <2>1. over + 1 \in Int /\ n \in Int /\ over + 1 <= n
    BY <1>1, <1>3
  <2> QED
    BY <1>2, <1>4, <2>1, SubSeqProperties
<1>6. Len(p) = Len(q) - over + 1 /\ \A k \in 1..Len(p) : p[k] = longer[k + over]
  <2>1. Len(p) = Len(q) - over + 1
    BY <1>1, <1>3, <1>5
  <2>2. \A k \in 1..Len(p) : k \in 1..n - (over + 1) + 1 /\ over + 1 + k - 1 = k + over
    BY <1>1, <1>3, <1>5
  <2> QED
    BY <1>5, <2>1, <2>2
<1>7. p[Len(p)] = c /\ \A k \in 1..Len(p) - 1 : p[k] = q[k + over]
  <2>1. Len(p) \in 1..Len(p) /\ Len(p) + over = Len(q) + 1
    BY <1>1, <1>3, <1>6
  <2>2. \A k \in 1..Len(p) - 1 : k \in 1..Len(p) /\ k + over \in 1..Len(q)
    BY <1>1, <1>3, <1>6
  <2> QED
    BY <1>1, <1>6, <2>1, <2>2
<1> QED
  BY <1>1, <1>3, <1>5, <1>6, <1>7 DEF PushedOn

LEMMA PoppedStack ==
  ASSUME NEW A, NEW q \in Seq(A), q # <<>>, NEW p, p = Popped(q)
  PROVE  /\ Len(q) \in Nat \ {0} /\ Top(q) = q[Len(q)] /\ Top(q) \in A
         /\ p \in Seq(A) /\ Len(p) = Len(q) - 1 /\ \A k \in 1..Len(p) : p[k] = q[k]
<1>1. Len(q) \in Nat \ {0} /\ q[Len(q)] \in A
  BY EmptySeq, LenProperties, ElementOfSeq
<1>2. \A k \in 1..Len(q) - 1 : q[k] \in A
  BY <1>1, ElementOfSeq
<1> DEFINE m == Len(q) - 1
<1>3. m \in Nat /\ p = SubSeq(q, 1, m)
  BY <1>1 DEF Popped
<1> HIDE DEF m
<1>4. /\ p \in Seq(A) /\ Len(p) = IF 1 <= m THEN m - 1 + 1 ELSE 0
      /\ \A k \in 1..m - 1 + 1 : p[k] = q[1 + k - 1]
  BY <1>2, <1>3, SubSeqProperties DEF m
<1>5. Len(p) = m /\ \A k \in 1..m : k \in 1..m - 1 + 1 /\ 1 + k - 1 = k
  BY <1>3, <1>4
<1> QED
  BY <1>1, <1>4, <1>5 DEF Top, m

\* The path of a file that has one more change.
LEMMA UndoPathPushed ==
  ASSUME NEW q \in Seq(Change), NEW c \in Change, NEW p, p = Push(q, c),
         NEW f, NEW d, NEW e, UndoPath(q, f, d),
         IF c.file = f THEN c.before = Kept(d) /\ e = c.after ELSE e = d
  PROVE  UndoPath(p, f, e)
<1>0. Len(q) \in Nat /\ p \in Seq(Change) /\ Len(p) \in Nat
  BY PushedStack, LenProperties
<1>1. PICK over \in 0..Len(q) : PushedOn(p, q, c, over)
  BY PushedStack
<1>2. /\ Len(p) = Len(q) - over + 1 /\ p[Len(p)] = c /\ Len(p) \in Nat \ {0}
      /\ \A k \in 1..Len(p) - 1 : p[k] = q[k + over]
  BY <1>0, <1>1 DEF PushedOn
<1>3. \A k \in 1..Len(q) : q[k].after \in Texts
  <2> SUFFICES ASSUME NEW k \in 1..Len(q) PROVE q[k].after \in Texts
    OBVIOUS
  <2>1. q[k] \in Change
    BY ElementOfSeq
  <2> QED
    BY <2>1 DEF Change
<1> SUFFICES ASSUME NEW i \in 1..Len(p), p[i].file = f
             PROVE  /\ IsLatest(p, i) => p[i].after = e
                    /\ \A j \in 1..Len(p) : Follows(p, i, j) => p[i].after = p[j].before
  BY DEF UndoPath
<1>4. CASE i = Len(p)
  BY <1>0, <1>2, <1>4 DEF Follows
<1>5. CASE i # Len(p)
  <2>1. i + over \in 1..Len(q) /\ q[i + over] = p[i] /\ q[i + over].file = f
    <3>1. i \in 1..Len(p) - 1 /\ i + over \in 1..Len(q)
      BY <1>0, <1>2, <1>5
    <3> QED
      BY <1>2, <3>1
  <2>2. /\ IsLatest(q, i + over) => p[i].after = d
        /\ \A j \in 1..Len(q) : Follows(q, i + over, j) => p[i].after = q[j].before
    BY <2>1 DEF UndoPath
  <2>3. ASSUME IsLatest(p, i)
        PROVE  p[i].after = e
    <3>1. c.file # f
      <4>1. Len(p) \in i + 1..Len(p)
        BY <1>2, <1>5
      <4>2. p[Len(p)].file # p[i].file
        BY <2>3, <4>1 DEF IsLatest
      <4> QED
        BY <1>2, <4>2
    <3>2. IsLatest(q, i + over)
      <4> SUFFICES ASSUME NEW k \in i + over + 1..Len(q) PROVE q[k].file # f
        BY <2>1 DEF IsLatest
      <4>1. k - over \in i + 1..Len(p) /\ k - over \in 1..Len(p) - 1 /\ (k - over) + over = k
        BY <1>0, <1>2
      <4>2. p[k - over] = q[k]
        BY <1>2, <4>1
      <4> QED
        BY <2>3, <4>1, <4>2 DEF IsLatest
    <3> QED
      BY <2>2, <3>1, <3>2
  <2>4. ASSUME NEW j \in 1..Len(p), Follows(p, i, j)
        PROVE  p[i].after = p[j].before
    <3>1. i < j /\ p[j].file = f
      BY <2>4 DEF Follows
    <3>2. \A k \in 1..Len(q) : i + over < k /\ k < j + over => q[k].file # f
      <4> SUFFICES ASSUME NEW k \in 1..Len(q), i + over < k, k < j + over PROVE q[k].file # f
        OBVIOUS
      <4>1. k - over \in i + 1..j - 1 /\ k - over \in 1..Len(p) - 1 /\ (k - over) + over = k
        BY <1>0, <1>2
      <4>2. p[k - over] = q[k]
        BY <1>2, <4>1
      <4> QED
        BY <2>4, <4>1, <4>2 DEF Follows
    <3>3. CASE j = Len(p)
      <4>1. IsLatest(q, i + over)
        BY <1>0, <1>2, <2>1, <3>2, <3>3 DEF IsLatest
      <4>2. p[i].after = d /\ d \in Texts
        BY <1>3, <2>1, <2>2, <4>1
      <4>3. Kept(d) = d
        BY <4>2, FileAssumption DEF Kept
      <4> QED
        BY <1>2, <3>1, <3>3, <4>2, <4>3
    <3>4. CASE j # Len(p)
      <4>1. j + over \in 1..Len(q) /\ q[j + over] = p[j]
        <5>1. j \in 1..Len(p) - 1 /\ j + over \in 1..Len(q)
          BY <1>0, <1>2, <3>4
        <5> QED
          BY <1>2, <5>1
      <4>2. Follows(q, i + over, j + over)
        <5>1. i + over < j + over /\ q[j + over].file = q[i + over].file
          BY <1>0, <2>1, <3>1, <4>1
        <5>2. ASSUME NEW k \in (i + over) + 1..(j + over) - 1
              PROVE  q[k].file # q[i + over].file
          BY <1>0, <2>1, <3>2, <4>1
        <5> QED
          BY <5>1, <5>2 DEF Follows
      <4> QED
        BY <2>2, <4>1, <4>2
    <3> QED
      BY <3>3, <3>4
  <2> QED
    BY <2>3, <2>4
<1> QED
  BY <1>4, <1>5

LEMMA RedoPathPushed ==
  ASSUME NEW q \in Seq(Change), NEW c \in Change, NEW p, p = Push(q, c),
         NEW f, NEW d, NEW e, RedoPath(q, f, d),
         IF c.file = f THEN c.after = d /\ e = c.before ELSE e = d
  PROVE  RedoPath(p, f, e)
<1>0. Len(q) \in Nat /\ p \in Seq(Change) /\ Len(p) \in Nat
  BY PushedStack, LenProperties
<1>1. PICK over \in 0..Len(q) : PushedOn(p, q, c, over)
  BY PushedStack
<1>2. /\ Len(p) = Len(q) - over + 1 /\ p[Len(p)] = c /\ Len(p) \in Nat \ {0}
      /\ \A k \in 1..Len(p) - 1 : p[k] = q[k + over]
  BY <1>0, <1>1 DEF PushedOn
<1> SUFFICES ASSUME NEW i \in 1..Len(p), p[i].file = f
             PROVE  /\ IsLatest(p, i) => p[i].before = e
                    /\ \A j \in 1..Len(p) : Follows(p, i, j) => p[i].before = p[j].after
  BY DEF RedoPath
<1>4. CASE i = Len(p)
  BY <1>0, <1>2, <1>4 DEF Follows
<1>5. CASE i # Len(p)
  <2>1. i + over \in 1..Len(q) /\ q[i + over] = p[i] /\ q[i + over].file = f
    <3>1. i \in 1..Len(p) - 1 /\ i + over \in 1..Len(q)
      BY <1>0, <1>2, <1>5
    <3> QED
      BY <1>2, <3>1
  <2>2. /\ IsLatest(q, i + over) => p[i].before = d
        /\ \A j \in 1..Len(q) : Follows(q, i + over, j) => p[i].before = q[j].after
    BY <2>1 DEF RedoPath
  <2>3. ASSUME IsLatest(p, i)
        PROVE  p[i].before = e
    <3>1. c.file # f
      <4>1. Len(p) \in i + 1..Len(p)
        BY <1>2, <1>5
      <4>2. p[Len(p)].file # p[i].file
        BY <2>3, <4>1 DEF IsLatest
      <4> QED
        BY <1>2, <4>2
    <3>2. IsLatest(q, i + over)
      <4> SUFFICES ASSUME NEW k \in i + over + 1..Len(q) PROVE q[k].file # f
        BY <2>1 DEF IsLatest
      <4>1. k - over \in i + 1..Len(p) /\ k - over \in 1..Len(p) - 1 /\ (k - over) + over = k
        BY <1>0, <1>2
      <4>2. p[k - over] = q[k]
        BY <1>2, <4>1
      <4> QED
        BY <2>3, <4>1, <4>2 DEF IsLatest
    <3> QED
      BY <2>2, <3>1, <3>2
  <2>4. ASSUME NEW j \in 1..Len(p), Follows(p, i, j)
        PROVE  p[i].before = p[j].after
    <3>1. i < j /\ p[j].file = f
      BY <2>4 DEF Follows
    <3>2. \A k \in 1..Len(q) : i + over < k /\ k < j + over => q[k].file # f
      <4> SUFFICES ASSUME NEW k \in 1..Len(q), i + over < k, k < j + over PROVE q[k].file # f
        OBVIOUS
      <4>1. k - over \in i + 1..j - 1 /\ k - over \in 1..Len(p) - 1 /\ (k - over) + over = k
        BY <1>0, <1>2
      <4>2. p[k - over] = q[k]
        BY <1>2, <4>1
      <4> QED
        BY <2>4, <4>1, <4>2 DEF Follows
    <3>3. CASE j = Len(p)
      <4>1. IsLatest(q, i + over)
        BY <1>0, <1>2, <2>1, <3>2, <3>3 DEF IsLatest
      <4> QED
        BY <1>2, <2>2, <3>1, <3>3, <4>1
    <3>4. CASE j # Len(p)
      <4>1. j + over \in 1..Len(q) /\ q[j + over] = p[j]
        <5>1. j \in Nat /\ j < Len(p) /\ over \in Nat
          BY <1>0, <1>2, <3>4
        <5>2. j \in 1..Len(p) - 1
          BY <1>2, <5>1
        <5>3. Len(p) = Len(q) - over + 1 /\ Len(q) \in Nat
          BY <1>0, <1>2
        <5>4. j + over \in 1..Len(q)
          BY <5>1, <5>2, <5>3
        <5> QED
          BY <1>2, <5>2, <5>4
      <4>2. Follows(q, i + over, j + over)
        <5>1. i + over < j + over /\ q[j + over].file = q[i + over].file
          BY <1>0, <2>1, <3>1, <4>1
        <5>2. ASSUME NEW k \in (i + over) + 1..(j + over) - 1
              PROVE  q[k].file # q[i + over].file
          BY <1>0, <2>1, <3>2, <4>1
        <5> QED
          BY <5>1, <5>2 DEF Follows
      <4> QED
        BY <2>2, <4>1, <4>2
    <3> QED
      BY <3>3, <3>4
  <2> QED
    BY <2>3, <2>4
<1> QED
  BY <1>4, <1>5

\* The path of a file whose last change is taken off.
LEMMA UndoPathPopped ==
  ASSUME NEW q \in Seq(Change), q # <<>>, NEW p, p = Popped(q),
         NEW f, NEW d, NEW e, UndoPath(q, f, d),
         IF Top(q).file = f THEN e = Top(q).before ELSE e = d
  PROVE  UndoPath(p, f, e)
<1>1. /\ Len(q) \in Nat \ {0} /\ Top(q) = q[Len(q)]
      /\ Len(p) = Len(q) - 1 /\ \A k \in 1..Len(p) : p[k] = q[k]
  BY PoppedStack
<1> SUFFICES ASSUME NEW i \in 1..Len(p), p[i].file = f
             PROVE  /\ IsLatest(p, i) => p[i].after = e
                    /\ \A j \in 1..Len(p) : Follows(p, i, j) => p[i].after = p[j].before
  BY DEF UndoPath
<1>2. /\ i \in 1..Len(q) /\ q[i] = p[i]
      /\ IsLatest(q, i) => p[i].after = d
      /\ \A j \in 1..Len(q) : Follows(q, i, j) => p[i].after = q[j].before
  BY <1>1 DEF UndoPath
<1>3. ASSUME NEW j \in 1..Len(p), Follows(p, i, j)
      PROVE  p[i].after = p[j].before
  <2>1. j \in 1..Len(q) /\ q[j] = p[j]
    BY <1>1
  <2>2. \A k \in i + 1..j - 1 : k \in 1..Len(p) /\ q[k] = p[k]
    BY <1>1
  <2>3. Follows(q, i, j)
    BY <1>2, <1>3, <2>1, <2>2 DEF Follows
  <2> QED
    BY <1>2, <2>1, <2>3
<1>4. ASSUME IsLatest(p, i)
      PROVE  p[i].after = e
  <2>1. \A k \in 1..Len(q) : i < k /\ k < Len(q) => q[k].file # f
    BY <1>1, <1>4 DEF IsLatest
  <2>2. CASE q[Len(q)].file = f
    <3>1. Follows(q, i, Len(q))
      BY <1>1, <1>2, <2>1, <2>2 DEF Follows
    <3> QED
      BY <1>1, <1>2, <2>2, <3>1
  <2>3. CASE q[Len(q)].file # f
    <3>1. IsLatest(q, i)
      BY <1>1, <1>2, <2>1, <2>3 DEF IsLatest
    <3> QED
      BY <1>1, <1>2, <2>3, <3>1
  <2> QED
    BY <2>2, <2>3
<1> QED
  BY <1>3, <1>4

LEMMA RedoPathPopped ==
  ASSUME NEW q \in Seq(Change), q # <<>>, NEW p, p = Popped(q),
         NEW f, NEW d, NEW e, RedoPath(q, f, d),
         IF Top(q).file = f THEN e = Top(q).after ELSE e = d
  PROVE  RedoPath(p, f, e)
<1>1. /\ Len(q) \in Nat \ {0} /\ Top(q) = q[Len(q)]
      /\ Len(p) = Len(q) - 1 /\ \A k \in 1..Len(p) : p[k] = q[k]
  BY PoppedStack
<1> SUFFICES ASSUME NEW i \in 1..Len(p), p[i].file = f
             PROVE  /\ IsLatest(p, i) => p[i].before = e
                    /\ \A j \in 1..Len(p) : Follows(p, i, j) => p[i].before = p[j].after
  BY DEF RedoPath
<1>2. /\ i \in 1..Len(q) /\ q[i] = p[i]
      /\ IsLatest(q, i) => p[i].before = d
      /\ \A j \in 1..Len(q) : Follows(q, i, j) => p[i].before = q[j].after
  BY <1>1 DEF RedoPath
<1>3. ASSUME NEW j \in 1..Len(p), Follows(p, i, j)
      PROVE  p[i].before = p[j].after
  <2>1. j \in 1..Len(q) /\ q[j] = p[j]
    BY <1>1
  <2>2. \A k \in i + 1..j - 1 : k \in 1..Len(p) /\ q[k] = p[k]
    BY <1>1
  <2>3. Follows(q, i, j)
    BY <1>2, <1>3, <2>1, <2>2 DEF Follows
  <2> QED
    BY <1>2, <2>1, <2>3
<1>4. ASSUME IsLatest(p, i)
      PROVE  p[i].before = e
  <2>1. \A k \in 1..Len(q) : i < k /\ k < Len(q) => q[k].file # f
    BY <1>1, <1>4 DEF IsLatest
  <2>2. CASE q[Len(q)].file = f
    <3>1. Follows(q, i, Len(q))
      BY <1>1, <1>2, <2>1, <2>2 DEF Follows
    <3> QED
      BY <1>1, <1>2, <2>2, <3>1
  <2>3. CASE q[Len(q)].file # f
    <3>1. IsLatest(q, i)
      BY <1>1, <1>2, <2>1, <2>3 DEF IsLatest
    <3> QED
      BY <1>1, <1>2, <2>3, <3>1
  <2> QED
    BY <2>2, <2>3
<1> QED
  BY <1>3, <1>4

Pushed(p, q, c, over) ==
  /\ p[Len(p)] = c
  /\ \A k \in 1..Len(p) : k # Len(p) => k + over \in 1..Len(q) /\ p[k] = q[k + over]

LEMMA PushedEntries ==
  ASSUME NEW q \in Seq(Change), NEW c \in Change, NEW p, p = Push(q, c)
  PROVE  /\ p \in Seq(Change) /\ Len(p) \in Nat \ {0}
         /\ \E over \in 0..Len(q) : Pushed(p, q, c, over)
<1>1. Len(q) \in Nat /\ p \in Seq(Change) /\ Len(p) \in Nat
  BY PushedStack, LenProperties
<1>2. PICK over \in 0..Len(q) : PushedOn(p, q, c, over)
  BY PushedStack
<1>3. Len(p) = Len(q) - over + 1 /\ p[Len(p)] = c
  BY <1>2 DEF PushedOn
<1>4. ASSUME NEW k \in 1..Len(p), k # Len(p)
      PROVE  k + over \in 1..Len(q) /\ p[k] = q[k + over]
  <2>1. k \in 1..Len(p) - 1 /\ k + over \in 1..Len(q)
    BY <1>1, <1>3, <1>4
  <2> QED
    BY <1>2, <2>1 DEF PushedOn
<1>5. Len(p) \in Nat \ {0} /\ p[Len(p)] = c
  BY <1>1, <1>3
<1>6. Pushed(p, q, c, over)
  BY <1>4, <1>5 DEF Pushed
<1> QED
  BY <1>1, <1>5, <1>6

\* The turns of a file's changes after a change, an undo and a redo.
LEMMA ChangeAscends ==
  ASSUME NEW u \in Seq(Change), NEW r \in Seq(Change), NEW f, TurnsAscend(u, r, f),
         NEW c \in Change, Held(u, c.run)
  PROVE  TurnsAscend(Push(u, c), <<>>, f)
<1> SUFFICES ASSUME NEW p, p = Push(u, c) PROVE TurnsAscend(p, <<>>, f)
  OBVIOUS
<1>1. Len(u) \in Nat /\ p \in Seq(Change) /\ Len(p) \in Nat
  BY PushedStack, LenProperties
<1>2. PICK over \in 0..Len(u) : Pushed(p, u, c, over)
  BY PushedEntries
<1>3. /\ p[Len(p)] = c
      /\ \A k \in 1..Len(p) : k # Len(p) => k + over \in 1..Len(u) /\ p[k] = u[k + over]
  BY <1>2 DEF Pushed
<1>4. ASSUME NEW i \in 1..Len(p), NEW j \in 1..Len(p), i < j, p[i].file = f, p[j].file = f
      PROVE  p[i].run <= p[j].run
  <2>1. i # Len(p) /\ i + over \in 1..Len(u) /\ p[i] = u[i + over]
    BY <1>1, <1>3, <1>4
  <2>2. CASE j = Len(p)
    BY <1>3, <2>1, <2>2 DEF Held
  <2>3. CASE j # Len(p)
    <3>1. j + over \in 1..Len(u) /\ p[j] = u[j + over] /\ i + over < j + over
      BY <1>1, <1>3, <1>4, <2>3
    <3> QED
      BY <1>4, <2>1, <3>1 DEF TurnsAscend
  <2> QED
    BY <2>2, <2>3
<1>5. Len(<<>>) = 0
  OBVIOUS
<1> QED
  BY <1>4, <1>5 DEF TurnsAscend

LEMMA UndoAscends ==
  ASSUME NEW u \in Seq(Change), u # <<>>, NEW r \in Seq(Change), NEW f, TurnsAscend(u, r, f)
  PROVE  TurnsAscend(Popped(u), Push(r, Top(u)), f)
<1> SUFFICES ASSUME NEW c, c = Top(u), NEW v, v = Popped(u), NEW p, p = Push(r, c)
             PROVE  TurnsAscend(v, p, f)
  OBVIOUS
<1>1. /\ Len(u) \in Nat \ {0} /\ c = u[Len(u)] /\ c \in Change
      /\ Len(v) = Len(u) - 1 /\ \A k \in 1..Len(v) : v[k] = u[k]
  BY PoppedStack
<1>2. Len(r) \in Nat /\ p \in Seq(Change) /\ Len(p) \in Nat
  BY <1>1, PushedStack, LenProperties
<1>3. PICK over \in 0..Len(r) : Pushed(p, r, c, over)
  BY <1>1, PushedEntries
<1>4. /\ p[Len(p)] = c
      /\ \A k \in 1..Len(p) : k # Len(p) => k + over \in 1..Len(r) /\ p[k] = r[k + over]
  BY <1>3 DEF Pushed
<1>5. \A k \in 1..Len(v) : k \in 1..Len(u) /\ k < Len(u) /\ v[k] = u[k]
  BY <1>1
<1>6. ASSUME NEW i \in 1..Len(v), NEW j \in 1..Len(v), i < j, v[i].file = f, v[j].file = f
      PROVE  v[i].run <= v[j].run
  BY <1>5, <1>6 DEF TurnsAscend
<1>7. ASSUME NEW i \in 1..Len(p), NEW j \in 1..Len(p), i < j, p[i].file = f, p[j].file = f
      PROVE  p[j].run <= p[i].run
  <2>1. i # Len(p) /\ i + over \in 1..Len(r) /\ p[i] = r[i + over]
    BY <1>2, <1>4, <1>7
  <2>2. CASE j = Len(p)
    <3>1. Len(u) \in 1..Len(u)
      BY <1>1
    <3> QED
      BY <1>1, <1>4, <1>7, <2>1, <2>2, <3>1, SMTT(30) DEF TurnsAscend
  <2>3. CASE j # Len(p)
    <3>1. j + over \in 1..Len(r) /\ p[j] = r[j + over] /\ i + over < j + over
      BY <1>2, <1>4, <1>7, <2>3
    <3> QED
      BY <1>7, <2>1, <3>1 DEF TurnsAscend
  <2> QED
    BY <2>2, <2>3
<1>8. ASSUME NEW i \in 1..Len(v), NEW j \in 1..Len(p), v[i].file = f, p[j].file = f
      PROVE  v[i].run <= p[j].run
  <2>1. CASE j = Len(p)
    <3>1. Len(u) \in 1..Len(u)
      BY <1>1
    <3>2. i \in 1..Len(u) /\ i < Len(u) /\ v[i] = u[i]
      BY <1>5
    <3> QED
      BY <1>1, <1>4, <1>8, <2>1, <3>1, <3>2, ZenonT(40) DEF TurnsAscend
  <2>2. CASE j # Len(p)
    BY <1>4, <1>5, <1>8, <2>2 DEF TurnsAscend
  <2> QED
    BY <2>1, <2>2
<1> QED
  BY <1>6, <1>7, <1>8 DEF TurnsAscend

LEMMA RedoAscends ==
  ASSUME NEW u \in Seq(Change), NEW r \in Seq(Change), r # <<>>, NEW f, TurnsAscend(u, r, f)
  PROVE  TurnsAscend(Push(u, Top(r)), Popped(r), f)
<1> SUFFICES ASSUME NEW c, c = Top(r), NEW v, v = Popped(r), NEW p, p = Push(u, c)
             PROVE  TurnsAscend(p, v, f)
  OBVIOUS
<1>1. /\ Len(r) \in Nat \ {0} /\ c = r[Len(r)] /\ c \in Change
      /\ Len(v) = Len(r) - 1 /\ \A k \in 1..Len(v) : v[k] = r[k]
  BY PoppedStack
<1>2. Len(u) \in Nat /\ p \in Seq(Change) /\ Len(p) \in Nat
  BY <1>1, PushedStack, LenProperties
<1>3. PICK over \in 0..Len(u) : Pushed(p, u, c, over)
  BY <1>1, PushedEntries
<1>4. /\ p[Len(p)] = c
      /\ \A k \in 1..Len(p) : k # Len(p) => k + over \in 1..Len(u) /\ p[k] = u[k + over]
  BY <1>3 DEF Pushed
<1>5. \A k \in 1..Len(v) : k \in 1..Len(r) /\ k < Len(r) /\ v[k] = r[k]
  BY <1>1
<1>6. ASSUME NEW i \in 1..Len(v), NEW j \in 1..Len(v), i < j, v[i].file = f, v[j].file = f
      PROVE  v[j].run <= v[i].run
  BY <1>5, <1>6 DEF TurnsAscend
<1>7. ASSUME NEW i \in 1..Len(p), NEW j \in 1..Len(p), i < j, p[i].file = f, p[j].file = f
      PROVE  p[i].run <= p[j].run
  <2>1. i # Len(p) /\ i + over \in 1..Len(u) /\ p[i] = u[i + over]
    BY <1>2, <1>4, <1>7
  <2>2. CASE j = Len(p)
    <3>1. Len(r) \in 1..Len(r)
      BY <1>1
    <3> QED
      BY <1>1, <1>4, <1>7, <2>1, <2>2, <3>1, ZenonT(40) DEF TurnsAscend
  <2>3. CASE j # Len(p)
    <3>1. j + over \in 1..Len(u) /\ p[j] = u[j + over] /\ i + over < j + over
      BY <1>2, <1>4, <1>7, <2>3
    <3> QED
      BY <1>7, <2>1, <3>1 DEF TurnsAscend
  <2> QED
    BY <2>2, <2>3
<1>8. ASSUME NEW i \in 1..Len(p), NEW j \in 1..Len(v), p[i].file = f, v[j].file = f
      PROVE  p[i].run <= v[j].run
  <2>1. CASE i = Len(p)
    <3>1. Len(r) \in 1..Len(r)
      BY <1>1
    <3>2. j \in 1..Len(r) /\ j < Len(r) /\ v[j] = r[j]
      BY <1>5
    <3> QED
      BY <1>1, <1>4, <1>8, <2>1, <3>1, <3>2, SMTT(30) DEF TurnsAscend
  <2>2. CASE i # Len(p)
    BY <1>4, <1>5, <1>8, <2>2 DEF TurnsAscend
  <2> QED
    BY <2>1, <2>2
<1> QED
  BY <1>6, <1>7, <1>8 DEF TurnsAscend

\* Links after a change, an undo and a redo.
LEMMA LinkedByChange ==
  ASSUME NEW u \in Seq(Change), NEW r \in Seq(Change), NEW f, NEW d, Linked(u, r, f, d),
         NEW c \in Change, Held(u, c.run),
         NEW e, IF c.file = f THEN c.before = Kept(d) /\ e = c.after ELSE e = d
  PROVE  Linked(Push(u, c), <<>>, f, e)
<1>1. UndoPath(Push(u, c), f, e)
  BY UndoPathPushed DEF Linked
<1>2. RedoPath(<<>>, f, Kept(e))
  BY DEF RedoPath
<1> QED
  BY <1>1, <1>2, ChangeAscends DEF Linked

LEMMA LinkedByUndo ==
  ASSUME NEW u \in Seq(Change), u # <<>>, NEW r \in Seq(Change), NEW f, NEW d,
         Linked(u, r, f, d), NEW c, c = Top(u), c.before # NoText,
         NEW e, IF c.file = f THEN e = c.before ELSE e = d
  PROVE  Linked(Popped(u), Push(r, c), f, e)
<1>1. Len(u) \in Nat \ {0} /\ c = u[Len(u)] /\ c \in Change
  BY PoppedStack
<1>2. UndoPath(Popped(u), f, e)
  BY UndoPathPopped DEF Linked
<1>3. CASE c.file = f
  <2>1. IsLatest(u, Len(u)) /\ Len(u) \in 1..Len(u)
    BY <1>1 DEF IsLatest
  <2>2. c.after = d /\ d \in Texts /\ c.before \in Texts \cup {Absent}
    BY <1>1, <1>3, <2>1 DEF Linked, UndoPath, Change
  <2>3. c.after = Kept(d) /\ c.before = Kept(e)
    BY <1>3, <2>2, FileAssumption DEF Kept, Absent, Binary, NoText
  <2>4. RedoPath(Push(r, c), f, Kept(e))
    BY <1>1, <1>3, <2>3, RedoPathPushed DEF Linked
  <2> QED
    BY <1>2, <2>4, UndoAscends DEF Linked
<1>4. CASE c.file # f
  <2>1. RedoPath(Push(r, c), f, Kept(e))
    BY <1>1, <1>4, RedoPathPushed DEF Linked
  <2> QED
    BY <1>2, <2>1, UndoAscends DEF Linked
<1> QED
  BY <1>3, <1>4

LEMMA LinkedByRedo ==
  ASSUME NEW u \in Seq(Change), NEW r \in Seq(Change), r # <<>>, NEW f, NEW d,
         Linked(u, r, f, d), NEW c, c = Top(r),
         NEW e, IF c.file = f THEN e = c.after ELSE e = d
  PROVE  Linked(Push(u, c), Popped(r), f, e)
<1>1. Len(r) \in Nat \ {0} /\ c = r[Len(r)] /\ c \in Change
  BY PoppedStack
<1>2. CASE c.file = f
  <2>1. IsLatest(r, Len(r)) /\ Len(r) \in 1..Len(r)
    BY <1>1 DEF IsLatest
  <2>2. c.before = Kept(d)
    BY <1>1, <1>2, <2>1 DEF Linked, RedoPath
  <2>3. Kept(e) = c.after
    BY <1>1, <1>2, FileAssumption DEF Kept, Change
  <2> QED
    BY <1>1, <1>2, <2>2, <2>3, UndoPathPushed, RedoPathPopped, RedoAscends DEF Linked
<1>3. CASE c.file # f
  BY <1>1, <1>3, UndoPathPushed, RedoPathPopped, RedoAscends DEF Linked
<1> QED
  BY <1>2, <1>3

\* v is u without the changes that a turn made to a file.
Without(v, u, place, f, run) ==
  /\ \A a \in 1..Len(v) : /\ place[a] \in 1..Len(u) /\ v[a] = u[place[a]]
                          /\ ~(v[a].file = f /\ v[a].run = run)
  /\ \A a, b \in 1..Len(v) : a < b => place[a] < place[b]
  /\ \A k \in 1..Len(u) : ~(u[k].file = f /\ u[k].run = run) => \E a \in 1..Len(v) : place[a] = k

LEMMA OtherPathsStay ==
  ASSUME NEW u, u = stacks.undo, u \in Seq(Change), NEW f, NEW run, NEW v, v = Others(f, run)
  PROVE  v \in Seq(Change) /\ \E place : Without(v, u, place, f, run)
<1> DEFINE keep == {c \in Change : ~(c.file = f /\ c.run = run)}
<1>1. v = Retain(u, keep)
  BY DEF Others
<1>2. \A k \in 1..Len(u) : u[k] \in Change
  BY ElementOfSeq
<1>3. \A k \in 1..Len(u) : u[k] \in keep <=> ~(u[k].file = f /\ u[k].run = run)
  BY <1>2
<1> HIDE DEF keep
<1>4. v \in Seq(Change)
  BY <1>1, RetainKeeps
<1>5. PICK place \in [1..Len(v) -> 1..Len(u)] :
         /\ \A a \in 1..Len(v) : v[a] = u[place[a]] /\ u[place[a]] \in keep
         /\ \A a, b \in 1..Len(v) : a < b => place[a] < place[b]
         /\ \A k \in 1..Len(u) : u[k] \in keep => \E a \in 1..Len(v) : place[a] = k
  BY <1>1, RetainKeeps, SMTT(30)
<1>6. \A a \in 1..Len(v) : place[a] \in 1..Len(u)
  BY <1>5
<1>7. Without(v, u, place, f, run)
  BY <1>3, <1>5, <1>6 DEF Without
<1> QED
  BY <1>4, <1>7

\* A file that is left alone keeps its path.
LEMMA OthersUndoPath ==
  ASSUME NEW u \in Seq(Change), NEW v \in Seq(Change), NEW f, NEW run, NEW place,
         Without(v, u, place, f, run), NEW g, g # f, NEW d, UndoPath(u, g, d)
  PROVE  UndoPath(v, g, d)
<1>1. Len(u) \in Nat /\ Len(v) \in Nat
  BY LenProperties
<1>2. \A a \in 1..Len(v) : place[a] \in 1..Len(u) /\ v[a] = u[place[a]]
  BY DEF Without
<1>3. \A a, b \in 1..Len(v) : a < b => place[a] < place[b]
  BY DEF Without
<1>4. \A k \in 1..Len(u) : u[k].file = g => \E a \in 1..Len(v) : place[a] = k
  BY DEF Without
<1> SUFFICES ASSUME NEW i \in 1..Len(v), v[i].file = g
             PROVE  /\ IsLatest(v, i) => v[i].after = d
                    /\ \A j \in 1..Len(v) : Follows(v, i, j) => v[i].after = v[j].before
  BY DEF UndoPath
<1>5. /\ place[i] \in 1..Len(u) /\ u[place[i]] = v[i]
      /\ IsLatest(u, place[i]) => v[i].after = d
      /\ \A j \in 1..Len(u) : Follows(u, place[i], j) => v[i].after = u[j].before
  BY <1>2 DEF UndoPath
<1>6. ASSUME NEW k \in 1..Len(u), place[i] < k, u[k].file = g
      PROVE  \E a \in i + 1..Len(v) : place[a] = k /\ v[a].file = g
  <2>1. PICK a \in 1..Len(v) : place[a] = k
    BY <1>4, <1>6
  <2>2. i < a
    BY <1>1, <1>2, <1>3, <1>6, <2>1
  <2> QED
    BY <1>1, <1>2, <1>6, <2>1, <2>2
<1>7. ASSUME IsLatest(v, i)
      PROVE  v[i].after = d
  <2>1. ASSUME NEW k \in place[i] + 1..Len(u), u[k].file = g
        PROVE  FALSE
    <3>1. k \in 1..Len(u) /\ place[i] < k
      BY <1>1, <1>5
    <3> QED
      BY <1>6, <1>7, <2>1, <3>1 DEF IsLatest
  <2> QED
    BY <1>5, <2>1 DEF IsLatest
<1>8. ASSUME NEW j \in 1..Len(v), Follows(v, i, j)
      PROVE  v[i].after = v[j].before
  <2>1. /\ i < j /\ v[j].file = g /\ place[i] < place[j] /\ place[j] \in 1..Len(u)
        /\ u[place[j]] = v[j]
    BY <1>2, <1>3, <1>8 DEF Follows
  <2>2. ASSUME NEW k \in place[i] + 1..place[j] - 1, u[k].file = g
        PROVE  FALSE
    <3>1. k \in 1..Len(u) /\ place[i] < k /\ k < place[j]
      BY <1>1, <1>5, <2>1, SMTT(30)
    <3>2. PICK a \in i + 1..Len(v) : place[a] = k /\ v[a].file = g
      BY <1>6, <2>2, <3>1
    <3>3. a < j
      BY <1>1, <1>3, <2>1, <3>1, <3>2
    <3> QED
      BY <1>1, <1>8, <3>2, <3>3 DEF Follows
  <2>3. Follows(u, place[i], place[j])
    BY <1>5, <2>1, <2>2 DEF Follows
  <2> QED
    BY <1>5, <2>1, <2>3
<1> QED
  BY <1>7, <1>8

\* The file itself goes back to where the turn found it.
LEMMA OwnUndoPath ==
  ASSUME NEW u \in Seq(Change), NEW v \in Seq(Change), NEW f, NEW run, NEW place,
         Without(v, u, place, f, run), NEW d, UndoPath(u, f, d), NEW r, TurnsAscend(u, r, f),
         NEW first \in 1..Len(u), NEW last \in 1..Len(u),
         u[first].file = f, u[first].run = run, u[last].file = f, u[last].run = run,
         \A k \in 1..Len(u) : u[k].file = f /\ u[k].run = run => first <= k /\ k <= last,
         IsLatest(u, last)
  PROVE  UndoPath(v, f, u[first].before)
<1>1. Len(u) \in Nat /\ Len(v) \in Nat
  BY LenProperties
<1>2. \A a \in 1..Len(v) : place[a] \in 1..Len(u) /\ v[a] = u[place[a]]
  BY DEF Without
<1>3. \A a, b \in 1..Len(v) : a < b => place[a] < place[b]
  BY DEF Without
<1>4. ASSUME NEW k \in 1..Len(u), u[k].file = f, k < first
      PROVE  \E a \in 1..Len(v) : place[a] = k
  BY <1>4 DEF Without
<1>5. ASSUME NEW k \in 1..Len(u), u[k].file = f, u[k].run # run
      PROVE  k < first
  <2>1. k <= last
    BY <1>1, <1>5 DEF IsLatest
  <2>2. u[k] \in Change /\ u[first] \in Change /\ u[last] \in Change
    BY ElementOfSeq
  <2>3. u[k].run \in Int /\ u[first].run \in Int
    BY <2>2, FileAssumption DEF Change
  <2>4. k # last /\ k # first
    BY <1>5
  <2>5. ASSUME first < k
        PROVE  FALSE
    <3>1. run <= u[k].run /\ u[k].run <= run
      BY <1>5, <2>1, <2>4, <2>5 DEF TurnsAscend
    <3> QED
      BY <1>5, <2>3, <3>1
  <2> QED
    BY <2>4, <2>5
<1> SUFFICES ASSUME NEW i \in 1..Len(v), v[i].file = f
             PROVE  /\ IsLatest(v, i) => v[i].after = u[first].before
                    /\ \A j \in 1..Len(v) : Follows(v, i, j) => v[i].after = v[j].before
  BY DEF UndoPath
<1>6. /\ place[i] \in 1..Len(u) /\ u[place[i]] = v[i] /\ place[i] < first
      /\ \A j \in 1..Len(u) : Follows(u, place[i], j) => v[i].after = u[j].before
  <2>1. place[i] \in 1..Len(u) /\ u[place[i]] = v[i] /\ v[i].run # run
    BY DEF Without
  <2>2. place[i] < first
    BY <1>5, <2>1
  <2> QED
    BY <2>1, <2>2 DEF UndoPath
<1>7. ASSUME NEW k \in 1..Len(u), place[i] < k, k < first, u[k].file = f
      PROVE  \E a \in i + 1..Len(v) : place[a] = k /\ v[a].file = f
  <2>1. PICK a \in 1..Len(v) : place[a] = k
    BY <1>4, <1>7
  <2>2. i < a
    BY <1>1, <1>2, <1>3, <1>7, <2>1
  <2> QED
    BY <1>1, <1>2, <1>7, <2>1, <2>2
<1>8. ASSUME IsLatest(v, i)
      PROVE  v[i].after = u[first].before
  <2>1. ASSUME NEW k \in place[i] + 1..first - 1, u[k].file = f
        PROVE  FALSE
    <3>1. k \in 1..Len(u) /\ place[i] < k /\ k < first
      BY <1>1, <1>6
    <3> QED
      BY <1>7, <1>8, <2>1, <3>1 DEF IsLatest
  <2>2. Follows(u, place[i], first)
    BY <1>6, <2>1 DEF Follows
  <2> QED
    BY <1>6, <2>2
<1>9. ASSUME NEW j \in 1..Len(v), Follows(v, i, j)
      PROVE  v[i].after = v[j].before
  <2>1. /\ i < j /\ v[j].file = f /\ place[i] < place[j] /\ place[j] \in 1..Len(u)
        /\ u[place[j]] = v[j] /\ v[j].run # run
    BY <1>2, <1>3, <1>9 DEF Follows, Without
  <2>2. place[j] < first
    BY <1>5, <2>1
  <2>3. ASSUME NEW k \in place[i] + 1..place[j] - 1, u[k].file = f
        PROVE  FALSE
    <3>1. k \in 1..Len(u) /\ place[i] < k /\ k < place[j] /\ k < first
      BY <1>1, <1>6, <2>1, <2>2, SMTT(30)
    <3>2. PICK a \in i + 1..Len(v) : place[a] = k /\ v[a].file = f
      BY <1>7, <2>3, <3>1
    <3>3. a < j
      BY <1>1, <1>3, <2>1, <3>1, <3>2, SMTT(30)
    <3> QED
      BY <1>1, <1>9, <3>2, <3>3 DEF Follows
  <2>4. Follows(u, place[i], place[j])
    BY <1>6, <2>1, <2>3 DEF Follows
  <2> QED
    BY <1>6, <2>1, <2>4
<1> QED
  BY <1>8, <1>9

LEMMA OthersAreFewer ==
  ASSUME NEW u \in Seq(Change), NEW v \in Seq(Change), NEW f, NEW run, NEW place,
         Without(v, u, place, f, run)
  PROVE  Len(v) <= Len(u)
<1>1. Len(u) \in Nat /\ Len(v) \in Nat
  BY LenProperties
<1> DEFINE S == 1..Len(v)
           T == 1..Len(u)
           at == [a \in S |-> place[a]]
<1>2. \A a \in S : place[a] \in T
  BY DEF Without
<1>3. \A a, b \in S : a < b => place[a] < place[b]
  BY DEF Without
<1>4. \A a, b \in S : place[a] = place[b] => a = b
  <2> SUFFICES ASSUME NEW a \in S, NEW b \in S, place[a] = place[b], a # b PROVE FALSE
    OBVIOUS
  <2>1. a < b \/ b < a
    BY <1>1
  <2>2. place[a] \in Int
    BY <1>1, <1>2
  <2> QED
    BY <1>3, <2>1, <2>2
<1>5. at \in [S -> T] /\ \A a, b \in S : at[a] = at[b] => a = b
  BY <1>2, <1>4
<1>6. /\ IsFiniteSet(S) /\ Cardinality(S) = Len(v)
      /\ IsFiniteSet(T) /\ Cardinality(T) = Len(u)
  <2>1. ASSUME NEW n \in Nat PROVE IsFiniteSet(1..n) /\ Cardinality(1..n) = n
    <3>1. 1 \in Int /\ n \in Int /\ (IF 1 > n THEN 0 ELSE n - 1 + 1) = n
      OBVIOUS
    <3>2. IsFiniteSet(1..n) /\ Cardinality(1..n) = IF 1 > n THEN 0 ELSE n - 1 + 1
      BY <3>1, FS_Interval
    <3> QED
      BY <3>1, <3>2
  <2> QED
    BY <1>1, <2>1
<1> HIDE DEF S, T, at
<1>7. at \in Injection(S, T)
  BY <1>5 DEF Injection, IsInjective
<1>8. Cardinality(S) <= Cardinality(T)
  BY <1>6, <1>7, FS_Injection
<1> QED
  BY <1>6, <1>8

LEMMA FileUndoneAscends ==
  ASSUME NEW u \in Seq(Change), NEW v \in Seq(Change), NEW f, NEW run, NEW place,
         Without(v, u, place, f, run), NEW r \in Seq(Change), NEW g, TurnsAscend(u, r, g),
         NEW c \in Change, c.file = f, c.run = run,
         g = f => \E last \in 1..Len(u) :
                    u[last].file = f /\ u[last].run = run /\ IsLatest(u, last)
  PROVE  TurnsAscend(v, Push(r, c), g)
<1> SUFFICES ASSUME NEW p, p = Push(r, c) PROVE TurnsAscend(v, p, g)
  OBVIOUS
<1>1. Len(u) \in Nat /\ Len(r) \in Nat /\ p \in Seq(Change) /\ Len(p) \in Nat
  BY PushedStack, LenProperties
<1>2. PICK over \in 0..Len(r) : Pushed(p, r, c, over)
  BY PushedEntries
<1>3. /\ p[Len(p)] = c
      /\ \A k \in 1..Len(p) : k # Len(p) => k + over \in 1..Len(r) /\ p[k] = r[k + over]
  BY <1>2 DEF Pushed
<1>4. /\ \A a \in 1..Len(v) : /\ place[a] \in 1..Len(u) /\ v[a] = u[place[a]]
                              /\ ~(v[a].file = f /\ v[a].run = run)
      /\ \A a, b \in 1..Len(v) : a < b => place[a] < place[b]
  BY DEF Without
<1>5. \A i \in 1..Len(v) : g = f /\ v[i].file = f => v[i].run <= run
  <2> SUFFICES ASSUME NEW i \in 1..Len(v), g = f, v[i].file = f PROVE v[i].run <= run
    OBVIOUS
  <2>1. PICK last \in 1..Len(u) : u[last].file = f /\ u[last].run = run /\ IsLatest(u, last)
    OBVIOUS
  <2>2. place[i] \in 1..Len(u) /\ u[place[i]] = v[i] /\ place[i] # last
    BY <1>4, <2>1
  <2>3. place[i] < last
    <3>1. ~(place[i] \in last + 1..Len(u))
      BY <2>1, <2>2 DEF IsLatest
    <3> QED
      BY <1>1, <2>2, <3>1
  <2> QED
    BY <2>1, <2>2, <2>3 DEF TurnsAscend
<1>6. \A j \in 1..Len(r) : g = f /\ r[j].file = f => run <= r[j].run
  BY DEF TurnsAscend
<1>7. ASSUME NEW i \in 1..Len(v), NEW j \in 1..Len(v), i < j, v[i].file = g, v[j].file = g
      PROVE  v[i].run <= v[j].run
  BY <1>4, <1>7 DEF TurnsAscend
<1>8. ASSUME NEW i \in 1..Len(p), NEW j \in 1..Len(p), i < j, p[i].file = g, p[j].file = g
      PROVE  p[j].run <= p[i].run
  <2>1. i # Len(p) /\ i + over \in 1..Len(r) /\ p[i] = r[i + over]
    BY <1>1, <1>3, <1>8
  <2>2. CASE j = Len(p)
    BY <1>3, <1>6, <1>8, <2>1, <2>2
  <2>3. CASE j # Len(p)
    <3>1. j + over \in 1..Len(r) /\ p[j] = r[j + over] /\ i + over < j + over
      BY <1>1, <1>3, <1>8, <2>3
    <3>2. r[i + over].file = g /\ r[j + over].file = g
      BY <1>8, <2>1, <3>1
    <3>3. r[j + over].run <= r[i + over].run
      BY <2>1, <3>1, <3>2 DEF TurnsAscend
    <3> QED
      BY <2>1, <3>1, <3>3
  <2> QED
    BY <2>2, <2>3
<1>9. ASSUME NEW i \in 1..Len(v), NEW j \in 1..Len(p), v[i].file = g, p[j].file = g
      PROVE  v[i].run <= p[j].run
  <2>1. CASE j = Len(p)
    BY <1>3, <1>5, <1>9, <2>1
  <2>2. CASE j # Len(p)
    <3>1. j + over \in 1..Len(r) /\ p[j] = r[j + over]
      BY <1>1, <1>3, <1>9, <2>2
    <3>2. place[i] \in 1..Len(u) /\ v[i] = u[place[i]]
      BY <1>4
    <3>3. u[place[i]].file = g /\ r[j + over].file = g
      BY <1>9, <3>1, <3>2
    <3>4. u[place[i]].run <= r[j + over].run
      BY <3>1, <3>2, <3>3 DEF TurnsAscend
    <3> QED
      BY <3>1, <3>2, <3>4
  <2> QED
    BY <2>1, <2>2
<1> QED
  BY <1>7, <1>8, <1>9 DEF TurnsAscend

\* The first and the last of the changes of a turn to a file.
Spans(u, f, run, first, last) ==
  /\ first \in 1..Len(u) /\ u[first].file = f /\ u[first].run = run
  /\ last \in 1..Len(u) /\ u[last].file = f /\ u[last].run = run
  /\ \A k \in 1..Len(u) : u[k].file = f /\ u[k].run = run => first <= k /\ k <= last

\* Links after one file of one turn is undone.
LEMMA LinkedByFileUndo ==
  ASSUME NEW u, u = stacks.undo, u \in Seq(Change), NEW r \in Seq(Change),
         NEW f, NEW run, NEW v, v = Others(f, run),
         NEW first, NEW last, Spans(u, f, run, first, last), u[first].before # NoText,
         NEW c \in Change, c.file = f, c.run = run,
         c.before = u[first].before, c.after = u[last].after,
         NEW g, NEW d, Linked(u, r, g, d), NEW e,
         IF g = f THEN e = c.before /\ c.after = d /\ IsLatest(u, last) ELSE e = d
  PROVE  Linked(v, Push(r, c), g, e)
<1>1. v \in Seq(Change)
  BY OtherPathsStay
<1>2. PICK place : Without(v, u, place, f, run)
  BY OtherPathsStay
<1>3. TurnsAscend(v, Push(r, c), g)
  BY <1>1, <1>2, FileUndoneAscends DEF Linked, Spans
<1>4. CASE g = f
  <2>1. UndoPath(v, g, e)
    <3>1. UndoPath(u, f, d) /\ TurnsAscend(u, r, f) /\ IsLatest(u, last)
      BY <1>4 DEF Linked
    <3>2. UndoPath(v, f, u[first].before)
      BY <1>1, <1>2, <3>1, OwnUndoPath DEF Spans
    <3> QED
      BY <1>4, <3>2
  <2>2. c.after = Kept(d) /\ Kept(e) = c.before
    <3>1. c.before \in Texts \cup {Absent, NoText} /\ c.after \in Texts
      BY DEF Change
    <3>2. e = c.before /\ e # NoText /\ d = c.after
      BY <1>4
    <3> QED
      BY <3>1, <3>2, FileAssumption DEF Kept, Absent, Binary, NoText
  <2>3. RedoPath(Push(r, c), g, Kept(e))
    BY <1>4, <2>2, RedoPathPushed DEF Linked
  <2> QED
    BY <1>3, <2>1, <2>3 DEF Linked
<1>5. CASE g # f
  <2>1. UndoPath(v, g, e)
    BY <1>1, <1>2, <1>5, OthersUndoPath DEF Linked
  <2>2. RedoPath(Push(r, c), g, Kept(e))
    BY <1>5, RedoPathPushed DEF Linked
  <2> QED
    BY <1>3, <2>1, <2>2 DEF Linked
<1> QED
  BY <1>4, <1>5

LEMMA HeldStacks ==
  ASSUME NEW q \in Seq(Change), NEW r \in Nat, Held(q, r)
  PROVE  /\ \A c \in Change : c.run <= r => /\ Push(q, c) \in Seq(Change)
                                            /\ Held(Push(q, c), r)
         /\ q # <<>> => /\ Popped(q) \in Seq(Change) /\ Held(Popped(q), r)
                        /\ Top(q) \in Change /\ Top(q).run <= r
<1>1. Len(q) \in Nat
  BY LenProperties
<1>2. ASSUME NEW c \in Change, c.run <= r
      PROVE  Push(q, c) \in Seq(Change) /\ Held(Push(q, c), r)
  <2> SUFFICES ASSUME NEW p, p = Push(q, c) PROVE p \in Seq(Change) /\ Held(p, r)
    OBVIOUS
  <2>1. p \in Seq(Change) /\ Len(p) \in 1..StackHolds
    BY PushedStack
  <2>2. PICK over \in 0..Len(q) : Pushed(p, q, c, over)
    BY PushedEntries
  <2>3. \A k \in 1..Len(p) : p[k].run <= r
    BY <1>2, <2>2 DEF Pushed, Held
  <2> QED
    BY <2>1, <2>3, FileAssumption DEF Held
<1>3. ASSUME q # <<>>
      PROVE  /\ Popped(q) \in Seq(Change) /\ Held(Popped(q), r)
             /\ Top(q) \in Change /\ Top(q).run <= r
  <2> SUFFICES ASSUME NEW p, p = Popped(q)
               PROVE  p \in Seq(Change) /\ Held(p, r) /\ Top(q) \in Change /\ Top(q).run <= r
    OBVIOUS
  <2>1. /\ Len(q) \in Nat \ {0} /\ Top(q) = q[Len(q)] /\ Top(q) \in Change
        /\ p \in Seq(Change) /\ Len(p) = Len(q) - 1 /\ \A k \in 1..Len(p) : p[k] = q[k]
    BY <1>3, PoppedStack
  <2> QED
    BY <2>1, FileAssumption DEF Held
<1> QED
  BY <1>2, <1>3

\* One file is moved, by a command or from outside; during a turn it is foreign.
LEMMA FileMoved ==
  ASSUME FilesInv, NEW f \in Files, NEW content \in Contents,
         disk' = [disk EXCEPT ![f] = content], UNCHANGED <<copy, runs, checkpoint>>,
         stacks' \in Stacks, Held(stacks'.undo, runs), Held(stacks'.redo, runs),
         (foreign' = foreign /\ copy = NoCopy) \/ foreign' = foreign \cup {f},
         \A g \in Files \ foreign' :
           LET e == IF g = f THEN content ELSE disk[g]
           IN Linked(stacks.undo, stacks.redo, g, disk[g]) =>
                Linked(stacks'.undo, stacks'.redo, g, e)
  PROVE  FilesInv'
<1>1. FilesTyped
  BY DEF FilesInv
<1>2. FilesTyped'
  BY <1>1 DEF FilesTyped
<1>3. \A g \in Files : disk'[g] = IF g = f THEN content ELSE disk[g]
  BY <1>1 DEF FilesTyped
<1>4. ASSUME NEW g \in Files \ foreign', copy = NoCopy \/ g \notin copy.changed
      PROVE  Linked(stacks'.undo, stacks'.redo, g, disk'[g])
  <2>1. g \notin foreign
    OBVIOUS
  <2>2. Linked(stacks.undo, stacks.redo, g, disk[g])
    BY <1>4, <2>1 DEF FilesInv
  <2> QED
    BY <1>3, <2>2
<1>5. ASSUME NEW g \in Files \ foreign', copy # NoCopy
      PROVE  Linked(copy.undo, copy.redo, g, disk'[g])
  <2>1. g \notin foreign /\ disk'[g] = disk[g]
    BY <1>3, <1>5
  <2> QED
    BY <1>5, <2>1 DEF FilesInv
<1> QED
  BY <1>2, <1>4, <1>5 DEF FilesInv

LEMMA UndoKeepsFiles ==
  ASSUME FilesInv, Undoes
  PROVE  FilesInv'
<1> SUFFICES ASSUME NEW c, c = Top(stacks.undo), NEW new,
                    new = [undo |-> Popped(stacks.undo), redo |-> Push(stacks.redo, c)]
             PROVE  FilesInv'
  OBVIOUS
<1>1. FilesTyped /\ runs \in Nat
  BY FileAssumption DEF FilesInv, FilesTyped
<1>2. /\ stacks.undo # <<>> /\ stacks.undo \in Seq(Change) /\ stacks.redo \in Seq(Change)
      /\ Held(stacks.undo, runs) /\ Held(stacks.redo, runs)
  BY <1>1 DEF Undoes, FilesTyped, Stacks
<1>3. c \in Change /\ c.run <= runs
  BY <1>1, <1>2, HeldStacks
<1>4. new \in Stacks /\ Held(new.undo, runs) /\ Held(new.redo, runs)
  BY <1>1, <1>2, <1>3, HeldStacks DEF Stacks
<1>5. Moves(c.file, c.before, new)
  BY DEF Undoes
<1>6. c.file \in Files /\ c.before # NoText /\ c.before \in Contents
  BY <1>3, <1>5 DEF Moves, Restorable, Change, Contents
<1>7. ASSUME stacks' = new
      PROVE  \A g \in Files \ foreign' :
               LET e == IF g = c.file THEN c.before ELSE disk[g]
               IN Linked(stacks.undo, stacks.redo, g, disk[g]) =>
                    Linked(stacks'.undo, stacks'.redo, g, e)
  BY <1>2, <1>6, <1>7, LinkedByUndo
<1>8. CASE stacks' = new
  BY <1>4, <1>5, <1>6, <1>7, <1>8, FileMoved DEF Moves
<1>9. CASE stacks' = stacks /\ foreign' = foreign \cup {c.file}
  BY <1>1, <1>2, <1>5, <1>6, <1>9, FileMoved DEF Moves, FilesTyped
<1> QED
  BY <1>5, <1>8, <1>9 DEF Moves

LEMMA RedoKeepsFiles ==
  ASSUME FilesInv, Redoes
  PROVE  FilesInv'
<1> SUFFICES ASSUME NEW c, c = Top(stacks.redo), NEW new,
                    new = [undo |-> Push(stacks.undo, c), redo |-> Popped(stacks.redo)]
             PROVE  FilesInv'
  OBVIOUS
<1>1. FilesTyped /\ runs \in Nat
  BY FileAssumption DEF FilesInv, FilesTyped
<1>2. /\ stacks.redo # <<>> /\ stacks.undo \in Seq(Change) /\ stacks.redo \in Seq(Change)
      /\ Held(stacks.undo, runs) /\ Held(stacks.redo, runs)
  BY <1>1 DEF Redoes, FilesTyped, Stacks
<1>3. c \in Change /\ c.run <= runs
  BY <1>1, <1>2, HeldStacks
<1>4. new \in Stacks /\ Held(new.undo, runs) /\ Held(new.redo, runs)
  BY <1>1, <1>2, <1>3, HeldStacks DEF Stacks
<1>5. Moves(c.file, c.after, new)
  BY DEF Redoes
<1>6. c.file \in Files /\ c.after \in Contents
  BY <1>3 DEF Change, Contents
<1>7. ASSUME stacks' = new
      PROVE  \A g \in Files \ foreign' :
               LET e == IF g = c.file THEN c.after ELSE disk[g]
               IN Linked(stacks.undo, stacks.redo, g, disk[g]) =>
                    Linked(stacks'.undo, stacks'.redo, g, e)
  BY <1>2, <1>6, <1>7, LinkedByRedo
<1>8. CASE stacks' = new
  BY <1>4, <1>5, <1>6, <1>7, <1>8, FileMoved DEF Moves
<1>9. CASE stacks' = stacks /\ foreign' = foreign \cup {c.file}
  BY <1>1, <1>2, <1>5, <1>6, <1>9, FileMoved DEF Moves, FilesTyped
<1> QED
  BY <1>5, <1>8, <1>9 DEF Moves

LEMMA FileUndoKeepsFiles ==
  ASSUME FilesInv, NEW f \in Files, NEW run \in 1..MaxRuns, UndoesFile(f, run)
  PROVE  FilesInv'
<1> SUFFICES ASSUME NEW u, u = stacks.undo, NEW v, v = Others(f, run) PROVE FilesInv'
  OBVIOUS
<1>1. FilesTyped /\ runs \in Nat
  BY FileAssumption DEF FilesInv, FilesTyped
<1>2. /\ u \in Seq(Change) /\ stacks.redo \in Seq(Change)
      /\ Held(u, runs) /\ Held(stacks.redo, runs)
  BY <1>1 DEF FilesTyped, Stacks
<1>3. DOMAIN u = 1..Len(u)
  BY <1>2, LenProperties
<1>4. PICK i \in OfTurn(f, run), j \in OfTurn(f, run) :
         /\ \A k \in OfTurn(f, run) : i <= k /\ k <= j
         /\ u[j].after = disk[f] /\ Restorable(u[i].before)
         /\ disk' = [disk EXCEPT ![f] = u[i].before]
         /\ \/ /\ stacks' = [undo |-> v, redo |-> Push(stacks.redo, Grouped(u[i], u[j]))]
               /\ foreign' = IF copy = NoCopy /\ IsLatest(u, j) THEN foreign
                             ELSE foreign \cup {f}
            \/ stacks' = stacks /\ foreign' = foreign \cup {f}
  BY DEF UndoesFile
<1>5. UNCHANGED <<copy, runs, checkpoint>>
  BY DEF UndoesFile
<1>6. /\ i \in 1..Len(u) /\ u[i].file = f /\ u[i].run = run
      /\ j \in 1..Len(u) /\ u[j].file = f /\ u[j].run = run
      /\ \A k \in 1..Len(u) : u[k].file = f /\ u[k].run = run => i <= k /\ k <= j
  BY <1>3, <1>4 DEF OfTurn
<1>15. Spans(u, f, run, i, j)
  BY <1>6 DEF Spans
<1>7. u[i] \in Change /\ u[j] \in Change
  BY <1>2, <1>6, ElementOfSeq
<1> DEFINE c == Grouped(u[i], u[j])
<1>8. c \in Change /\ c.file = f /\ c.run = run /\ c.before = u[i].before /\ c.after = u[j].after
  BY <1>6, <1>7 DEF Grouped, Change
<1>9. c.before # NoText /\ c.before \in Contents /\ c.run <= runs
  <2>1. u[i].run <= runs
    BY <1>2, <1>6 DEF Held
  <2> QED
    BY <1>4, <1>6, <1>7, <1>8, <2>1 DEF Restorable, Change, Contents
<1> HIDE DEF c
<1>10. v \in Seq(Change) /\ Held(v, runs)
  <2>1. v \in Seq(Change)
    BY <1>2, OtherPathsStay
  <2>2. PICK place : Without(v, u, place, f, run)
    BY <1>2, OtherPathsStay
  <2>3. Len(v) <= StackHolds
    <3>1. Len(v) <= Len(u) /\ Len(u) <= StackHolds
      BY <1>2, <2>1, <2>2, OthersAreFewer DEF Held
    <3>2. Len(v) \in Nat /\ Len(u) \in Nat
      BY <1>2, <2>1, LenProperties
    <3> QED
      BY <3>1, <3>2, FileAssumption
  <2>4. \A k \in 1..Len(v) : v[k].run <= runs
    BY <1>2, <2>2 DEF Without, Held
  <2> QED
    BY <2>1, <2>3, <2>4 DEF Held
<1>16. disk' = [disk EXCEPT ![f] = c.before]
  BY <1>4, <1>8
<1>17. CASE stacks' = stacks /\ foreign' = foreign \cup {f}
  BY <1>1, <1>2, <1>5, <1>9, <1>16, <1>17, FileMoved DEF FilesTyped
<1>18. CASE ~(stacks' = stacks /\ foreign' = foreign \cup {f})
  <2>1. /\ stacks' = [undo |-> v, redo |-> Push(stacks.redo, c)]
        /\ foreign' = IF copy = NoCopy /\ IsLatest(u, j) THEN foreign ELSE foreign \cup {f}
    BY <1>4, <1>18 DEF c
  <2>2. stacks' \in Stacks /\ Held(stacks'.undo, runs) /\ Held(stacks'.redo, runs)
    BY <1>1, <1>2, <1>8, <1>9, <1>10, <2>1, HeldStacks DEF Stacks
  <2>3. ASSUME NEW g \in Files \ foreign', Linked(stacks.undo, stacks.redo, g, disk[g])
        PROVE  Linked(stacks'.undo, stacks'.redo, g, IF g = f THEN c.before ELSE disk[g])
    <3> SUFFICES ASSUME NEW e, e = IF g = f THEN c.before ELSE disk[g]
                 PROVE  Linked(v, Push(stacks.redo, c), g, e)
      BY <2>1
    <3>1. g = f => c.after = disk[g] /\ IsLatest(u, j)
      BY <1>4, <1>8, <2>1
    <3>2. IF g = f THEN e = c.before /\ c.after = disk[g] /\ IsLatest(u, j) ELSE e = disk[g]
      BY <3>1
    <3>3. u[i].before # NoText
      BY <1>8, <1>9
    <3> QED
      BY <1>2, <1>8, <2>3, <1>15, <3>2, <3>3, LinkedByFileUndo
  <2>4. (foreign' = foreign /\ copy = NoCopy) \/ foreign' = foreign \cup {f}
    BY <2>1
  <2> QED
    BY <1>5, <1>9, <1>16, <2>2, <2>3, <2>4, FileMoved
<1> QED
  BY <1>17, <1>18

LEMMA ChangeKeepsFiles ==
  ASSUME FilesInv, NEW f \in Files, NEW text \in Texts, Changes(f, text)
  PROVE  FilesInv'
<1> DEFINE c == [file |-> f, run |-> copy.run, before |-> Kept(disk[f]), after |-> text]
<1>1. FilesTyped /\ runs \in Nat /\ copy # NoCopy
  BY FileAssumption DEF FilesInv, FilesTyped, Changes
<1>2. /\ copy.run = runs /\ runs \in 1..MaxRuns
      /\ copy.undo \in Seq(Change) /\ copy.redo \in Seq(Change) /\ copy.changed \subseteq Files
      /\ Held(copy.undo, runs)
  BY <1>1 DEF FilesTyped
<1>3. c \in Change /\ c.file = f /\ c.run = runs /\ c.before = Kept(disk[f]) /\ c.after = text
  BY <1>1, <1>2 DEF Change, Kept, FilesTyped, Contents
<1>4. /\ disk' = [disk EXCEPT ![f] = text]
      /\ copy' = [run |-> copy.run, undo |-> Push(copy.undo, c), redo |-> <<>>,
                  changed |-> copy.changed \cup {f}]
      /\ UNCHANGED <<stacks, runs, checkpoint, foreign>>
  BY DEF Changes
<1> HIDE DEF c
<1>5. Push(copy.undo, c) \in Seq(Change) /\ Held(Push(copy.undo, c), runs)
  <2>1. c.run <= runs
    BY <1>1, <1>3
  <2> QED
    BY <1>1, <1>2, <1>3, <2>1, HeldStacks
<1>6. <<>> \in Seq(Change) /\ Held(<<>>, runs)
  BY FileAssumption DEF Held
<1>7. /\ copy' \in [run : {runs} \ {0}, undo : Seq(Change), redo : Seq(Change),
                    changed : SUBSET Files]
      /\ copy'.undo = Push(copy.undo, c) /\ copy'.redo = <<>>
      /\ copy'.changed = copy.changed \cup {f} /\ copy'.run = runs /\ copy' # NoCopy
  BY <1>2, <1>4, <1>5, <1>6 DEF NoCopy
<1>8. FilesTyped'
  BY <1>1, <1>4, <1>5, <1>6, <1>7 DEF FilesTyped, Contents
<1>9. \A g \in Files : disk'[g] = IF g = f THEN text ELSE disk[g]
  BY <1>1, <1>4 DEF FilesTyped
<1>10. ASSUME NEW g \in Files \ foreign', g \notin copy'.changed
       PROVE  Linked(stacks'.undo, stacks'.redo, g, disk'[g])
  BY <1>4, <1>7, <1>9, <1>10 DEF FilesInv
<1>11. ASSUME NEW g \in Files \ foreign'
       PROVE  Linked(copy'.undo, copy'.redo, g, disk'[g])
  <2>1. Linked(copy.undo, copy.redo, g, disk[g])
    BY <1>1, <1>4 DEF FilesInv
  <2>2. Held(copy.undo, c.run)
    BY <1>2, <1>3
  <2>3. IF c.file = g THEN c.before = Kept(disk[g]) /\ disk'[g] = c.after ELSE disk'[g] = disk[g]
    BY <1>3, <1>9
  <2>4. Linked(Push(copy.undo, c), <<>>, g, disk'[g])
    BY <1>2, <1>3, <2>1, <2>2, <2>3, LinkedByChange
  <2> QED
    BY <1>7, <2>4
<1> QED
  BY <1>7, <1>8, <1>10, <1>11 DEF FilesInv

LEMMA RunKeepsFiles ==
  ASSUME FilesInv, BeginsRun \/ SavesRun \/ RunDies
  PROVE  FilesInv'
<1>1. FilesTyped /\ runs \in Nat /\ stacks \in Stacks
  BY FileAssumption DEF FilesInv, FilesTyped
<1>2. CASE BeginsRun
  <2>1. /\ copy = NoCopy /\ runs' \in {runs, runs + 1} \ {0} /\ runs' \in 0..MaxRuns
        /\ copy' = [run |-> runs', undo |-> stacks.undo, redo |-> stacks.redo, changed |-> {}]
        /\ UNCHANGED <<disk, stacks, checkpoint, foreign>>
    BY <1>1, <1>2, FileAssumption DEF BeginsRun
  <2>2. /\ copy' \in [run : {runs'} \ {0}, undo : Seq(Change), redo : Seq(Change),
                      changed : SUBSET Files]
        /\ copy'.undo = stacks.undo /\ copy'.redo = stacks.redo
    BY <1>1, <2>1 DEF Stacks
  <2>3. \A q \in Seq(Change) : Held(q, runs) => Held(q, runs')
    <3> SUFFICES ASSUME NEW q \in Seq(Change), Held(q, runs), NEW k \in 1..Len(q)
                 PROVE  q[k].run <= runs'
      BY DEF Held
    <3>1. q[k] \in Change /\ q[k].run <= runs
      BY ElementOfSeq DEF Held
    <3>2. q[k].run \in Nat
      BY <3>1, FileAssumption DEF Change
    <3> QED
      BY <1>1, <2>1, <3>1, <3>2
  <2>4. FilesTyped'
    BY <1>1, <2>1, <2>2, <2>3 DEF FilesTyped, Stacks
  <2>5. \A g \in Files \ foreign' : Linked(stacks.undo, stacks.redo, g, disk[g])
    BY <2>1 DEF FilesInv
  <2> QED
    BY <2>1, <2>2, <2>4, <2>5 DEF FilesInv
<1>3. CASE SavesRun
  <2>1. /\ copy # NoCopy /\ stacks' = [undo |-> copy.undo, redo |-> copy.redo]
        /\ copy' = copy \/ copy' = NoCopy
        /\ UNCHANGED <<disk, runs, checkpoint, foreign>>
    BY <1>3 DEF SavesRun
  <2>2. /\ stacks' \in Stacks /\ stacks'.undo = copy.undo /\ stacks'.redo = copy.redo
    BY <1>1, <2>1 DEF FilesTyped, Stacks
  <2>3. FilesTyped'
    BY <1>1, <2>1, <2>2 DEF FilesTyped
  <2>4. \A g \in Files \ foreign : Linked(copy.undo, copy.redo, g, disk[g])
    BY <2>1 DEF FilesInv
  <2> QED
    BY <2>1, <2>2, <2>3, <2>4 DEF FilesInv
<1>4. CASE RunDies
  <2>1. /\ copy # NoCopy /\ foreign' = foreign \cup copy.changed /\ copy' = NoCopy
        /\ UNCHANGED <<disk, stacks, runs, checkpoint>>
    BY <1>4 DEF RunDies
  <2>2. FilesTyped'
    BY <1>1, <2>1 DEF FilesTyped
  <2>3. \A g \in Files \ foreign' : Linked(stacks.undo, stacks.redo, g, disk[g])
    BY <2>1 DEF FilesInv
  <2> QED
    BY <2>1, <2>2, <2>3 DEF FilesInv
<1> QED
  BY <1>2, <1>3, <1>4

LEMMA CheckpointKeepsFiles ==
  ASSUME FilesInv, TakesCheckpoint \/ RestoresCheckpoint
  PROVE  FilesInv'
<1>1. FilesTyped
  BY DEF FilesInv
<1>2. CASE TakesCheckpoint
  <2>1. checkpoint' \in [Files -> Contents]
    BY <1>1, <1>2 DEF TakesCheckpoint, Snapshot, FilesTyped, Contents
  <2>2. FilesTyped'
    BY <1>1, <1>2, <2>1 DEF TakesCheckpoint, FilesTyped
  <2> QED
    BY <1>2, <2>2 DEF TakesCheckpoint, FilesInv
<1>3. CASE RestoresCheckpoint
  <2>1. /\ disk' = checkpoint /\ foreign' = foreign \cup Moved
        /\ UNCHANGED <<stacks, copy, runs, checkpoint>>
    BY <1>3 DEF RestoresCheckpoint
  <2>2. FilesTyped'
    BY <1>1, <2>1 DEF FilesTyped, Moved
  <2>3. \A g \in Files \ foreign' : g \notin foreign /\ disk'[g] = disk[g]
    BY <2>1 DEF Moved
  <2> QED
    BY <2>1, <2>2, <2>3 DEF FilesInv
<1> QED
  BY <1>2, <1>3

LEMMA FilesSteps == FilesInv /\ [FileNext]_fileVars => FilesInv'
<1> SUFFICES ASSUME FilesInv, [FileNext]_fileVars PROVE FilesInv'
  OBVIOUS
<1>1. ASSUME NEW f \in Files, NEW content \in Contents, EditsOutside(f, content)
      PROVE  FilesInv'
  <2>1. /\ disk' = [disk EXCEPT ![f] = content] /\ foreign' = foreign \cup {f}
        /\ UNCHANGED <<stacks, copy, runs, checkpoint>>
    BY <1>1 DEF EditsOutside
  <2>2. stacks' \in Stacks /\ Held(stacks'.undo, runs) /\ Held(stacks'.redo, runs)
    BY <2>1 DEF FilesInv, FilesTyped
  <2>3. \A g \in Files \ foreign' : g # f
    BY <2>1
  <2> QED
    BY <2>1, <2>2, <2>3, FileMoved
<1>2. CASE UNCHANGED fileVars
  BY <1>2 DEF fileVars, FilesInv, FilesTyped
<1>3. CASE FileNext
  BY <1>1, <1>3, RunKeepsFiles, UndoKeepsFiles, RedoKeepsFiles, CheckpointKeepsFiles,
     ChangeKeepsFiles, FileUndoKeepsFiles
  DEF FileNext
<1> QED
  BY <1>2, <1>3

LEMMA FilesStart == FileInit => FilesInv
<1> SUFFICES ASSUME FileInit PROVE FilesInv
  OBVIOUS
<1>1. <<>> \in Seq(Change) /\ Len(<<>>) = 0
  OBVIOUS
<1>2. stacks \in Stacks /\ stacks.undo = <<>> /\ stacks.redo = <<>>
  BY <1>1 DEF FileInit, Stacks
<1>3. \A r : Held(<<>>, r)
  BY <1>1, FileAssumption DEF Held
<1>4. disk \in [Files -> Contents] /\ checkpoint \in [Files -> Contents]
  BY FileAssumption DEF FileInit, Snapshot, Contents
<1>5. FilesTyped
  BY <1>2, <1>3, <1>4, FileAssumption DEF FileInit, FilesTyped
<1>6. \A f, d : Linked(<<>>, <<>>, f, d)
  BY <1>1 DEF Linked, UndoPath, RedoPath, TurnsAscend
<1> QED
  BY <1>2, <1>5, <1>6 DEF FileInit, FilesInv

\* Every variable of the undo model keeps its type, and the stacks their bound.
THEOREM FileTypeCorrect == FileSpec => []FileTypeOK
<1>1. FilesInv => FileTypeOK
  <2> SUFFICES ASSUME FilesTyped PROVE FileTypeOK
    BY DEF FilesInv
  <2>1. ASSUME NEW q \in {stacks.undo, stacks.redo}
        PROVE  Len(q) <= StackHolds /\ \A i \in DOMAIN q : q[i] \in Change
    <3>1. q \in Seq(Change) /\ Held(q, runs)
      BY <2>1 DEF FilesTyped, Stacks
    <3>2. DOMAIN q = 1..Len(q)
      BY <3>1, LenProperties
    <3> QED
      BY <3>1, <3>2, ElementOfSeq DEF Held
  <2>2. copy.run \in 0..runs
    BY FileAssumption DEF FilesTyped, NoCopy
  <2> QED
    BY <2>1, <2>2 DEF FilesTyped, FileTypeOK
<1> QED
  BY FilesStart, FilesSteps, <1>1, PTL DEF FileSpec

\* However undo, redo, undoing one file of one turn, the changes of turns,
\* their deaths and what others do to the files follow each other: the stacks
\* remain an exact path of every file that only the stacks' changes have moved.
THEOREM UndoRetracesSteps == FileSpec => []StacksLinkUp
<1>1. FilesInv => StacksLinkUp
  BY DEF FilesInv, StacksLinkUp, Linked
<1> QED
  BY FilesStart, FilesSteps, <1>1, PTL DEF FileSpec

-----------------------------------------------------------------------------
(* The command line's loop.                                                *)


-----------------------------------------------------------------------------
(* The inductive invariant.                                                *)

Mems ==
  [made : BOOLEAN, subagent : BOOLEAN, parent : Nat, depth : Nat, lineage : Seq(Agents),
   agent : Agents \cup {"default"}, status : {"idle", "running", "paused", "stop"},
   task : {"none", "queued"}, asked : Ids \cup {0},
   decision : {"none", "once", "always", "reject"}, question : Ids \cup {0},
   answered : BOOLEAN, pattern : BOOLEAN]

Frames ==
  [session : CliSessions, mem : Mems, at : {"resume", "settle", "step", "route"},
   batch : Seq(Ids), step : Nat, answers : BOOLEAN, for : Nat]

CliCalls == [kind : {"plain", "ask", "question", "task", "queued", "again"},
             session : CliSessions]

CliTyped ==
  /\ files \in [CliSessions -> Mems]
  /\ calls \in Seq(CliCalls) /\ Len(calls) <= MaxCalls
  /\ stack \in Seq(Frames)
  /\ reply = None \/ reply \in [session : CliSessions, mem : Mems]
  /\ ran \in [Ids -> Nat] /\ allowed \in [Ids -> Nat]
  /\ always \subseteq CliSessions
  /\ faults \in 0..MaxFaults

\* A copy of a session's record: whose agents it descends from, and that what it
\* asks for is a call of the session.
MemSound(s, mem) ==
  /\ \A i, j \in DOMAIN mem.lineage : mem.lineage[i] = mem.lineage[j] => i = j
  /\ IF mem.subagent THEN mem.depth = Len(mem.lineage) ELSE mem.lineage = <<>>
  /\ mem.asked # 0 =>
       /\ mem.asked \in DOMAIN calls
       /\ calls[mem.asked].session = s /\ calls[mem.asked].kind = "ask"
  /\ mem.pattern \/ mem.decision = "always" => s \in always

\* How often a tool that needs an approval may have run.
Room(i) == allowed[i] + faults + (IF calls[i].session \in always THEN 1 ELSE 0)

\* A copy that would run the tool of the call it asks for, when it is carried out,
\* finds room for it.
Allows(mem) ==
  mem.asked # 0 /\ mem.decision \in {"once", "always"} /\ ~(mem.question # 0 /\ mem.answered)

HasRoom(mem) == Allows(mem) => ran[mem.asked] + 1 <= Room(mem.asked)

\* A copy of the session, saved or about to be, asks for this call.
AskedFor(s, i) ==
  files[s].asked = i \/ (reply # None /\ reply.session = s /\ reply.mem.asked = i)

\* A call of a batch has not run, and nobody was asked for it.
Unasked(s, i) ==
  i \in DOMAIN calls /\ calls[i].session = s /\ ran[i] = 0 /\ ~AskedFor(s, i)

FrameSound(f) ==
  /\ MemSound(f.session, f.mem)
  /\ f.mem.made /\ f.mem.status = "running"
  /\ files[f.session].made /\ files[f.session].status \in {"running", "paused"}
  /\ f.at \in {"resume", "settle"} => f.batch = <<>>
  /\ f.at \in {"step", "route"} => ~Resumable(f.mem)
  /\ f.at = "resume" => Resumable(f.mem) /\ HasRoom(f.mem)
  /\ \A p \in DOMAIN f.batch : Unasked(f.session, f.batch[p]) /\ f.mem.asked # f.batch[p]
  /\ \A p, q \in DOMAIN f.batch : f.batch[p] = f.batch[q] => p = q

\* Loop f works on a task that loop e gave out.
IsChildOf(f, e) ==
  /\ f.mem.subagent /\ f.mem.parent = e.session
  /\ f.mem.lineage = Append(e.mem.lineage, f.mem.agent)
  /\ f.mem.depth <= MaxDepth

\* A loop is carrying out what the session was paused for.
Resuming(s) ==
  \E k \in DOMAIN stack : stack[k].session = s /\ stack[k].at \in {"resume", "settle"}

FilesSound ==
  \A s \in CliSessions :
    MemSound(s, files[s]) /\ (~Resuming(s) => HasRoom(files[s]))

ReplySound == reply # None => MemSound(reply.session, reply.mem) /\ reply.mem.made

InStack(f) == \E k \in DOMAIN stack : f = stack[k]

StackSound ==
  /\ \A f \in Frames : InStack(f) => FrameSound(f)
  /\ \A j, k \in DOMAIN stack : stack[j].session = stack[k].session => j = k
  /\ \A k \in DOMAIN stack :
       /\ k < Len(stack) => stack[k].batch # <<>>
       /\ k > 1 => IsChildOf(stack[k], stack[k - 1])

CallsSound ==
  /\ \A i \in Ids : i \notin DOMAIN calls => ran[i] = 0
  /\ \A i \in DOMAIN calls : calls[i].kind = "ask" => ran[i] <= Room(i)

CliInv == CliTyped /\ FilesSound /\ ReplySound /\ StackSound /\ CallsSound

-----------------------------------------------------------------------------
\* What the changes of a session's record leave alone.
SameTask(a, b) ==
  /\ a.subagent = b.subagent /\ a.parent = b.parent /\ a.depth = b.depth
  /\ a.lineage = b.lineage /\ a.made = b.made

SamePending(a, b) ==
  /\ a.asked = b.asked /\ a.decision = b.decision /\ a.question = b.question
  /\ a.answered = b.answered /\ a.pattern = b.pattern

\* The changes, by name.
WithStatus(a, st) == [a EXCEPT !.status = st]
OpenedAs(a, agent) == [a EXCEPT !.status = "running", !.agent = agent]
WithQuestion(a, i) == [a EXCEPT !.question = i, !.answered = FALSE]
WithRequest(a, i) == [a EXCEPT !.asked = i, !.decision = "none"]
WithDecision(a, d) == [a EXCEPT !.decision = d]
WithAnswer(a) == [a EXCEPT !.answered = TRUE]
MadeIf(a, v) == [a EXCEPT !.made = v]

LEMMA StatusChanged ==
  ASSUME NEW a \in Mems, NEW st \in {"idle", "running", "paused", "stop"}, NEW b,
         b = WithStatus(a, st)
  PROVE  /\ b \in Mems /\ b.status = st /\ b.agent = a.agent
         /\ SameTask(a, b) /\ SamePending(a, b)
  BY DEF Mems, SameTask, SamePending, WithStatus

LEMMA Opened ==
  ASSUME NEW a \in Mems, NEW agent \in Agents \cup {"default"}, NEW b,
         b = OpenedAs(a, agent)
  PROVE  b \in Mems /\ b.status = "running" /\ SameTask(a, b) /\ SamePending(a, b)
  BY DEF Mems, SameTask, SamePending, OpenedAs

LEMMA ClearedIs ==
  ASSUME NEW a \in Mems, NEW b, b = Cleared(a)
  PROVE  /\ b \in Mems /\ b.status = a.status /\ b.agent = a.agent /\ SameTask(a, b)
         /\ b.pattern = a.pattern /\ b.asked = 0 /\ b.question = 0 /\ b.decision = "none"
  BY DEF Mems, SameTask, Cleared

LEMMA QuestionAsked ==
  ASSUME NEW a \in Mems, NEW i \in Ids, NEW b,
         b = WithQuestion(a, i)
  PROVE  /\ b \in Mems /\ b.status = a.status /\ b.agent = a.agent /\ SameTask(a, b)
         /\ b.pattern = a.pattern /\ b.asked = a.asked /\ b.decision = a.decision
         /\ ~b.answered
  BY DEF Mems, SameTask, WithQuestion

LEMMA ApprovalAsked ==
  ASSUME NEW a \in Mems, NEW i \in Ids, NEW b,
         b = WithRequest(a, i)
  PROVE  /\ b \in Mems /\ b.status = a.status /\ b.agent = a.agent /\ SameTask(a, b)
         /\ b.pattern = a.pattern /\ b.asked = i /\ b.decision = "none"
  BY DEF Mems, SameTask, WithRequest

LEMMA Decided ==
  ASSUME NEW a \in Mems, NEW d \in {"once", "always", "reject"}, NEW c,
         c = WithStatus(WithDecision(a, d), "paused")
  PROVE  /\ c \in Mems /\ c.status = "paused" /\ SameTask(a, c) /\ c.asked = a.asked
         /\ c.decision = d /\ c.pattern = a.pattern
  BY DEF Mems, SameTask, WithDecision, WithStatus

LEMMA QuestionReplied ==
  ASSUME NEW a \in Mems, NEW c, c = WithStatus(WithAnswer(a), "paused")
  PROVE  /\ c \in Mems /\ c.status = "paused" /\ SameTask(a, c) /\ c.asked = a.asked
         /\ c.decision = a.decision /\ c.pattern = a.pattern /\ c.answered
         /\ c.question = a.question
  BY DEF Mems, SameTask, WithAnswer, WithStatus

-----------------------------------------------------------------------------
\* What every step leaves as it is, but for tools of session s that run.
Onward(s) ==
  /\ \A i \in DOMAIN calls :
       /\ i \in DOMAIN calls' /\ calls'[i] = calls[i]
       /\ calls[i].session # s => ran'[i] = ran[i]
       /\ allowed[i] <= allowed'[i]
  /\ faults <= faults' /\ always \subseteq always'

LEMMA CallsTyped ==
  ASSUME CliTyped
  PROVE  /\ Len(calls) \in Nat /\ DOMAIN calls = 1..Len(calls) /\ DOMAIN calls \subseteq Ids
         /\ \A i \in DOMAIN calls : calls[i] \in CliCalls /\ calls[i].session \in CliSessions
         /\ \A i \in Ids : ran[i] \in Nat /\ allowed[i] \in Nat
         /\ faults \in Nat
<1>1. /\ Len(calls) \in Nat /\ DOMAIN calls = 1..Len(calls) /\ Len(calls) <= MaxCalls
      /\ \A i \in DOMAIN calls : calls[i] \in CliCalls
  BY DEF CliTyped
<1>2. DOMAIN calls \subseteq Ids
  BY <1>1, CliAssumption DEF Ids
<1> QED
  BY <1>1, <1>2, CliAssumption DEF CliTyped, CliCalls

LEMMA MemStays ==
  ASSUME NEW s, NEW t, NEW mem, MemSound(t, mem), Onward(s)
  PROVE  MemSound(t, mem)'
<1>1. mem.asked # 0 => /\ mem.asked \in DOMAIN calls' /\ calls'[mem.asked].session = t
                       /\ calls'[mem.asked].kind = "ask"
  BY DEF MemSound, Onward
<1>2. mem.pattern \/ mem.decision = "always" => t \in always'
  BY DEF MemSound, Onward
<1> QED
  BY <1>1, <1>2 DEF MemSound

Counted == ran \in [Ids -> Nat] /\ allowed \in [Ids -> Nat] /\ faults \in 0..MaxFaults

LEMMA RoomKept ==
  ASSUME CliTyped, Counted', NEW s, Onward(s), NEW t, NEW mem, MemSound(t, mem), HasRoom(mem),
         Allows(mem) => ran'[mem.asked] = ran[mem.asked]
  PROVE  HasRoom(mem)'
<1> SUFFICES ASSUME Allows(mem) PROVE ran'[mem.asked] + 1 <= Room(mem.asked)'
  BY DEF HasRoom, Allows
<1> DEFINE i == mem.asked
<1>1. i \in DOMAIN calls /\ i \in Ids /\ ran[i] + 1 <= Room(i) /\ ran'[i] = ran[i]
  BY CallsTyped DEF Allows, MemSound, HasRoom
<1>2. /\ calls'[i] = calls[i] /\ allowed[i] <= allowed'[i]
      /\ faults <= faults' /\ always \subseteq always'
  BY <1>1 DEF Onward
<1>3. /\ ran[i] \in Nat /\ allowed[i] \in Nat /\ allowed'[i] \in Nat
      /\ faults \in Nat /\ faults' \in Nat
  BY <1>1, CliAssumption DEF CliTyped, Counted
<1> HIDE DEF i
<1>4. ran'[i] + 1 <= Room(i)'
  BY <1>1, <1>2, <1>3 DEF Room
<1> QED
  BY <1>4 DEF i

LEMMA RoomStays ==
  ASSUME CliTyped, Counted', NEW s, NEW t, t # s, NEW mem, MemSound(t, mem), HasRoom(mem),
         Onward(s)
  PROVE  HasRoom(mem)'
<1>1. Allows(mem) => ran'[mem.asked] = ran[mem.asked]
  BY DEF Allows, MemSound, Onward
<1> QED
  BY <1>1, RoomKept

\* Copies that are in hand or on disk do not ask for more calls than before.
AsksNoMore(t) == \A i \in Ids : AskedFor(t, i)' => AskedFor(t, i)

LEMMA FrameStays ==
  ASSUME CliTyped, Counted', NEW s, Onward(s), NEW f \in Frames, FrameSound(f),
         f.session # s, AsksNoMore(f.session),
         files'[f.session].made, files'[f.session].status \in {"running", "paused"}
  PROVE  FrameSound(f)'
<1>1. MemSound(f.session, f.mem)'
  BY MemStays DEF FrameSound
<1>2. f.at = "resume" => Resumable(f.mem) /\ HasRoom(f.mem)'
  <2> SUFFICES ASSUME f.at = "resume" PROVE Resumable(f.mem) /\ HasRoom(f.mem)'
    OBVIOUS
  <2>1. MemSound(f.session, f.mem) /\ HasRoom(f.mem) /\ Resumable(f.mem)
    BY DEF FrameSound
  <2> QED
    BY <2>1, RoomStays
<1>3. \A p \in DOMAIN f.batch : Unasked(f.session, f.batch[p])'
  <2> SUFFICES ASSUME NEW p \in DOMAIN f.batch PROVE Unasked(f.session, f.batch[p])'
    OBVIOUS
  <2>1. f.batch[p] \in Ids
    BY DEF Frames
  <2>2. Unasked(f.session, f.batch[p])
    BY DEF FrameSound
  <2> QED
    BY <2>1, <2>2 DEF Unasked, Onward, AsksNoMore
<1> QED
  BY <1>1, <1>2, <1>3 DEF FrameSound

-----------------------------------------------------------------------------
LEMMA AppendPositions ==
  ASSUME NEW S, NEW q \in Seq(S), NEW x \in S
  PROVE  /\ Append(q, x) \in Seq(S) /\ Len(q) \in Nat
         /\ DOMAIN q = 1..Len(q) /\ DOMAIN Append(q, x) = 1..(Len(q) + 1)
         /\ \A p \in 1..Len(q) : Append(q, x)[p] = q[p]
         /\ Append(q, x)[Len(q) + 1] = x
  OBVIOUS

\* The loops of the process.
LEMMA LoopIs ==
  ASSUME CliTyped, Running
  PROVE  /\ Len(stack) \in Nat \ {0} /\ DOMAIN stack = 1..Len(stack)
         /\ Loop = stack[Len(stack)] /\ Len(stack) \in DOMAIN stack /\ Loop \in Frames
         /\ \A k \in DOMAIN stack : stack[k] \in Frames /\ stack[k].session \in CliSessions
<1>1. stack \in Seq(Frames) /\ stack # <<>>
  BY DEF CliTyped, Running
<1>2. Len(stack) \in Nat \ {0} /\ DOMAIN stack = 1..Len(stack)
  BY <1>1
<1>3. \A k \in DOMAIN stack : stack[k] \in Frames
  BY <1>1
<1> QED
  BY <1>2, <1>3 DEF Loop, Last, Frames

LEMMA FrameFields ==
  ASSUME NEW f \in Frames
  PROVE  /\ f.session \in CliSessions /\ f.mem \in Mems
         /\ f.at \in {"resume", "settle", "step", "route"}
         /\ f.batch \in Seq(Ids) /\ f.step \in Nat /\ f.answers \in BOOLEAN /\ f.for \in Nat
  BY DEF Frames

\* The changes of a frame, by name.
NextInBatch(f) == [f EXCEPT !.batch = Tail(@)]
WithBatch(f, n, b) == [f EXCEPT !.step = n, !.batch = b]
Settling(f, q, p) == [f EXCEPT !.at = "settle", !.answers = q, !.mem.pattern = @ \/ p]
CarriedTo(f, at, m) == [f EXCEPT !.at = at, !.mem = m]

LEMMA BatchTyped ==
  ASSUME NEW f \in Frames, f.batch # <<>>, NEW g, g = NextInBatch(f)
  PROVE  /\ g \in Frames /\ g.session = f.session /\ g.mem = f.mem /\ g.at = f.at
         /\ g.batch = Tail(f.batch)
         /\ Head(f.batch) = f.batch[1] /\ f.batch[1] \in Ids /\ 1 \in DOMAIN f.batch
         /\ \A p \in DOMAIN g.batch :
              p \in Nat /\ p + 1 \in DOMAIN f.batch /\ p + 1 # 1 /\ g.batch[p] = f.batch[p + 1]
<1>1. f.batch \in Seq(Ids)
  BY FrameFields
<1>2. /\ Tail(f.batch) \in Seq(Ids) /\ Head(f.batch) = f.batch[1]
      /\ f.batch[1] \in Ids /\ 1 \in DOMAIN f.batch
      /\ \A p \in DOMAIN Tail(f.batch) :
           p \in Nat /\ p + 1 \in DOMAIN f.batch /\ p + 1 # 1 /\ Tail(f.batch)[p] = f.batch[p + 1]
  BY <1>1
<1>3. /\ g.session = f.session /\ g.mem = f.mem /\ g.at = f.at /\ g.batch = Tail(f.batch)
      /\ g = [session |-> f.session, mem |-> f.mem, at |-> f.at, batch |-> Tail(f.batch),
              step |-> f.step, answers |-> f.answers, for |-> f.for]
  BY DEF Frames, NextInBatch
<1>4. g \in Frames
  BY <1>2, <1>3, FrameFields DEF Frames
<1> QED
  BY <1>2, <1>3, <1>4

\* A call of a batch was settled, and had not run.
LEMMA BatchGoesOn ==
  ASSUME NEW f \in Frames, FrameSound(f), f.batch # <<>>, NEW g, g = NextInBatch(f)
  PROVE  g \in Frames /\ FrameSound(g) /\ g.session = f.session /\ g.mem = f.mem /\ g.at = f.at
<1>1. /\ g \in Frames /\ g.session = f.session /\ g.mem = f.mem /\ g.at = f.at
      /\ \A p \in DOMAIN g.batch :
           p \in Nat /\ p + 1 \in DOMAIN f.batch /\ p + 1 # 1 /\ g.batch[p] = f.batch[p + 1]
  BY BatchTyped
<1>2. f.at \notin {"resume", "settle"}
  BY DEF FrameSound
<1>3. \A p \in DOMAIN g.batch : Unasked(g.session, g.batch[p]) /\ g.mem.asked # g.batch[p]
  BY <1>1 DEF FrameSound
<1>4. ASSUME NEW p \in DOMAIN g.batch, NEW q \in DOMAIN g.batch, g.batch[p] = g.batch[q]
      PROVE  p = q
  <2>1. p + 1 = q + 1
    BY <1>1, <1>4 DEF FrameSound
  <2> QED
    BY <1>1, <2>1
<1> QED
  BY <1>1, <1>2, <1>3, <1>4 DEF FrameSound

BelowKeep == \A f \in Frames : (\E k \in 1..(Len(stack) - 1) : f = stack[k]) => FrameSound(f)'

OthersKeep(s) == \A f \in Frames : FrameSound(f) /\ f.session # s => FrameSound(f)'

LEMMA LoopGoesOn ==
  ASSUME CliInv, Running, NEW s, s = Loop.session,
         NEW g \in Frames, stack' = Update(g), g.session = s,
         SameTask(Loop.mem, g.mem), g.mem.agent = Loop.mem.agent, FrameSound(g)', BelowKeep
  PROVE  /\ StackSound' /\ stack' \in Seq(Frames)
         /\ \A t : t # s => (Resuming(t)' <=> Resuming(t))
         /\ g.at \in {"resume", "settle"} => Resuming(s)'
<1> DEFINE n == Len(stack)
<1>1. /\ n \in Nat \ {0} /\ DOMAIN stack = 1..n /\ Loop = stack[n] /\ n \in DOMAIN stack
      /\ \A k \in DOMAIN stack : stack[k] \in Frames
  BY LoopIs DEF CliInv
<1>2. stack \in Seq(Frames) /\ stack' = [stack EXCEPT ![n] = g]
  BY DEF Update, CliInv, CliTyped
<1> HIDE DEF n
<1>3. /\ stack' \in Seq(Frames) /\ DOMAIN stack' = 1..n /\ Len(stack') = n /\ stack'[n] = g
      /\ \A k \in 1..(n - 1) : stack'[k] = stack[k] /\ k \in DOMAIN stack /\ k # n
  BY <1>1, <1>2
<1>4. \A f \in Frames : InStack(f)' => FrameSound(f)'
  <2> SUFFICES ASSUME NEW f \in Frames, NEW k \in 1..n, f = stack'[k] PROVE FrameSound(f)'
    BY <1>3 DEF InStack
  <2>1. CASE k = n
    BY <1>3, <2>1
  <2>2. CASE k # n
    <3>1. k \in 1..(n - 1)
      BY <1>1, <2>2
    <3>2. f = stack[k]
      BY <1>3, <3>1
    <3> QED
      BY <3>1, <3>2 DEF BelowKeep, n
  <2> QED
    BY <2>1, <2>2
<1>5. \A k \in 1..n : stack'[k].session = stack[k].session
  <2> TAKE k \in 1..n
  <2>1. k = n \/ k \in 1..(n - 1)
    BY <1>1
  <2> QED
    BY <1>1, <1>3, <2>1
<1>6. \A j, k \in DOMAIN stack' : stack'[j].session = stack'[k].session => j = k
  BY <1>1, <1>3, <1>5 DEF CliInv, StackSound
<1>7. ASSUME NEW k \in DOMAIN stack' PROVE k < n => stack'[k].batch # <<>>
  <2> SUFFICES ASSUME k < n PROVE stack'[k].batch # <<>>
    OBVIOUS
  <2>1. k \in 1..(n - 1)
    BY <1>1, <1>3
  <2> QED
    BY <1>1, <1>3, <2>1 DEF CliInv, StackSound, n
<1>8. ASSUME NEW k \in DOMAIN stack', k > 1 PROVE IsChildOf(stack'[k], stack'[k - 1])
  <2>1. k \in 1..n /\ k - 1 \in 1..(n - 1) /\ stack'[k - 1] = stack[k - 1]
    BY <1>1, <1>3, <1>8
  <2>2. IsChildOf(stack[k], stack[k - 1])
    BY <1>1, <1>8, <2>1 DEF CliInv, StackSound
  <2>3. SameTask(stack[k].mem, stack'[k].mem) /\ stack'[k].mem.agent = stack[k].mem.agent
    BY <1>1, <1>3, <2>1 DEF SameTask
  <2> QED
    BY <2>1, <2>2, <2>3 DEF IsChildOf, SameTask
<1>9. \A t : t # s => (Resuming(t)' <=> Resuming(t))
  <2> SUFFICES ASSUME NEW t, t # s PROVE Resuming(t)' <=> Resuming(t)
    OBVIOUS
  <2>1. \A k \in 1..n : stack[k].session = t => k \in 1..(n - 1)
    BY <1>1
  <2>2. \A k \in 1..n : stack'[k].session = t => k \in 1..(n - 1)
    BY <1>1, <1>3
  <2> QED
    BY <1>1, <1>3, <2>1, <2>2 DEF Resuming
<1>10. StackSound'
  <2>1. ASSUME NEW k \in DOMAIN stack'
        PROVE  /\ k < Len(stack') => stack'[k].batch # <<>>
               /\ k > 1 => IsChildOf(stack[k], stack[k - 1])'
    <3>1. k < Len(stack') => stack'[k].batch # <<>>
      BY <1>3, <1>7
    <3>2. k > 1 => IsChildOf(stack[k], stack[k - 1])'
      BY <1>8 DEF IsChildOf
    <3> QED
      BY <3>1, <3>2
  <2> QED
    BY <1>4, <1>6, <2>1 DEF StackSound
<1>11. g.at \in {"resume", "settle"} => Resuming(s)'
  BY <1>1, <1>3 DEF Resuming
<1> QED
  BY <1>3, <1>9, <1>10, <1>11

LEMMA LoopSound ==
  ASSUME CliInv, Running
  PROVE  FrameSound(Loop) /\ InStack(Loop)
<1>1. InStack(Loop) /\ Loop \in Frames
  BY LoopIs DEF CliInv, InStack
<1> QED
  BY <1>1 DEF CliInv, StackSound

\* The loops below the top one are of other sessions.
LEMMA OthersBelow ==
  ASSUME CliInv, Running, NEW s, s = Loop.session, OthersKeep(s)
  PROVE  BelowKeep
<1> SUFFICES ASSUME NEW k \in 1..(Len(stack) - 1)
             PROVE  \A f \in Frames : f = stack[k] => FrameSound(f)'
  BY DEF BelowKeep
<1>4. /\ Len(stack) \in Nat \ {0} /\ DOMAIN stack = 1..Len(stack)
      /\ Loop = stack[Len(stack)] /\ Len(stack) \in DOMAIN stack
  BY LoopIs DEF CliInv
<1> PICK n : n = Len(stack)
  OBVIOUS
<1>5. n \in Nat \ {0} /\ DOMAIN stack = 1..n /\ k \in 1..(n - 1)
  BY <1>4
<1>6. k \in 1..n /\ k # n
  BY <1>5
<1>1. k \in DOMAIN stack /\ k # Len(stack)
  BY <1>5, <1>6
<1>2. stack[k].session # s
  BY <1>1, <1>4 DEF CliInv, StackSound
<1>3. \A f \in Frames : f = stack[k] => FrameSound(f)
  BY <1>1 DEF CliInv, StackSound, InStack
<1> QED
  BY <1>2, <1>3 DEF OthersKeep

\* A loop ends, and the call below it is settled.
LeavesStack ==
  stack' = LET below == Front(stack)
           IN IF below = <<>> THEN <<>>
              ELSE [below EXCEPT ![Len(below)].batch = Tail(@)]

LEMMA LoopEnds ==
  ASSUME CliInv, Running, NEW s, s = Loop.session, LeavesStack, OthersKeep(s)
  PROVE  /\ StackSound' /\ stack' \in Seq(Frames)
         /\ \A t : t # s => (Resuming(t)' <=> Resuming(t))
         /\ ~Resuming(s)'
<1> DEFINE n == Len(stack)
           below == Front(stack)
<1>1. /\ n \in Nat \ {0} /\ DOMAIN stack = 1..n /\ Loop = stack[n] /\ n \in DOMAIN stack
      /\ \A k \in DOMAIN stack : stack[k] \in Frames
      /\ stack \in Seq(Frames)
  BY LoopIs DEF CliInv, CliTyped
<1>2. /\ below \in Seq(Frames) /\ Len(below) = n - 1 /\ DOMAIN below = 1..(n - 1)
      /\ \A k \in 1..(n - 1) : below[k] = stack[k]
  BY <1>1 DEF Front
<1>3. stack' = IF below = <<>> THEN <<>> ELSE [below EXCEPT ![Len(below)].batch = Tail(@)]
  BY DEF LeavesStack
<1>4. BelowKeep
  BY OthersBelow
<1>5. \A k \in 1..n : stack[k].session = s => k = n
  BY <1>1 DEF CliInv, StackSound
<1>6. CASE n = 1
  <2>1. stack' = <<>>
    BY <1>2, <1>3, <1>6
  <2>2. StackSound' /\ stack' \in Seq(Frames)
    BY <2>1 DEF StackSound, InStack
  <2>3. \A t : ~Resuming(t)'
    BY <2>1 DEF Resuming
  <2>4. \A t : t # s => ~Resuming(t)
    BY <1>1, <1>6 DEF Resuming
  <2> QED
    BY <2>2, <2>3, <2>4
<1>7. CASE n # 1
  <2> DEFINE m == n - 1
  <2>1. m \in Nat \ {0} /\ m \in 1..(n - 1) /\ m \in DOMAIN stack /\ below # <<>> /\ m < n
    BY <1>1, <1>2, <1>7
  <2>2. PICK g : g = NextInBatch(below[m])
    OBVIOUS
  <2>3. stack' = [below EXCEPT ![m] = g]
    BY <1>2, <1>3, <2>1, <2>2 DEF NextInBatch
  <2> PICK e : e = stack[m]
    OBVIOUS
  <2>4. e \in Frames /\ FrameSound(e) /\ e.batch # <<>> /\ e.session # s
    <3>1. e \in Frames /\ InStack(e)
      BY <1>1, <2>1 DEF InStack
    <3>2. stack[m].batch # <<>>
      BY <2>1 DEF CliInv, StackSound
    <3>3. stack[m].session # s
      BY <1>5, <2>1
    <3> QED
      BY <3>1, <3>2, <3>3 DEF CliInv, StackSound
  <2>5. g = NextInBatch(e)
    BY <1>2, <2>1, <2>2
  <2>6. g \in Frames /\ FrameSound(g) /\ g.session = e.session /\ g.mem = e.mem /\ g.at = e.at
    BY <2>4, <2>5, BatchGoesOn
  <2>7. FrameSound(g)'
    BY <2>4, <2>6 DEF OthersKeep
  <2>8. below \in Seq(Frames) /\ m \in DOMAIN below
    BY <1>2, <2>1
  <2> HIDE DEF m, below, n
  <2>9. /\ stack' \in Seq(Frames) /\ DOMAIN stack' = 1..m /\ Len(stack') = m /\ stack'[m] = g
        /\ \A k \in 1..m : k # m => stack'[k] = stack[k]
    BY <1>2, <2>1, <2>3, <2>6, <2>8 DEF m
  <2>10. \A f \in Frames : InStack(f)' => FrameSound(f)'
    <3> SUFFICES ASSUME NEW f \in Frames, NEW k \in 1..m, f = stack'[k] PROVE FrameSound(f)'
      BY <2>9 DEF InStack
    <3>1. CASE k = m
      BY <2>7, <2>9, <3>1
    <3>2. CASE k # m
      <4>1. k \in 1..(n - 1) /\ f = stack[k]
        BY <2>9, <3>2 DEF m
      <4> QED
        BY <1>4, <4>1 DEF BelowKeep, n
    <3> QED
      BY <3>1, <3>2
  <2>11. \A k \in 1..m : /\ k \in DOMAIN stack /\ stack'[k].session = stack[k].session
                         /\ stack'[k].at = stack[k].at /\ stack'[k].mem = stack[k].mem
    <3> TAKE k \in 1..m
    <3>1. k \in DOMAIN stack
      BY <1>1, <2>1 DEF m
    <3>2. k = m => stack[k] = e
      OBVIOUS
    <3> QED
      BY <2>6, <2>9, <3>1, <3>2
  <2>12. \A j, k \in DOMAIN stack' : stack'[j].session = stack'[k].session => j = k
    BY <2>9, <2>11 DEF CliInv, StackSound
  <2>13. ASSUME NEW k \in DOMAIN stack', k < m PROVE stack'[k].batch # <<>>
    <3>2. k \in 1..m /\ k # m /\ k < n
      BY <1>1, <2>1, <2>9, <2>13
    <3>1. k \in DOMAIN stack /\ stack'[k] = stack[k]
      BY <2>9, <2>11, <3>2
    <3> QED
      BY <3>1, <3>2 DEF CliInv, StackSound, n
  <2>14. ASSUME NEW k \in DOMAIN stack', k > 1 PROVE IsChildOf(stack'[k], stack'[k - 1])
    <3>1. k \in 1..m /\ k - 1 \in 1..m
      BY <2>1, <2>9, <2>14
    <3>2. IsChildOf(stack[k], stack[k - 1])
      BY <2>11, <2>14, <3>1 DEF CliInv, StackSound
    <3> QED
      BY <2>11, <3>1, <3>2 DEF IsChildOf
  <2>15. StackSound'
    BY <2>9, <2>10, <2>12, <2>13, <2>14 DEF StackSound, IsChildOf
  <2>16. ASSUME NEW t, t # s PROVE Resuming(t)' <=> Resuming(t)
    <3>1. \A k \in 1..n : stack[k].session = t => k \in 1..m
      BY <1>1, <2>16 DEF m
    <3> QED
      BY <1>1, <2>9, <2>11, <3>1 DEF Resuming
  <2>17. ~Resuming(s)'
    <3>1. ASSUME NEW k \in 1..m PROVE stack[k].session # s
      <4>1. k \in 1..n /\ k # n
        BY <1>1, <2>1, <3>1 DEF m
      <4> QED
        BY <1>5, <4>1
    <3> QED
      BY <2>9, <2>11, <3>1 DEF Resuming
  <2> QED
    BY <2>9, <2>15, <2>16, <2>17
<1> QED
  BY <1>6, <1>7

\* A task's loop is put on the loop that gave it out.
LEMMA LoopStarts ==
  ASSUME CliInv, Running, NEW g \in Frames, stack' = Append(stack, g), Loop.batch # <<>>,
         \A k \in DOMAIN stack : stack[k].session # g.session, IsChildOf(g, Loop),
         FrameSound(g)', OthersKeep(g.session)
  PROVE  /\ StackSound' /\ stack' \in Seq(Frames)
         /\ \A t : t # g.session => (Resuming(t)' <=> Resuming(t))
<1> DEFINE n == Len(stack)
<1>1. /\ n \in Nat \ {0} /\ DOMAIN stack = 1..n /\ Loop = stack[n] /\ n \in DOMAIN stack
      /\ \A k \in DOMAIN stack : stack[k] \in Frames
      /\ stack \in Seq(Frames)
  BY LoopIs DEF CliInv, CliTyped
<1>2. /\ stack' \in Seq(Frames) /\ Len(stack') = n + 1 /\ DOMAIN stack' = 1..(n + 1)
      /\ stack'[n + 1] = g /\ \A k \in 1..n : stack'[k] = stack[k]
  BY <1>1, AppendPositions
<1> HIDE DEF n
<1>3. \A f \in Frames : InStack(f)' => FrameSound(f)'
  <2> SUFFICES ASSUME NEW f \in Frames, NEW k \in 1..(n + 1), f = stack'[k] PROVE FrameSound(f)'
    BY <1>2 DEF InStack
  <2>1. CASE k = n + 1
    BY <1>2, <2>1
  <2>2. CASE k # n + 1
    <3>1. k \in DOMAIN stack /\ f = stack[k]
      BY <1>1, <1>2, <2>2
    <3>2. FrameSound(f) /\ f.session # g.session
      BY <3>1 DEF CliInv, StackSound, InStack
    <3> QED
      BY <3>2 DEF OthersKeep
  <2> QED
    BY <2>1, <2>2
<1>4. ASSUME NEW j \in DOMAIN stack', NEW k \in DOMAIN stack',
             stack'[j].session = stack'[k].session
      PROVE  j = k
  <2>1. \A i \in DOMAIN stack' : i = n + 1 \/ (i \in DOMAIN stack /\ stack'[i] = stack[i])
    BY <1>1, <1>2
  <2> QED
    BY <1>2, <1>4, <2>1 DEF CliInv, StackSound
<1>5. ASSUME NEW k \in DOMAIN stack', k < n + 1 PROVE stack'[k].batch # <<>>
  <2>1. k \in 1..n /\ stack'[k] = stack[k]
    BY <1>1, <1>2, <1>5
  <2>2. k = n \/ k < n
    BY <1>1, <2>1
  <2> QED
    BY <1>1, <2>1, <2>2 DEF CliInv, StackSound, n
<1>6. ASSUME NEW k \in DOMAIN stack', k > 1 PROVE IsChildOf(stack'[k], stack'[k - 1])
  <2>1. k - 1 \in 1..n /\ stack'[k - 1] = stack[k - 1]
    BY <1>1, <1>2, <1>6
  <2>2. CASE k = n + 1
    BY <1>1, <1>2, <2>1, <2>2
  <2>3. CASE k # n + 1
    <3>1. k \in 1..n /\ stack'[k] = stack[k]
      BY <1>1, <1>2, <2>3
    <3> QED
      BY <1>1, <1>6, <2>1, <3>1 DEF CliInv, StackSound
  <2> QED
    BY <2>2, <2>3
<1>7. StackSound'
  BY <1>2, <1>3, <1>4, <1>5, <1>6 DEF StackSound, IsChildOf
<1>8. ASSUME NEW t, t # g.session PROVE Resuming(t)' <=> Resuming(t)
  <2>1. \A k \in DOMAIN stack' : stack'[k].session = t => k \in 1..n
    BY <1>1, <1>2, <1>8
  <2> QED
    BY <1>1, <1>2, <2>1 DEF Resuming
<1> QED
  BY <1>2, <1>7, <1>8

-----------------------------------------------------------------------------
\* The files, the copy of a response and the calls.
LEMMA PutMem ==
  ASSUME NEW t, NEW m, m = files'[t]
  PROVE  /\ MemSound(t, m)' <=> MemSound(t, files[t])'
         /\ HasRoom(m)' <=> HasRoom(files[t])'
<1>1. MemSound(t, m)' <=> MemSound(t, files[t])'
  BY DEF MemSound
<1>2. HasRoom(m)' <=> HasRoom(files[t])'
  BY DEF HasRoom, Allows, Room
<1> QED
  BY <1>1, <1>2

LEMMA FilesStay ==
  ASSUME CliInv, Counted', NEW s, Onward(s),
         \A t \in CliSessions : t # s => files'[t] = files[t] /\ (Resuming(t) => Resuming(t)'),
         NEW m, files'[s] = m, MemSound(s, m)', ~Resuming(s)' => HasRoom(m)'
  PROVE  FilesSound'
<1> SUFFICES ASSUME NEW t \in CliSessions
             PROVE  MemSound(t, files[t])' /\ (~Resuming(t)' => HasRoom(files[t])')
  BY DEF FilesSound
<1>1. CASE t = s
  <2>1. m = files'[t] /\ MemSound(t, m)' /\ (~Resuming(t)' => HasRoom(m)')
    BY <1>1 DEF MemSound
  <2> HIDE <1>1
  <2> QED
    BY <2>1, PutMem
<1>2. CASE t # s
  <2> PICK o : o = files[t]
    OBVIOUS
  <2>1. o = files'[t]
    BY <1>2
  <2>2. MemSound(t, o) /\ (~Resuming(t) => HasRoom(o))
    BY DEF CliInv, FilesSound
  <2>3. MemSound(t, o)'
    BY <2>2, MemStays
  <2>4. ~Resuming(t)' => HasRoom(o)'
    <3> SUFFICES ASSUME ~Resuming(t)' PROVE HasRoom(o)'
      OBVIOUS
    <3>1. HasRoom(o)
      BY <1>2, <2>2
    <3> QED
      BY <1>2, <2>2, <3>1, RoomStays DEF CliInv
  <2> QED
    BY <2>1, <2>3, <2>4, PutMem
<1> QED
  BY <1>1, <1>2

LEMMA ReplyStays ==
  ASSUME CliInv, reply' = reply, NEW s, Onward(s)
  PROVE  ReplySound'
<1> SUFFICES ASSUME reply # None PROVE MemSound(reply.session, reply.mem)' /\ reply.mem.made
  BY DEF ReplySound
<1> PICK t, m : t = reply.session /\ m = reply.mem
  OBVIOUS
<1>1. MemSound(t, m) /\ m.made
  BY DEF CliInv, ReplySound
<1>2. MemSound(t, m)'
  BY <1>1, MemStays
<1> QED
  BY <1>1, <1>2 DEF MemSound

LEMMA OthersStay ==
  ASSUME CliInv, Counted', NEW s, Onward(s), reply' = reply,
         \A t \in CliSessions : t # s => files'[t] = files[t]
  PROVE  OthersKeep(s)
<1> SUFFICES ASSUME NEW f \in Frames, FrameSound(f), f.session # s PROVE FrameSound(f)'
  BY DEF OthersKeep
<1>1. files'[f.session] = files[f.session]
  BY FrameFields
<1>2. AsksNoMore(f.session)
  BY <1>1 DEF AsksNoMore, AskedFor
<1>3. files'[f.session].made /\ files'[f.session].status \in {"running", "paused"}
  BY <1>1 DEF FrameSound
<1> QED
  BY <1>2, <1>3, FrameStays DEF CliInv

LEMMA CallsStay ==
  ASSUME CliInv, Counted', calls' = calls, ran' = ran, NEW s, Onward(s)
  PROVE  CallsSound'
<1> SUFFICES ASSUME NEW i \in DOMAIN calls, calls[i].kind = "ask" PROVE ran[i] <= Room(i)'
  BY DEF CliInv, CallsSound
<1>1. ran[i] <= Room(i) /\ i \in Ids
  BY CallsTyped DEF CliInv, CallsSound
<1>2. allowed[i] <= allowed'[i] /\ faults <= faults' /\ always \subseteq always'
  BY DEF Onward
<1>3. /\ ran[i] \in Nat /\ allowed[i] \in Nat /\ allowed'[i] \in Nat
      /\ faults \in Nat /\ faults' \in Nat
  BY <1>1, CliAssumption DEF CliInv, CliTyped, Counted
<1> QED
  BY <1>1, <1>2, <1>3 DEF Room

LEMMA CallsRun ==
  ASSUME CliInv, UNCHANGED <<calls, allowed, always>>, NEW i \in DOMAIN calls,
         faults' \in {faults, faults + 1}, faults < MaxFaults \/ faults' = faults,
         ran' = [ran EXCEPT ![i] = @ + 1], calls[i].kind = "ask" => ran[i] + 1 <= Room(i)
  PROVE  CallsSound' /\ Onward(calls[i].session) /\ Counted'
<1>1. /\ i \in Ids /\ DOMAIN calls \subseteq Ids
      /\ ran \in [Ids -> Nat] /\ allowed \in [Ids -> Nat]
      /\ faults \in 0..MaxFaults /\ MaxFaults \in Nat
  BY CallsTyped, CliAssumption DEF CliInv, CliTyped
<1>2. Counted'
  BY <1>1 DEF Counted
<1>3. ran'[i] = ran[i] + 1 /\ \A k \in Ids : k # i => ran'[k] = ran[k]
  BY <1>1
<1>4. Onward(calls[i].session)
  BY <1>1, <1>3 DEF Onward
<1>5. ASSUME NEW k \in DOMAIN calls, calls[k].kind = "ask" PROVE ran'[k] <= Room(k)'
  <2>1. Room(k) \in Nat /\ Room(k)' \in Nat /\ Room(k) <= Room(k)' /\ ran[k] \in Nat
    BY <1>1 DEF Room
  <2>2. ran[k] <= Room(k)
    BY <1>5 DEF CliInv, CallsSound
  <2> QED
    BY <1>1, <1>3, <1>5, <2>1, <2>2
<1>6. \A k \in Ids : k \notin DOMAIN calls => ran'[k] = 0
  BY <1>3 DEF CliInv, CallsSound
<1> QED
  BY <1>2, <1>4, <1>5, <1>6 DEF CallsSound

\* Nothing ran.
LEMMA OnwardStill ==
  ASSUME CliInv, UNCHANGED <<calls, ran, allowed, always>>,
         faults' = faults \/ (faults < MaxFaults /\ faults' = faults + 1), NEW s
  PROVE  Onward(s) /\ Counted' /\ CallsSound'
<1>1. /\ DOMAIN calls \subseteq Ids /\ ran \in [Ids -> Nat] /\ allowed \in [Ids -> Nat]
      /\ faults \in 0..MaxFaults /\ MaxFaults \in Nat
  BY CallsTyped, CliAssumption DEF CliInv, CliTyped
<1>2. Counted'
  BY <1>1 DEF Counted
<1>3. Onward(s)
  BY <1>1 DEF Onward
<1> QED
  BY <1>2, <1>3, CallsStay

\* A copy in a frame past its resume would not run anything.
LEMMA RunsNothing ==
  ASSUME NEW mem, ~Resumable(mem)
  PROVE  ~Allows(mem) /\ HasRoom(mem) /\ HasRoom(mem)'
  BY DEF Resumable, Allows, HasRoom

-----------------------------------------------------------------------------
\* The parts of a step.
Parted ==
  /\ files' \in [CliSessions -> Mems] /\ stack' \in Seq(Frames)
  /\ FilesSound' /\ StackSound' /\ ReplySound'

LEMMA FileTyped ==
  ASSUME CliInv, NEW s \in CliSessions, NEW m \in Mems, files' = [files EXCEPT ![s] = m]
  PROVE  /\ files' \in [CliSessions -> Mems] /\ files'[s] = m
         /\ \A t \in CliSessions : t # s => files'[t] = files[t]
  BY DEF CliInv, CliTyped

LEMMA EndsKeeps ==
  ASSUME CliInv, Running, NEW s, s = Loop.session, NEW mem \in Mems,
         NEW st \in {"idle", "running", "paused", "stop"},
         Ends(mem, st), reply' = reply, Counted', Onward(s),
         MemSound(s, mem)', HasRoom(mem)'
  PROVE  Parted
<1> PICK m : m = WithStatus(mem, st)
  OBVIOUS
<1>1. s \in CliSessions /\ LeavesStack /\ files' = [files EXCEPT ![s] = m]
  BY LoopIs, FrameFields DEF CliInv, Ends, LeavesStack, WithStatus
<1>2. m \in Mems /\ SameTask(mem, m) /\ SamePending(mem, m)
  BY StatusChanged
<1>3. /\ files' \in [CliSessions -> Mems] /\ files'[s] = m
      /\ \A t \in CliSessions : t # s => files'[t] = files[t]
  BY <1>1, <1>2, FileTyped
<1>4. MemSound(s, m)' /\ HasRoom(m)'
  <2>1. MemSound(s, m)'
    BY <1>2 DEF MemSound, SameTask, SamePending
  <2>2. HasRoom(m)'
    BY <1>2 DEF HasRoom, Allows, Room, SamePending
  <2> QED
    BY <2>1, <2>2
<1>5. OthersKeep(s)
  BY <1>3, OthersStay
<1>6. /\ StackSound' /\ stack' \in Seq(Frames)
      /\ \A t : t # s => (Resuming(t)' <=> Resuming(t))
  BY <1>1, <1>5, LoopEnds
<1>7. FilesSound'
  BY <1>3, <1>4, <1>6, FilesStay
<1>8. ReplySound'
  BY ReplyStays
<1> QED
  BY <1>3, <1>6, <1>7, <1>8 DEF Parted

LEMMA UpdateKeeps ==
  ASSUME CliInv, Running, NEW s, s = Loop.session,
         NEW g \in Frames, stack' = Update(g), g.session = s,
         SameTask(Loop.mem, g.mem), g.mem.agent = Loop.mem.agent, FrameSound(g)',
         files' \in [CliSessions -> Mems],
         \A t \in CliSessions : t # s => files'[t] = files[t],
         NEW m, files'[s] = m, MemSound(s, m)',
         g.at \in {"resume", "settle"} \/ HasRoom(m)',
         reply' = reply, Counted', Onward(s)
  PROVE  Parted
<1>1. OthersKeep(s)
  BY OthersStay
<1>2. BelowKeep
  BY <1>1, OthersBelow
<1>3. /\ StackSound' /\ stack' \in Seq(Frames)
      /\ \A t : t # s => (Resuming(t)' <=> Resuming(t))
      /\ g.at \in {"resume", "settle"} => Resuming(s)'
  BY <1>2, LoopGoesOn
<1>4. /\ MemSound(s, m)' /\ (~Resuming(s)' => HasRoom(m)') /\ files'[s] = m /\ Onward(s)
      /\ \A t \in CliSessions : t # s => files'[t] = files[t] /\ (Resuming(t) => Resuming(t)')
  BY <1>3
<1>5. FilesSound'
  BY <1>4, FilesStay
<1>6. ReplySound'
  BY ReplyStays
<1> QED
  BY <1>3, <1>5, <1>6 DEF Parted

LEMMA Whole ==
  ASSUME CliInv, Parted, Counted', CallsSound', UNCHANGED <<calls, reply, always>>
  PROVE  CliInv'
<1>1. CliTyped'
  BY DEF CliInv, CliTyped, Parted, Counted
<1> QED
  BY <1>1 DEF CliInv, Parted

LEMMA NotResuming ==
  ASSUME CliInv, Running, Loop.at \notin {"resume", "settle"}
  PROVE  ~Resuming(Loop.session)
<1>1. /\ Len(stack) \in DOMAIN stack /\ Loop = stack[Len(stack)]
  BY LoopIs DEF CliInv
<1>2. \A k \in DOMAIN stack : stack[k].session = Loop.session => k = Len(stack)
  BY <1>1 DEF CliInv, StackSound
<1> QED
  BY <1>1, <1>2 DEF Resuming

LEMMA BatchCall ==
  ASSUME CliInv, Running, Loop.batch # <<>>
  PROVE  /\ Next1 = Loop.batch[1] /\ 1 \in DOMAIN Loop.batch /\ Next1 \in Ids
         /\ Next1 \in DOMAIN calls /\ calls[Next1].session = Loop.session /\ ran[Next1] = 0
         /\ ~AskedFor(Loop.session, Next1) /\ Loop.mem.asked # Next1
         /\ Loop.at \in {"step", "route"} /\ ~Resumable(Loop.mem)
         /\ Loop \in Frames /\ Loop.mem \in Mems /\ Loop.session \in CliSessions
         /\ MemSound(Loop.session, Loop.mem) /\ Loop.mem.made /\ Loop.mem.status = "running"
<1>1. Loop \in Frames /\ FrameSound(Loop)
  BY LoopIs, LoopSound DEF CliInv
<1>2. /\ Loop.batch \in Seq(Ids) /\ Loop.at \in {"resume", "settle", "step", "route"}
      /\ Loop.mem \in Mems /\ Loop.session \in CliSessions
  BY <1>1, FrameFields
<1>3. Next1 = Loop.batch[1] /\ 1 \in DOMAIN Loop.batch /\ Next1 \in Ids
  BY <1>2 DEF Next1
<1>4. Unasked(Loop.session, Next1) /\ Loop.mem.asked # Next1
  BY <1>1, <1>3 DEF FrameSound
<1>5. Loop.at \in {"step", "route"} /\ ~Resumable(Loop.mem)
  BY <1>1, <1>2 DEF FrameSound
<1> QED
  BY <1>1, <1>2, <1>3, <1>4, <1>5 DEF Unasked, FrameSound

LEMMA SettlesKeeps ==
  ASSUME CliInv, Running, NEW s, s = Loop.session, Loop.batch # <<>>, Settles(Loop.mem),
         UNCHANGED <<calls, reply, allowed, always>>, Counted', Onward(s),
         \A i \in Ids : i # Next1 => ran'[i] = ran[i]
  PROVE  Parted
<1> PICK f : f = Loop
  OBVIOUS
<1>1. /\ Next1 = f.batch[1] /\ 1 \in DOMAIN f.batch /\ Next1 \in Ids
      /\ ~AskedFor(s, Next1) /\ f.mem.asked # Next1
      /\ f.at \in {"step", "route"} /\ ~Resumable(f.mem)
      /\ f \in Frames /\ f.mem \in Mems /\ s \in CliSessions
      /\ MemSound(s, f.mem) /\ f.mem.made /\ f.mem.status = "running" /\ FrameSound(f)
  BY BatchCall, LoopSound
<1> PICK e : e = f.mem
  OBVIOUS
<1>2. MemSound(s, e)' /\ HasRoom(e)'
  BY <1>1, MemStays, RunsNothing
<1>3. CASE AppendFails(Loop.mem)
  <2>1. Ends(e, "stop")
    BY <1>3 DEF AppendFails
  <2> QED
    BY <1>1, <1>2, <2>1, EndsKeeps
<1>4. CASE ~AppendFails(Loop.mem)
  <2> PICK g : g = NextInBatch(f)
    OBVIOUS
  <2>1. /\ stack' = Update(g)
        /\ files' = files \/ files' = [files EXCEPT ![s] = e]
    BY <1>4 DEF Settles, NextInBatch
  <2>2. /\ g \in Frames /\ g.session = f.session /\ g.mem = f.mem /\ g.at = f.at
        /\ \A p \in DOMAIN g.batch :
             p \in Nat /\ p + 1 \in DOMAIN f.batch /\ p + 1 # 1 /\ g.batch[p] = f.batch[p + 1]
    BY <1>1, BatchTyped
  <2> PICK m : m = files'[s]
    OBVIOUS
  <2>3. /\ files' \in [CliSessions -> Mems] /\ m \in Mems /\ (m = files[s] \/ m = e)
        /\ \A t \in CliSessions : t # s => files'[t] = files[t]
    BY <1>1, <2>1 DEF CliInv, CliTyped
  <2>4. MemSound(s, m)' /\ HasRoom(m)'
    <3>1. CASE m = e
      BY <1>2, <3>1
    <3>2. CASE m = files[s]
      <4>1. MemSound(s, m) /\ (~Resuming(s) => HasRoom(m))
        BY <1>1, <3>2 DEF CliInv, FilesSound
      <4>2. HasRoom(m)
        BY <1>1, <4>1, NotResuming
      <4>3. m.asked # Next1 /\ m.asked \in Ids \cup {0}
        BY <1>1, <2>3, <3>2 DEF AskedFor, Mems
      <4>4. Allows(m) => ran'[m.asked] = ran[m.asked]
        BY <4>3 DEF Allows
      <4>5. HasRoom(m)'
        BY <4>1, <4>2, <4>4, RoomKept DEF CliInv
      <4> QED
        BY <4>1, <4>5, MemStays
    <3> QED
      BY <2>3, <3>1, <3>2
  <2>5. m.made /\ m.status \in {"running", "paused"} /\ m.asked \in {files[s].asked, e.asked}
    BY <1>1, <2>3 DEF FrameSound
  <2>6. FrameSound(g)'
    <3>1. MemSound(g.session, g.mem)'
      BY <1>2, <2>2
    <3>2. ASSUME NEW p \in DOMAIN g.batch
          PROVE  Unasked(g.session, g.batch[p])' /\ g.mem.asked # g.batch[p]
      <4> PICK i : i = g.batch[p]
        OBVIOUS
      <4>1. p + 1 \in DOMAIN f.batch /\ i = f.batch[p + 1] /\ p + 1 # 1
        BY <2>2
      <4>2. Unasked(s, i) /\ e.asked # i
        BY <1>1, <4>1 DEF FrameSound
      <4>3. i # Next1 /\ i \in Ids
        BY <1>1, <4>1, CallsTyped, <4>2 DEF FrameSound, Unasked, CliInv
      <4>4. ran'[i] = ran[i] /\ m.asked # i
        BY <2>5, <4>2, <4>3 DEF Unasked, AskedFor
      <4> QED
        BY <2>2, <4>2, <4>4 DEF Unasked, AskedFor
    <3>3. ASSUME NEW p \in DOMAIN g.batch, NEW q \in DOMAIN g.batch, g.batch[p] = g.batch[q]
          PROVE  p = q
      <4>1. p + 1 = q + 1
        BY <1>1, <2>2, <3>3 DEF FrameSound
      <4> QED
        BY <2>2, <4>1
    <3> QED
      BY <1>1, <2>2, <2>5, <3>1, <3>2, <3>3 DEF FrameSound
  <2>7. SameTask(Loop.mem, g.mem) /\ g.mem.agent = Loop.mem.agent /\ g.session = s
    BY <2>2 DEF SameTask
  <2> QED
    BY <2>1, <2>2, <2>3, <2>4, <2>6, <2>7, UpdateKeeps
<1> QED
  BY <1>3, <1>4

\* The tools of a batch.
LEMMA RunsPlainKeeps ==
  ASSUME CliInv, RunsPlain
  PROVE  CliInv'
<1> PICK s : s = Loop.session
  OBVIOUS
<1>1. /\ Running /\ Loop.batch # <<>> /\ calls[Next1].kind = "plain"
      /\ ran' = [ran EXCEPT ![Next1] = @ + 1] /\ Settles(Loop.mem)
      /\ UNCHANGED <<calls, reply, allowed, always>>
  BY DEF RunsPlain, Takes
<1>2. Next1 \in DOMAIN calls /\ Next1 \in Ids /\ calls[Next1].session = s
  BY <1>1, BatchCall
<1>3. faults' = faults \/ (faults < MaxFaults /\ faults' = faults + 1)
  BY <1>1 DEF Settles, AppendFails
<1>4. CallsSound' /\ Onward(s) /\ Counted'
  BY <1>1, <1>2, <1>3, CallsRun
<1>5. \A i \in Ids : i # Next1 => ran'[i] = ran[i]
  BY <1>1, <1>2 DEF CliInv, CliTyped
<1>6. Parted
  BY <1>1, <1>4, <1>5, SettlesKeeps
<1> QED
  BY <1>1, <1>4, <1>6, Whole

LEMMA TakesQuestionKeeps ==
  ASSUME CliInv, TakesQuestion
  PROVE  CliInv'
<1> PICK s : s = Loop.session
  OBVIOUS
<1>1. /\ Running /\ Loop.batch # <<>>
      /\ IF Loop.answers
         THEN Settles(Loop.mem) /\ UNCHANGED ran
         ELSE Pauses([Loop.mem EXCEPT !.question = Next1, !.answered = FALSE])
      /\ UNCHANGED <<calls, reply, allowed, always>>
  BY DEF TakesQuestion, Takes
<1>2. UNCHANGED ran /\ (faults' = faults \/ (faults < MaxFaults /\ faults' = faults + 1))
  BY <1>1 DEF Settles, AppendFails, Pauses
<1>3. CallsSound' /\ Onward(s) /\ Counted'
  BY <1>1, <1>2, OnwardStill
<1>4. CASE Loop.answers
  <2>1. Parted
    BY <1>1, <1>2, <1>3, <1>4, SettlesKeeps
  <2> QED
    BY <1>1, <1>3, <2>1, Whole
<1>5. CASE ~Loop.answers
  <2> PICK e, m : e = Loop.mem /\ m = WithQuestion(e, Next1)
    OBVIOUS
  <2>1. Ends(m, "paused")
    BY <1>1, <1>5 DEF Pauses, WithQuestion
  <2>2. /\ Next1 \in Ids /\ ~Resumable(Loop.mem) /\ Loop.mem \in Mems
        /\ MemSound(s, Loop.mem)
    BY <1>1, BatchCall
  <2>3. /\ m \in Mems /\ SameTask(Loop.mem, m) /\ m.pattern = Loop.mem.pattern
        /\ m.asked = Loop.mem.asked /\ m.decision = Loop.mem.decision /\ ~m.answered
    BY <2>2, QuestionAsked
  <2>4. MemSound(s, m) /\ ~Allows(m)
    BY <2>2, <2>3 DEF MemSound, SameTask, Allows, Resumable
  <2>5. MemSound(s, m)' /\ HasRoom(m)'
    BY <1>3, <2>4, MemStays DEF HasRoom, Allows
  <2>6. Parted
    BY <1>1, <1>3, <2>1, <2>3, <2>5, EndsKeeps
  <2> QED
    BY <1>1, <1>3, <2>6, Whole
<1> QED
  BY <1>4, <1>5

LEMMA TakesAskingKeeps ==
  ASSUME CliInv, TakesAsking
  PROVE  CliInv'
<1> PICK s : s = Loop.session
  OBVIOUS
<1>1. /\ Running /\ Loop.batch # <<>> /\ calls[Next1].kind = "ask"
      /\ IF Loop.mem.pattern
         THEN ran' = [ran EXCEPT ![Next1] = @ + 1] /\ Settles(Loop.mem)
         ELSE Pauses([Loop.mem EXCEPT !.asked = Next1, !.decision = "none"])
      /\ UNCHANGED <<calls, reply, allowed, always>>
  BY DEF TakesAsking, Takes
<1>2. /\ Next1 \in DOMAIN calls /\ Next1 \in Ids /\ calls[Next1].session = s
      /\ ran[Next1] = 0 /\ Loop.mem \in Mems /\ MemSound(s, Loop.mem)
  BY <1>1, BatchCall
<1>3. CASE Loop.mem.pattern
  <2>1. faults' = faults \/ (faults < MaxFaults /\ faults' = faults + 1)
    BY <1>1, <1>3 DEF Settles, AppendFails
  <2>2. ran[Next1] + 1 <= Room(Next1)
    <3>1. calls[Next1].session \in always
      BY <1>2, <1>3 DEF MemSound
    <3>2. allowed[Next1] \in Nat /\ faults \in Nat
      BY <1>2, CallsTyped DEF CliInv
    <3> QED
      BY <1>2, <3>1, <3>2 DEF Room
  <2>3. CallsSound' /\ Onward(s) /\ Counted'
    BY <1>1, <1>2, <1>3, <2>1, <2>2, CallsRun
  <2>4. \A i \in Ids : i # Next1 => ran'[i] = ran[i]
    BY <1>1, <1>2, <1>3 DEF CliInv, CliTyped
  <2>5. Parted
    BY <1>1, <1>3, <2>3, <2>4, SettlesKeeps
  <2> QED
    BY <1>1, <2>3, <2>5, Whole
<1>4. CASE ~Loop.mem.pattern
  <2> PICK e, m : e = Loop.mem /\ m = WithRequest(e, Next1)
    OBVIOUS
  <2>1. Ends(m, "paused") /\ UNCHANGED <<ran, faults>>
    BY <1>1, <1>4 DEF Pauses, WithRequest
  <2>2. CallsSound' /\ Onward(s) /\ Counted'
    BY <1>1, <2>1, OnwardStill
  <2>3. /\ m \in Mems /\ SameTask(Loop.mem, m) /\ m.pattern = Loop.mem.pattern
        /\ m.asked = Next1 /\ m.decision = "none"
    BY <1>2, ApprovalAsked
  <2>4. MemSound(s, m) /\ ~Allows(m)
    BY <1>1, <1>2, <1>4, <2>3 DEF MemSound, SameTask, Allows
  <2>5. MemSound(s, m)' /\ HasRoom(m)'
    BY <2>2, <2>4, MemStays DEF HasRoom, Allows
  <2>6. Parted
    BY <1>1, <2>1, <2>2, <2>3, <2>5, EndsKeeps
  <2> QED
    BY <1>1, <2>2, <2>6, Whole
<1> QED
  BY <1>3, <1>4

LEMMA RefusesTaskKeeps ==
  ASSUME CliInv, RefusesTask
  PROVE  CliInv'
<1> PICK s : s = Loop.session
  OBVIOUS
<1>1. /\ Running /\ Loop.batch # <<>> /\ Settles(Loop.mem)
      /\ UNCHANGED <<calls, reply, ran, allowed, always>>
  BY DEF RefusesTask, Takes
<1>2. faults' = faults \/ (faults < MaxFaults /\ faults' = faults + 1)
  BY <1>1 DEF Settles, AppendFails
<1>3. CallsSound' /\ Onward(s) /\ Counted'
  BY <1>1, <1>2, OnwardStill
<1>4. Parted
  BY <1>1, <1>3, SettlesKeeps
<1> QED
  BY <1>1, <1>3, <1>4, Whole

\* The ends of a loop.
LEMMA StepIs ==
  ASSUME CliInv, Running, Loop.at \in {"step", "route"}
  PROVE  /\ ~Resumable(Loop.mem) /\ Loop \in Frames /\ FrameSound(Loop) /\ Loop.mem \in Mems
         /\ Loop.session \in CliSessions /\ MemSound(Loop.session, Loop.mem)
         /\ Loop.mem.made /\ Loop.mem.status = "running"
<1>1. Loop \in Frames /\ FrameSound(Loop)
  BY LoopIs, LoopSound DEF CliInv
<1> QED
  BY <1>1, FrameFields DEF FrameSound

LEMMA EndsAtStep ==
  ASSUME CliInv, Running, NEW s, s = Loop.session, Loop.at \in {"step", "route"},
         NEW st \in {"idle", "running", "paused", "stop"}, Ends(Loop.mem, st),
         UNCHANGED <<calls, reply, ran, allowed, always>>,
         faults' = faults \/ (faults < MaxFaults /\ faults' = faults + 1)
  PROVE  CliInv'
<1>1. CallsSound' /\ Onward(s) /\ Counted'
  BY OnwardStill
<1> PICK m : m = Loop.mem
  OBVIOUS
<1>2. ~Resumable(m) /\ m \in Mems /\ MemSound(s, m)
  BY StepIs
<1>3. MemSound(s, m)' /\ HasRoom(m)'
  BY <1>1, <1>2, MemStays, RunsNothing
<1>4. Parted
  BY <1>1, <1>2, <1>3, EndsKeeps
<1> QED
  BY <1>1, <1>4, Whole

LEMMA CompletesKeeps ==
  ASSUME CliInv, Completes
  PROVE  CliInv'
<1>1. /\ Running /\ Loop.at \in {"step", "route"} /\ Ends(Loop.mem, "idle")
      /\ UNCHANGED <<calls, reply, ran, allowed, always, faults>>
  BY DEF Completes, Asking
<1> QED
  BY <1>1, EndsAtStep

LEMMA FailsStepKeeps ==
  ASSUME CliInv, FailsStep
  PROVE  CliInv'
<1>1. /\ Running /\ Loop.at \in {"step", "route"} /\ Ends(Loop.mem, "stop")
      /\ UNCHANGED <<calls, reply, ran, allowed, always, faults>>
  BY DEF FailsStep, Asking
<1> QED
  BY <1>1, EndsAtStep

\* New calls, which nobody has asked for.
LEMMA BatchPut ==
  ASSUME NEW f \in Frames, NEW n \in Nat, NEW b \in Seq(Ids), NEW g,
         g = WithBatch(f, n, b)
  PROVE  /\ g \in Frames /\ g.session = f.session /\ g.mem = f.mem /\ g.at = f.at
         /\ g.batch = b
<1>1. /\ g.session = f.session /\ g.mem = f.mem /\ g.at = f.at /\ g.batch = b
      /\ g = [session |-> f.session, mem |-> f.mem, at |-> f.at, batch |-> b,
              step |-> n, answers |-> f.answers, for |-> f.for]
  BY DEF Frames, WithBatch
<1> QED
  BY <1>1, FrameFields DEF Frames

LEMMA CallsGrow ==
  ASSUME CliInv, NEW new \in Seq(CliCalls), calls' = calls \o new,
         Len(calls) + Len(new) <= MaxCalls, UNCHANGED <<ran, allowed, always, faults>>
  PROVE  /\ calls' \in Seq(CliCalls) /\ Len(calls') = Len(calls) + Len(new)
         /\ \A p \in 1..Len(new) :
              /\ Len(calls) + p \in DOMAIN calls' /\ Len(calls) + p \in Ids
              /\ Len(calls) + p \notin DOMAIN calls
              /\ calls'[Len(calls) + p] = new[p] /\ ran[Len(calls) + p] = 0
         /\ \A s : Onward(s)
         /\ Counted' /\ CallsSound'
<1> DEFINE n == Len(calls)
<1>1. /\ n \in Nat /\ DOMAIN calls = 1..n /\ calls \in Seq(CliCalls) /\ Len(new) \in Nat
      /\ DOMAIN calls \subseteq Ids
      /\ \A i \in Ids : ran[i] \in Nat /\ allowed[i] \in Nat
      /\ faults \in Nat
  BY CallsTyped DEF CliInv, CliTyped
<1>2. /\ calls' \in Seq(CliCalls) /\ Len(calls') = n + Len(new)
      /\ DOMAIN calls' = 1..(n + Len(new))
      /\ \A i \in 1..n : calls'[i] = calls[i]
      /\ \A p \in 1..Len(new) : calls'[n + p] = new[p]
  BY <1>1
<1>3. \A p \in 1..Len(new) : n + p \in 1..(n + Len(new)) /\ n + p \notin 1..n /\ n + p \in Ids
  BY <1>1, CliAssumption DEF Ids
<1>4. \A i \in Ids : i \notin DOMAIN calls => ran[i] = 0
  BY DEF CliInv, CallsSound
<1> HIDE DEF n
<1>5. \A s : Onward(s)
  BY <1>1, <1>2 DEF Onward
<1>6. Counted'
  BY DEF CliInv, CliTyped, Counted
<1>7. ASSUME NEW i \in DOMAIN calls', calls'[i].kind = "ask" PROVE ran'[i] <= Room(i)'
  <2>1. i \in Ids
    BY <1>1, <1>2, CliAssumption DEF Ids, n
  <2>2. CASE i \in 1..n
    <3>1. ran[i] <= Room(i)
      BY <1>1, <1>2, <1>7, <2>2 DEF CliInv, CallsSound
    <3> QED
      BY <1>2, <2>2, <3>1 DEF Room
  <2>3. CASE i \notin 1..n
    <3>1. ran[i] = 0
      BY <1>1, <1>4, <2>1, <2>3
    <3>2. Room(i)' \in Nat
      BY <1>1, <2>1 DEF Room
    <3> QED
      BY <3>1, <3>2
  <2> QED
    BY <2>2, <2>3
<1>8. \A i \in Ids : i \notin DOMAIN calls' => ran'[i] = 0
  BY <1>1, <1>2, <1>4
<1>9. CallsSound'
  BY <1>7, <1>8 DEF CallsSound
<1> QED
  BY <1>1, <1>2, <1>3, <1>4, <1>5, <1>6, <1>9 DEF n

\* The frame that has put new calls in its batch.
LEMMA NewBatchSound ==
  ASSUME CliInv, Running, NEW s, s = Loop.session, Loop.at \in {"step", "route"},
         NEW b \in Seq(Ids), NEW g,
         NEW n \in Nat, g = WithBatch(Loop, n, b),
         UNCHANGED <<reply, ran>>, Onward(s),
         \A p \in DOMAIN b : /\ b[p] \in DOMAIN calls' /\ b[p] \notin DOMAIN calls
                             /\ calls'[b[p]].session = s /\ ran[b[p]] = 0,
         \A p, q \in DOMAIN b : b[p] = b[q] => p = q,
         NEW m, m = files'[s], m \in {files[s], Loop.mem}
  PROVE  FrameSound(g)'
<1> PICK f : f = Loop
  OBVIOUS
<1>1. /\ ~Resumable(f.mem) /\ f \in Frames /\ FrameSound(f) /\ f.session = s
      /\ s \in CliSessions /\ MemSound(s, f.mem) /\ f.mem.made /\ f.mem.status = "running"
      /\ f.mem \in Mems
  BY StepIs
<1>2. g \in Frames /\ g.session = s /\ g.mem = f.mem /\ g.at = f.at /\ g.batch = b
  BY <1>1, BatchPut
<1>3. MemSound(g.session, g.mem)'
  BY <1>1, <1>2, MemStays
<1>4. MemSound(s, m)
  BY <1>1 DEF CliInv, FilesSound
<1>5. reply # None /\ reply.session = s => MemSound(s, reply.mem)
  BY DEF CliInv, ReplySound
<1>6. ASSUME NEW p \in DOMAIN b PROVE Unasked(s, b[p])' /\ f.mem.asked # b[p]
  <2> PICK i : i = b[p]
    OBVIOUS
  <2>1. /\ i \in DOMAIN calls' /\ i \notin DOMAIN calls /\ i \in Ids
        /\ calls'[i].session = s /\ ran'[i] = 0
    OBVIOUS
  <2>2. i # 0
    BY <2>1, CliAssumption DEF Ids
  <2>3. m.asked # i /\ f.mem.asked # i
    BY <1>1, <1>4, <2>1, <2>2 DEF MemSound
  <2>4. reply # None /\ reply.session = s => reply.mem.asked # i
    BY <1>5, <2>1, <2>2 DEF MemSound
  <2> QED
    BY <2>1, <2>3, <2>4 DEF Unasked, AskedFor
<1>7. m.made /\ m.status \in {"running", "paused"}
  BY <1>1 DEF FrameSound
<1>8. f.at \notin {"resume", "settle"}
  OBVIOUS
<1> QED
  BY <1>1, <1>2, <1>3, <1>6, <1>7, <1>8 DEF FrameSound

LEMMA AsksModelKeeps ==
  ASSUME CliInv, copies = 0, AsksModel
  PROVE  CliInv'
<1> PICK s : s = Loop.session
  OBVIOUS
<1>1. Running /\ Loop.at \in {"step", "route"} /\ UNCHANGED <<reply, ran, allowed, always>>
  BY DEF AsksModel, Asking
<1>2. CASE AppendFails(Loop.mem) /\ UNCHANGED calls
  <2>1. Ends(Loop.mem, "stop") /\ faults < MaxFaults /\ faults' = faults + 1
    BY <1>2 DEF AppendFails
  <2> QED
    BY <1>1, <1>2, <2>1, EndsAtStep
<1>3. CASE ~(AppendFails(Loop.mem) /\ UNCHANGED calls)
  <2> PICK f : f = Loop
    OBVIOUS
  <2>22. PICK b \in Batches :
          /\ Within(Len(b))
          /\ calls' = calls \o [i \in 1..Len(b) |-> [kind |-> b[i], session |-> s]]
          /\ stack' = Update([Loop EXCEPT !.step = @ + 1,
                                !.batch = [i \in 1..Len(b) |-> Len(calls) + i]])
          /\ files' = [files EXCEPT ![s] = Loop.mem]
          /\ UNCHANGED faults
    BY <1>3 DEF AsksModel
  <2>23. Len(calls) + Len(b) <= MaxCalls
    <3>1. Len(calls) \in Nat /\ Len(calls) + 0 + Len(b) <= MaxCalls
      BY <2>22, CallsTyped DEF Within, CliInv
    <3> QED
      BY <3>1
  <2>1. /\ Len(calls) + Len(b) <= MaxCalls
        /\ calls' = calls \o [i \in 1..Len(b) |-> [kind |-> b[i], session |-> s]]
        /\ stack' = Update([Loop EXCEPT !.step = @ + 1,
                              !.batch = [i \in 1..Len(b) |-> Len(calls) + i]])
        /\ files' = [files EXCEPT ![s] = Loop.mem]
        /\ UNCHANGED faults
    BY <2>22, <2>23
  <2>21. PICK new, ids : /\ new = [i \in 1..Len(b) |-> [kind |-> b[i], session |-> s]]
                      /\ ids = [i \in 1..Len(b) |-> Len(calls) + i]
    OBVIOUS
  <2>2. /\ f \in Frames /\ f.mem \in Mems /\ s \in CliSessions /\ f.step \in Nat
        /\ MemSound(s, f.mem) /\ ~Resumable(f.mem)
    BY <1>1, StepIs, FrameFields
  <2>3. b \in Seq({"plain", "ask", "question", "task", "queued", "again"})
    BY CliAssumption
  <2>4. new \in Seq(CliCalls) /\ Len(new) = Len(b) /\ Len(b) \in Nat
        /\ \A i \in 1..Len(b) : new[i].session = s
    BY <2>2, <2>3, <2>21 DEF CliCalls
  <2>5. Len(calls) \in Nat
    BY CallsTyped DEF CliInv
  <2>6. /\ calls' \in Seq(CliCalls) /\ Len(calls') = Len(calls) + Len(new)
        /\ \A p \in 1..Len(new) :
             /\ Len(calls) + p \in DOMAIN calls' /\ Len(calls) + p \in Ids
             /\ Len(calls) + p \notin DOMAIN calls
             /\ calls'[Len(calls) + p] = new[p] /\ ran[Len(calls) + p] = 0
        /\ Onward(s) /\ Counted' /\ CallsSound'
    BY <1>1, <2>1, <2>4, <2>21, CallsGrow
  <2>7. /\ ids \in Seq(Ids) /\ DOMAIN ids = 1..Len(b)
        /\ \A p \in 1..Len(b) : ids[p] = Len(calls) + p
    BY <2>4, <2>6, <2>21
  <2>8. \A p \in DOMAIN ids : /\ ids[p] \in DOMAIN calls' /\ ids[p] \notin DOMAIN calls
                              /\ calls'[ids[p]].session = s /\ ran[ids[p]] = 0
    BY <2>4, <2>6, <2>7
  <2>9. \A p, q \in DOMAIN ids : ids[p] = ids[q] => p = q
    BY <2>4, <2>5, <2>7
  <2>19. PICK n : n = f.step + 1
    OBVIOUS
  <2> PICK g : g = WithBatch(f, n, ids)
    OBVIOUS
  <2>10. stack' = Update(g)
    BY <2>1, <2>19, <2>21 DEF WithBatch
  <2>11. n \in Nat
    BY <2>2, <2>19
  <2>20. /\ g \in Frames /\ g.session = f.session /\ g.mem = f.mem /\ g.at = f.at
         /\ g.batch = ids
    <3>1. f \in Frames /\ n \in Nat /\ ids \in Seq(Ids) /\ g = WithBatch(f, n, ids)
      BY <2>2, <2>7, <2>11
    <3> QED
      BY <3>1, BatchPut
  <2>12. g \in Frames /\ g.session = s /\ g.mem = f.mem /\ g.at = f.at
    BY <2>20
  <2> PICK m : m = f.mem
    OBVIOUS
  <2>13. /\ files' \in [CliSessions -> Mems] /\ files'[s] = m
         /\ \A t \in CliSessions : t # s => files'[t] = files[t]
    BY <2>1, <2>2, FileTyped
  <2>14. FrameSound(g)'
    <3>1. /\ g = WithBatch(Loop, n, ids) /\ m = files'[s] /\ m \in {files[s], Loop.mem}
          /\ n \in Nat /\ ids \in Seq(Ids)
      BY <2>7, <2>11, <2>13
    <3>2. UNCHANGED <<reply, ran>> /\ Onward(s)
      BY <1>1, <2>6
    <3> QED
      BY <1>1, <2>8, <2>9, <3>1, <3>2, NewBatchSound
  <2>15. MemSound(s, m)' /\ HasRoom(m)'
    BY <2>2, <2>6, MemStays, RunsNothing
  <2>16. SameTask(f.mem, g.mem) /\ g.mem.agent = f.mem.agent
    BY <2>12 DEF SameTask
  <2>17. Parted
    BY <1>1, <2>6, <2>10, <2>12, <2>13, <2>14, <2>15, <2>16, UpdateKeeps
  <2>18. CliTyped'
    <3>1. Len(calls') <= MaxCalls
      BY <2>1, <2>4, <2>6
    <3> QED
      BY <1>1, <2>6, <2>17, <3>1 DEF CliInv, CliTyped, Parted, Counted
  <2> QED
    BY <2>6, <2>17, <2>18 DEF CliInv, Parted
<1> QED
  BY <1>2, <1>3

LEMMA RoutesKeeps ==
  ASSUME CliInv, copies = 0, Routes
  PROVE  CliInv'
<1> PICK s : s = Loop.session
  OBVIOUS
<1>1. /\ Running /\ Loop.at \in {"step", "route"}
      /\ UNCHANGED <<reply, ran, allowed, always, faults>>
  BY DEF Routes
<1>2. CASE Loop.step # 0
  <2>1. Ends(Loop.mem, "idle") /\ UNCHANGED calls
    BY <1>2 DEF Routes
  <2> QED
    BY <1>1, <2>1, EndsAtStep
<1>3. CASE Loop.step = 0
  <2> PICK f : f = Loop
    OBVIOUS
  <2>1. /\ Len(calls) < MaxCalls
        /\ calls' = Append(calls, [kind |-> "task", session |-> s])
        /\ stack' = Update([Loop EXCEPT !.step = 1, !.batch = <<Len(calls) + 1>>])
        /\ UNCHANGED files
    <3>1. Len(calls) \in Nat
      BY CallsTyped DEF CliInv
    <3>2. Len(calls) + 0 + 1 <= MaxCalls => Len(calls) < MaxCalls
      BY <3>1, CliAssumption
    <3> QED
      BY <1>3, <3>2 DEF Routes, Within
  <2>19. PICK new, ids : /\ new = <<[kind |-> "task", session |-> s]>>
                      /\ ids = <<Len(calls) + 1>>
    OBVIOUS
  <2>2. /\ f \in Frames /\ f.mem \in Mems /\ s \in CliSessions
        /\ MemSound(s, f.mem) /\ ~Resumable(f.mem)
    BY <1>1, StepIs, FrameFields
  <2>3. Len(calls) \in Nat /\ calls \in Seq(CliCalls)
    BY CallsTyped DEF CliInv, CliTyped
  <2>4. new \in Seq(CliCalls) /\ Len(new) = 1 /\ new[1].session = s /\ calls' = calls \o new
    <3>1. PICK c : c = [kind |-> "task", session |-> s]
      OBVIOUS
    <3>2. c \in CliCalls /\ c.session = s
      BY <2>2, <3>1 DEF CliCalls
    <3>3. new = <<c>> /\ calls' = Append(calls, c)
      BY <2>1, <2>19, <3>1
    <3>4. Append(calls, c) = calls \o <<c>>
      BY <2>3, <3>2
    <3> QED
      BY <3>2, <3>3, <3>4
  <2>5. /\ calls' \in Seq(CliCalls) /\ Len(calls') = Len(calls) + Len(new)
        /\ \A p \in 1..Len(new) :
             /\ Len(calls) + p \in DOMAIN calls' /\ Len(calls) + p \in Ids
             /\ Len(calls) + p \notin DOMAIN calls
             /\ calls'[Len(calls) + p] = new[p] /\ ran[Len(calls) + p] = 0
        /\ Onward(s) /\ Counted' /\ CallsSound'
    <3>1. Len(calls) + Len(new) <= MaxCalls
      BY <2>1, <2>3, <2>4, CliAssumption
    <3> QED
      BY <1>1, <2>4, <3>1, CallsGrow
  <2>6. ids \in Seq(Ids) /\ DOMAIN ids = {1} /\ ids[1] = Len(calls) + 1
    BY <2>4, <2>5, <2>19
  <2>7. \A p \in DOMAIN ids : /\ ids[p] \in DOMAIN calls' /\ ids[p] \notin DOMAIN calls
                              /\ calls'[ids[p]].session = s /\ ran[ids[p]] = 0
    BY <2>4, <2>5, <2>6
  <2>8. \A p, q \in DOMAIN ids : ids[p] = ids[q] => p = q
    BY <2>6
  <2> PICK g : g = WithBatch(f, 1, ids)
    OBVIOUS
  <2>9. stack' = Update(g)
    BY <2>1, <2>19 DEF WithBatch
  <2>18. /\ g \in Frames /\ g.session = f.session /\ g.mem = f.mem /\ g.at = f.at
         /\ g.batch = ids
    <3>1. f \in Frames /\ 1 \in Nat /\ ids \in Seq(Ids)
      BY <2>2, <2>6
    <3> QED
      BY <3>1, BatchPut
  <2>10. g \in Frames /\ g.session = s /\ g.mem = f.mem /\ g.at = f.at
    BY <2>18
  <2> PICK m : m = files[s]
    OBVIOUS
  <2>11. /\ files' \in [CliSessions -> Mems] /\ files'[s] = m
         /\ \A t \in CliSessions : t # s => files'[t] = files[t]
    BY <2>1 DEF CliInv, CliTyped
  <2>12. FrameSound(g)'
    BY <1>1, <2>1, <2>5, <2>6, <2>7, <2>8, <2>11, NewBatchSound
  <2>13. MemSound(s, m) /\ HasRoom(m)
    BY <1>1, <2>2, NotResuming DEF CliInv, FilesSound
  <2>14. MemSound(s, m)' /\ HasRoom(m)'
    BY <1>1, <2>5, <2>13, MemStays, RoomKept DEF CliInv
  <2>15. SameTask(f.mem, g.mem) /\ g.mem.agent = f.mem.agent
    BY <2>10 DEF SameTask
  <2>16. Parted
    BY <1>1, <2>5, <2>9, <2>10, <2>11, <2>12, <2>14, <2>15, UpdateKeeps
  <2>17. CliTyped'
    <3>1. Len(calls') <= MaxCalls
      BY <2>1, <2>3, <2>4, <2>5, CliAssumption
    <3> QED
      BY <1>1, <2>5, <2>16, <3>1 DEF CliInv, CliTyped, Parted, Counted
  <2> QED
    BY <2>5, <2>16, <2>17 DEF CliInv, Parted
<1> QED
  BY <1>2, <1>3

\* The tasks: what the record of a new or taken up task is.
LEMMA ChildIs ==
  ASSUME CliInv, NEW old \in Mems, NEW s \in CliSessions, NEW mem \in Mems,
         NEW agent \in Agents, MemSound(s, mem), Delegable(mem, agent),
         NEW mode \in {"task", "queued"}, NEW m, m = Child(old, s, mem, agent, mode)
  PROVE  /\ m \in Mems /\ m.made /\ m.subagent /\ m.parent = s
         /\ m.lineage = Append(mem.lineage, agent) /\ m.agent = agent
         /\ m.depth = Len(m.lineage) /\ m.depth <= MaxDepth
         /\ \A i, j \in DOMAIN m.lineage : m.lineage[i] = m.lineage[j] => i = j
         /\ m.status = IF mode = "queued" THEN "idle" ELSE "running"
         /\ SamePending(old, m)
<1> PICK lin, d : lin = Append(mem.lineage, agent) /\ d = ChildDepth(mem)
  OBVIOUS
<1>1. mem.lineage \in Seq(Agents) /\ mem.depth \in Nat /\ mem.subagent \in BOOLEAN
  BY DEF Mems
<1>2. /\ lin \in Seq(Agents) /\ Len(mem.lineage) \in Nat
      /\ DOMAIN lin = 1..(Len(mem.lineage) + 1) /\ DOMAIN mem.lineage = 1..Len(mem.lineage)
      /\ \A i \in 1..Len(mem.lineage) : lin[i] = mem.lineage[i]
      /\ lin[Len(mem.lineage) + 1] = agent /\ Len(lin) = Len(mem.lineage) + 1
  BY <1>1, AppendPositions
<1>3. d = Len(lin) /\ d <= MaxDepth /\ d \in Nat
  <2>1. mem.subagent => mem.depth = Len(mem.lineage)
    BY DEF MemSound
  <2>2. ~mem.subagent => Len(mem.lineage) = 0
    BY DEF MemSound
  <2> QED
    BY <1>1, <1>2, <2>1, <2>2 DEF ChildDepth, Delegable, Governed
<1>4. ASSUME NEW i \in DOMAIN lin, NEW j \in DOMAIN lin, lin[i] = lin[j] PROVE i = j
  <2>1. \A k \in DOMAIN mem.lineage : mem.lineage[k] # agent
    BY DEF Delegable, Governed
  <2>2. \A k, l \in DOMAIN mem.lineage : mem.lineage[k] = mem.lineage[l] => k = l
    BY DEF MemSound
  <2>3. \A k \in DOMAIN lin : k \in DOMAIN mem.lineage \/ k = Len(mem.lineage) + 1
    BY <1>2
  <2> QED
    BY <1>2, <1>4, <2>1, <2>2, <2>3
<1>5. /\ m.made = TRUE /\ m.subagent = TRUE /\ m.parent = s /\ m.depth = d /\ m.lineage = lin
      /\ m.agent = agent /\ m.status = IF mode = "queued" THEN "idle" ELSE "running"
      /\ m.task = IF mode = "queued" THEN "queued" ELSE old.task
      /\ SamePending(old, m)
      /\ m = [made |-> TRUE, subagent |-> TRUE, parent |-> s, depth |-> d, lineage |-> lin,
              agent |-> agent, status |-> m.status, task |-> m.task, asked |-> old.asked,
              decision |-> old.decision, question |-> old.question,
              answered |-> old.answered, pattern |-> old.pattern]
  BY DEF Child, Mems, SamePending
<1>6. m.task \in {"none", "queued"} /\ m.status \in {"idle", "running", "paused", "stop"}
  BY <1>5 DEF Mems
<1>7. /\ old.asked \in Ids \cup {0} /\ old.decision \in {"none", "once", "always", "reject"}
      /\ old.question \in Ids \cup {0} /\ old.answered \in BOOLEAN /\ old.pattern \in BOOLEAN
  BY DEF Mems
<1>8. s \in Nat
  BY DEF CliSessions
<1>10. agent \in Agents \cup {"default"} /\ TRUE \in BOOLEAN
  OBVIOUS
<1>9. m \in Mems
  <2> PICK st, tk : st = m.status /\ tk = m.task
    OBVIOUS
  <2>1. m = [made |-> TRUE, subagent |-> TRUE, parent |-> s, depth |-> d, lineage |-> lin,
             agent |-> agent, status |-> st, task |-> tk, asked |-> old.asked,
             decision |-> old.decision, question |-> old.question,
             answered |-> old.answered, pattern |-> old.pattern]
    BY <1>5
  <2>2. st \in {"idle", "running", "paused", "stop"} /\ tk \in {"none", "queued"}
    BY <1>6
  <2>3. lin \in Seq(Agents) /\ d \in Nat /\ s \in Nat
    BY <1>2, <1>3, <1>8
  <2> QED
    BY <1>7, <1>10, <2>1, <2>2, <2>3 DEF Mems
<1> QED
  BY <1>3, <1>4, <1>5, <1>9

LEMMA ChildSound ==
  ASSUME NEW s, NEW old, NEW m, SamePending(old, m), MemSound(s, old), m.subagent,
         m.depth = Len(m.lineage),
         \A i, j \in DOMAIN m.lineage : m.lineage[i] = m.lineage[j] => i = j
  PROVE  /\ MemSound(s, m)
         /\ HasRoom(old) <=> HasRoom(m)
         /\ Resumable(old) <=> Resumable(m)
<1>1. MemSound(s, m)
  BY DEF MemSound, SamePending
<1>2. HasRoom(old) <=> HasRoom(m)
  BY DEF HasRoom, Allows, SamePending
<1>3. Resumable(old) <=> Resumable(m)
  BY DEF Resumable, SamePending
<1> QED
  BY <1>1, <1>2, <1>3

LEMMA FreshIs ==
  ASSUME NEW s
  PROVE  Fresh \in Mems /\ MemSound(s, Fresh) /\ ~Resumable(Fresh) /\ Fresh.asked = 0
<1>1. Fresh \in Mems
  BY DEF Fresh, Mems
<1> QED
  BY <1>1 DEF Fresh, MemSound, Resumable

LEMMA FrameMade ==
  ASSUME NEW s \in CliSessions, NEW m \in Mems, NEW at \in {"resume", "step", "route"},
         NEW id \in Nat
  PROVE  /\ Frame(s, m, at, id) \in Frames /\ Frame(s, m, at, id).session = s
         /\ Frame(s, m, at, id).mem = m /\ Frame(s, m, at, id).at = at
         /\ Frame(s, m, at, id).batch = <<>>
<1>1. <<>> \in Seq(Ids)
  OBVIOUS
<1> QED
  BY <1>1 DEF Frame, Frames

\* A loop is put on the stack for the task of session s.
LEMMA TaskKeeps ==
  ASSUME CliInv, Running, Loop.batch # <<>>, NEW s \in CliSessions, NEW old \in Mems,
         old = files[s] \/ old = Fresh, NEW agent \in Agents, Delegable(Loop.mem, agent),
         \A k \in DOMAIN stack : stack[k].session # s,
         NEW m, m = Child(old, Loop.session, Loop.mem, agent, "task"),
         files' = [files EXCEPT ![s] = m],
         NEW at, at = IF Resumable(m) THEN "resume" ELSE "step",
         stack' = Append(stack, Frame(s, m, at, Next1)),
         UNCHANGED <<calls, reply, ran, allowed, always, faults>>
  PROVE  CliInv'
<1> PICK e : e = Loop.mem
  OBVIOUS
<1>1. /\ Next1 \in Ids /\ e \in Mems /\ Loop.session \in CliSessions
      /\ MemSound(Loop.session, e)
  BY BatchCall
<1>2. /\ m \in Mems /\ m.made /\ m.subagent /\ m.parent = Loop.session
      /\ m.lineage = Append(e.lineage, agent) /\ m.agent = agent
      /\ m.depth = Len(m.lineage) /\ m.depth <= MaxDepth
      /\ \A i, j \in DOMAIN m.lineage : m.lineage[i] = m.lineage[j] => i = j
      /\ m.status = "running" /\ SamePending(old, m)
  BY <1>1, ChildIs, SMTT(30)
<1>3. MemSound(s, old) /\ HasRoom(old)
  <2>1. CASE old = Fresh
    BY <2>1, FreshIs, RunsNothing
  <2>2. CASE old = files[s]
    <3>1. ~Resuming(s)
      BY DEF Resuming
    <3> QED
      BY <2>2, <3>1 DEF CliInv, FilesSound
  <2> QED
    BY <2>1, <2>2
<1>4. MemSound(s, m) /\ HasRoom(m)
  BY <1>2, <1>3, ChildSound
<1>5. CallsSound' /\ Onward(s) /\ Counted'
  BY OnwardStill
<1>6. MemSound(s, m)' /\ HasRoom(m)'
  <2>1. Allows(m) => ran'[m.asked] = ran[m.asked]
    OBVIOUS
  <2> QED
    BY <1>4, <1>5, <2>1, MemStays, RoomKept DEF CliInv
<1> PICK g : g = Frame(s, m, at, Next1)
  OBVIOUS
<1>7. g \in Frames /\ g.session = s /\ g.mem = m /\ g.at = at /\ g.batch = <<>>
  <2>1. Next1 \in Nat
    BY <1>1 DEF Ids
  <2> QED
    BY <1>2, <2>1, FrameMade
<1>8. /\ files' \in [CliSessions -> Mems] /\ files'[s] = m
      /\ \A t \in CliSessions : t # s => files'[t] = files[t]
  BY <1>2, FileTyped
<1>9. FrameSound(g)'
  BY <1>2, <1>6, <1>7, <1>8, SMTT(30) DEF FrameSound
<1>10. IsChildOf(g, Loop)
  BY <1>2, <1>7 DEF IsChildOf
<1>11. OthersKeep(s)
  BY <1>5, <1>8, OthersStay
<1>12. /\ StackSound' /\ stack' \in Seq(Frames)
       /\ \A t : t # s => (Resuming(t)' <=> Resuming(t))
  <2>1. stack' = Append(stack, g)
    OBVIOUS
  <2> QED
    BY <1>7, <1>9, <1>10, <1>11, <2>1, LoopStarts
<1>13. FilesSound'
  BY <1>5, <1>6, <1>8, <1>12, FilesStay
<1>14. ReplySound'
  BY <1>5, ReplyStays
<1>15. Parted
  BY <1>8, <1>12, <1>13, <1>14 DEF Parted
<1> QED
  BY <1>5, <1>15, Whole

LEMMA StartsTaskKeeps ==
  ASSUME CliInv, StartsTask
  PROVE  CliInv'
<1>1. /\ Running /\ Loop.batch # <<>>
      /\ UNCHANGED <<calls, reply, ran, allowed, always, faults>>
  BY DEF StartsTask, Takes
<1>2. PICK agent \in Agents, s \in CliSessions :
        /\ Delegable(Loop.mem, agent) /\ ~files[s].made
        /\ files' = [files EXCEPT ![s] = Child(Fresh, Loop.session, Loop.mem, agent, "task")]
        /\ stack' = Append(stack, Frame(s, Child(Fresh, Loop.session, Loop.mem, agent, "task"),
                                        "step", Next1))
  BY DEF StartsTask
<1> PICK m : m = Child(Fresh, Loop.session, Loop.mem, agent, "task")
  OBVIOUS
<1>3. \A k \in DOMAIN stack : stack[k].session # s
  BY <1>1, <1>2, LoopIs DEF CliInv, StackSound, InStack, FrameSound
<1>4. SamePending(Fresh, m)
  <2> PICK e, t, o : e = Loop.mem /\ t = Loop.session /\ o = Fresh
    OBVIOUS
  <2>1. e \in Mems /\ t \in CliSessions /\ MemSound(t, e) /\ o \in Mems
    BY <1>1, BatchCall, FreshIs
  <2>2. m = Child(o, t, e, agent, "task") /\ Delegable(e, agent)
    BY <1>2
  <2>3. SamePending(o, m)
    BY <2>1, <2>2, ChildIs
  <2> QED
    BY <2>3
<1>5. ~Resumable(m)
  BY <1>4, FreshIs DEF SamePending, Resumable
<1> QED
  BY <1>1, <1>2, <1>3, <1>5, FreshIs, TaskKeeps

LEMMA ResumesTaskKeeps ==
  ASSUME CliInv, ResumesTask
  PROVE  CliInv'
<1>1. /\ Running /\ Loop.batch # <<>>
      /\ UNCHANGED <<calls, reply, ran, allowed, always, faults>>
  BY DEF ResumesTask, Takes
<1>5. PICK agent \in Agents, s \in CliSessions :
        LET mem == Child(files[s], Loop.session, Loop.mem, agent, "task")
        IN /\ ResumeAllowed(files[s], Loop.session, agent) /\ Delegable(Loop.mem, agent)
           /\ files' = [files EXCEPT ![s] = mem]
           /\ stack' = Append(stack,
                 Frame(s, mem, IF Resumable(mem) THEN "resume" ELSE "step", Next1))
  BY DEF ResumesTask
<1> PICK m : m = Child(files[s], Loop.session, Loop.mem, agent, "task")
  OBVIOUS
<1>2. /\ ResumeAllowed(files[s], Loop.session, agent) /\ Delegable(Loop.mem, agent)
      /\ files' = [files EXCEPT ![s] = m]
      /\ stack' = Append(stack, Frame(s, m, IF Resumable(m) THEN "resume" ELSE "step", Next1))
  BY <1>5
<1>3. \A k \in DOMAIN stack : stack[k].session # s
  <2>1. files[s].status \notin {"running", "paused"}
    BY <1>2 DEF ResumeAllowed
  <2> QED
    BY <1>1, <2>1, LoopIs DEF CliInv, StackSound, InStack, FrameSound
<1>4. files[s] \in Mems
  BY DEF CliInv, CliTyped
<1> QED
  BY <1>1, <1>2, <1>3, <1>4, TaskKeeps

LEMMA QueuesTaskKeeps ==
  ASSUME CliInv, QueuesTask
  PROVE  CliInv'
<1>1. /\ Running /\ Loop.batch # <<>>
      /\ UNCHANGED <<calls, reply, ran, allowed, always, faults>>
  BY DEF QueuesTask, Takes
<1>20. PICK agent \in Agents, s \in CliSessions :
         /\ Delegable(Loop.mem, agent) /\ ~files[s].made
         /\ files' = [files EXCEPT ![s] = Child(Fresh, Loop.session, Loop.mem, agent, "queued")]
         /\ stack' = Update([Loop EXCEPT !.batch = Tail(@)])
  BY DEF QueuesTask
<1>2. PICK m : /\ m = Child(Fresh, Loop.session, Loop.mem, agent, "queued")
               /\ Delegable(Loop.mem, agent) /\ ~files[s].made
               /\ files' = [files EXCEPT ![s] = m]
               /\ stack' = Update([Loop EXCEPT !.batch = Tail(@)])
  BY <1>20
<1> PICK f, e : f = Loop /\ e = f.mem
  OBVIOUS
<1>3. /\ e \in Mems /\ f.session \in CliSessions /\ MemSound(f.session, e) /\ f \in Frames
      /\ FrameSound(f) /\ f.at \in {"step", "route"}
  BY <1>1, BatchCall, LoopSound
<1> PICK sf, o : sf = f.session /\ o = Fresh
  OBVIOUS
<1>4. /\ m \in Mems /\ m.subagent /\ m.depth = Len(m.lineage) /\ SamePending(Fresh, m)
      /\ \A i, j \in DOMAIN m.lineage : m.lineage[i] = m.lineage[j] => i = j
  <2>1. o \in Mems /\ e \in Mems /\ sf \in CliSessions /\ MemSound(sf, e)
    BY <1>3, FreshIs
  <2>2. m = Child(o, sf, e, agent, "queued") /\ Delegable(e, agent)
    BY <1>2
  <2>3. /\ m \in Mems /\ m.subagent /\ m.depth = Len(m.lineage) /\ SamePending(o, m)
        /\ \A i, j \in DOMAIN m.lineage : m.lineage[i] = m.lineage[j] => i = j
    BY <2>1, <2>2, ChildIs
  <2> QED
    BY <2>3
<1>5. MemSound(s, m) /\ ~Resumable(m)
  BY <1>4, FreshIs, ChildSound
<1>6. CallsSound' /\ Onward(s) /\ Onward(f.session) /\ Counted'
  BY <1>1, OnwardStill
<1>7. MemSound(s, m)' /\ HasRoom(m)'
  BY <1>5, <1>6, MemStays, RunsNothing
<1>8. /\ files' \in [CliSessions -> Mems] /\ files'[s] = m
      /\ \A t \in CliSessions : t # s => files'[t] = files[t]
  BY <1>2, <1>4, FileTyped
<1>9. OthersKeep(s)
  BY <1>1, <1>6, <1>8, OthersStay
<1>10. \A k \in DOMAIN stack : stack[k].session # s
  BY <1>1, <1>2, LoopIs DEF CliInv, StackSound, InStack, FrameSound
<1> PICK g : g = NextInBatch(f)
  OBVIOUS
<1>11. g \in Frames /\ FrameSound(g) /\ g.session = f.session /\ g.mem = f.mem /\ g.at = f.at
  BY <1>1, <1>3, BatchGoesOn
<1>12. f.session # s
  BY <1>1, <1>10, LoopIs DEF CliInv
<1>13. FrameSound(g)'
  BY <1>9, <1>11, <1>12 DEF OthersKeep
<1>14. BelowKeep
  <2> SUFFICES ASSUME NEW k \in 1..(Len(stack) - 1), NEW d \in Frames, d = stack[k]
               PROVE  FrameSound(d)'
    BY DEF BelowKeep
  <2>1. k \in DOMAIN stack
    BY <1>1, LoopIs DEF CliInv
  <2>2. FrameSound(d) /\ d.session # s
    BY <1>10, <2>1 DEF CliInv, StackSound, InStack
  <2> QED
    BY <1>9, <2>2 DEF OthersKeep
<1>15. /\ StackSound' /\ stack' \in Seq(Frames)
       /\ \A t : t # f.session => (Resuming(t)' <=> Resuming(t))
  <2>1. stack' = Update(g) /\ SameTask(Loop.mem, g.mem) /\ g.mem.agent = Loop.mem.agent
    BY <1>2, <1>11 DEF SameTask, NextInBatch
  <2> QED
    BY <1>1, <1>11, <1>13, <1>14, <2>1, LoopGoesOn
<1>16. ~Resuming(f.session)
  BY <1>1, <1>3, NotResuming
<1>17. FilesSound'
  BY <1>6, <1>7, <1>8, <1>15, <1>16, FilesStay
<1>18. ReplySound'
  BY <1>1, <1>6, ReplyStays
<1>19. Parted
  BY <1>8, <1>15, <1>17, <1>18 DEF Parted
<1> QED
  BY <1>1, <1>6, <1>19, Whole

-----------------------------------------------------------------------------
\* A session is opened, and what it was paused for is carried out.
LEMMA OpensKeeps ==
  ASSUME CliInv, NEW s \in CliSessions, NEW agent \in Agents \cup {"default"}, NEW prompt,
         Opens(s, agent, prompt), ~Running
  PROVE  CliInv'
<1> PICK m : m = OpenedAs(files[s], agent)
  OBVIOUS
<1> PICK at : at = IF Resumable(m) THEN "resume"
                   ELSE IF prompt = "route" THEN "route" ELSE "step"
  OBVIOUS
<1> PICK g : g = Frame(s, m, at, 0)
  OBVIOUS
<1>1. /\ stack = <<>> /\ files[s].made /\ files' = [files EXCEPT ![s] = m] /\ stack' = <<g>>
      /\ UNCHANGED <<calls, reply, ran, allowed, always, faults>>
  BY DEF Opens, Running, OpenedAs
<1> PICK o : o = files[s]
  OBVIOUS
<1>2. /\ m \in Mems /\ m.status = "running" /\ SameTask(o, m) /\ SamePending(o, m) /\ m.made
  <2>1. o \in Mems
    BY DEF CliInv, CliTyped
  <2>2. m \in Mems /\ m.status = "running" /\ SameTask(o, m) /\ SamePending(o, m)
    BY <2>1, Opened
  <2> QED
    BY <1>1, <2>2 DEF SameTask
<1>3. MemSound(s, o) /\ HasRoom(o)
  BY <1>1 DEF CliInv, FilesSound, Resuming
<1>4. /\ MemSound(s, m)
      /\ HasRoom(m)
  <2>1. MemSound(s, m)
    BY <1>2, <1>3 DEF MemSound, SameTask, SamePending
  <2>2. HasRoom(m)
    BY <1>2, <1>3 DEF HasRoom, Allows, SamePending
  <2> QED
    BY <2>1, <2>2
<1>5. CallsSound' /\ Onward(s) /\ Counted'
  BY <1>1, OnwardStill
<1>6. MemSound(s, m)' /\ HasRoom(m)'
  BY <1>1, <1>4, <1>5, MemStays, RoomKept DEF CliInv
<1>7. g \in Frames /\ g.session = s /\ g.mem = m /\ g.at = at /\ g.batch = <<>>
  BY <1>2, FrameMade
<1>8. /\ files' \in [CliSessions -> Mems] /\ files'[s] = m
      /\ \A t \in CliSessions : t # s => files'[t] = files[t]
  BY <1>1, <1>2, FileTyped
<1>9. FrameSound(g)'
  <2>1. at = "resume" => Resumable(m)
    OBVIOUS
  <2>2. at \in {"step", "route"} => ~Resumable(m)
    OBVIOUS
  <2>3. DOMAIN g.batch = {}
    BY <1>7
  <2>4. MemSound(g.session, g.mem)' /\ (g.at = "resume" => HasRoom(g.mem)')
    BY <1>6, <1>7
  <2>5. g.mem.made /\ g.mem.status = "running"
    BY <1>2, <1>7
  <2>6. files'[g.session].made /\ files'[g.session].status \in {"running", "paused"}
    BY <1>2, <1>7, <1>8
  <2> QED
    BY <1>7, <2>1, <2>2, <2>3, <2>4, <2>5, <2>6 DEF FrameSound
<1>10. stack' \in Seq(Frames) /\ DOMAIN stack' = {1} /\ Len(stack') = 1 /\ stack'[1] = g
  BY <1>1, <1>7
<1>11. StackSound'
  BY <1>9, <1>10 DEF StackSound, InStack
<1>12. \A t : ~Resuming(t)
  BY <1>1 DEF Resuming
<1>13. FilesSound'
  BY <1>5, <1>6, <1>8, <1>12, FilesStay
<1>14. ReplySound'
  BY <1>1, <1>5, ReplyStays
<1>15. Parted
  BY <1>8, <1>10, <1>11, <1>13, <1>14 DEF Parted
<1> QED
  BY <1>1, <1>5, <1>15, Whole

LEMMA FrameSettles ==
  ASSUME NEW f \in Frames, NEW q \in BOOLEAN, NEW p \in BOOLEAN, NEW g,
         g = Settling(f, q, p)
  PROVE  /\ g \in Frames /\ g.session = f.session /\ g.at = "settle" /\ g.batch = f.batch
         /\ SameTask(f.mem, g.mem) /\ g.mem.agent = f.mem.agent /\ g.mem.status = f.mem.status
         /\ g.mem.asked = f.mem.asked /\ g.mem.decision = f.mem.decision
         /\ g.mem.pattern => f.mem.pattern \/ p
<1> PICK a, b : a = f.mem /\ b = [a EXCEPT !.pattern = @ \/ p]
  OBVIOUS
<1>1. a \in Mems
  BY FrameFields
<1>2. /\ b \in Mems /\ SameTask(a, b) /\ b.agent = a.agent /\ b.status = a.status
      /\ b.asked = a.asked /\ b.decision = a.decision
      /\ b.pattern => a.pattern \/ p
  <2>1. (a.pattern \/ p) \in BOOLEAN
    OBVIOUS
  <2> QED
    BY <1>1, <2>1 DEF Mems, SameTask
<1>3. /\ g.session = f.session /\ g.at = "settle" /\ g.batch = f.batch /\ g.mem = b
      /\ g = [session |-> f.session, mem |-> b, at |-> "settle", batch |-> f.batch,
              step |-> f.step, answers |-> q, for |-> f.for]
  BY DEF Frames, Settling
<1>4. g \in Frames
  BY <1>2, <1>3, FrameFields DEF Frames
<1> QED
  BY <1>2, <1>3, <1>4

LEMMA RunsPendingKeeps ==
  ASSUME CliInv, RunsPending
  PROVE  CliInv'
<1> PICK s : s = Loop.session
  OBVIOUS
<1> PICK f, e : f = Loop /\ e = f.mem
  OBVIOUS
<1>20. PICK question, goes, p :
      /\ question = (e.question # 0 /\ e.answered)
      /\ goes = (~question /\ e.decision \in {"once", "always"})
      /\ p = (goes /\ e.decision = "always")
  OBVIOUS
<1> PICK g : g = Settling(f, question, p)
  OBVIOUS
<1>1. /\ Running /\ f.at = "resume"
      /\ ran' = IF goes THEN [ran EXCEPT ![e.asked] = @ + 1] ELSE ran
      /\ stack' = Update(g)
      /\ UNCHANGED <<files, calls, reply, allowed, always, faults>>
  BY <1>20 DEF RunsPending, Settling
<1>2. /\ f \in Frames /\ FrameSound(f) /\ e \in Mems /\ s \in CliSessions
      /\ MemSound(s, e) /\ Resumable(e) /\ HasRoom(e) /\ e.made /\ e.status = "running"
      /\ f.batch = <<>> /\ f.session = s
  BY <1>1, LoopIs, LoopSound, FrameFields DEF CliInv, FrameSound
<1>3. question \in BOOLEAN /\ goes \in BOOLEAN /\ p \in BOOLEAN
  BY <1>20
<1>4. /\ g \in Frames /\ g.session = s /\ g.at = "settle" /\ g.batch = f.batch
      /\ SameTask(e, g.mem) /\ g.mem.agent = e.agent /\ g.mem.status = e.status
      /\ g.mem.asked = e.asked /\ g.mem.decision = e.decision
      /\ g.mem.pattern => e.pattern \/ p
  <2>1. /\ g \in Frames /\ g.session = f.session /\ g.at = "settle" /\ g.batch = f.batch
        /\ SameTask(f.mem, g.mem) /\ g.mem.agent = f.mem.agent /\ g.mem.status = f.mem.status
        /\ g.mem.asked = f.mem.asked /\ g.mem.decision = f.mem.decision
        /\ g.mem.pattern => f.mem.pattern \/ p
    <3>1. f \in Frames /\ question \in BOOLEAN /\ p \in BOOLEAN
      BY <1>2, <1>3
    <3> QED
      BY <3>1, FrameSettles
  <2> QED
    BY <1>2, <2>1
<1>5. CallsSound' /\ Onward(s) /\ Counted'
  <2>1. CASE goes
    <3>1. Allows(e)
      BY <1>2, <1>20, <2>1 DEF Resumable, Allows
    <3>2. /\ e.asked \in DOMAIN calls /\ calls[e.asked].session = s
          /\ ran[e.asked] + 1 <= Room(e.asked)
      BY <1>2, <3>1 DEF Allows, MemSound, HasRoom
    <3> QED
      BY <1>1, <2>1, <3>2, CallsRun
  <2>2. CASE ~goes
    BY <1>1, <2>2, OnwardStill
  <2> QED
    BY <2>1, <2>2
<1>6. MemSound(s, g.mem)
  <2>1. p => s \in always
    BY <1>2, <1>20 DEF MemSound
  <2>2. g.mem.pattern \/ g.mem.decision = "always" => s \in always
    BY <1>2, <1>4, <2>1 DEF MemSound
  <2> QED
    BY <1>2, <1>4, <2>2 DEF MemSound, SameTask
<1> PICK c : c = g.mem
  OBVIOUS
<1>7. MemSound(s, c)'
  BY <1>5, <1>6, MemStays
<1> PICK m : m = files[s]
  OBVIOUS
<1>8. /\ files' \in [CliSessions -> Mems] /\ files'[s] = m
      /\ \A t \in CliSessions : t # s => files'[t] = files[t]
      /\ m.made /\ m.status \in {"running", "paused"}
  BY <1>1, <1>2 DEF CliInv, CliTyped, FrameSound
<1>9. MemSound(s, m)'
  <2>1. MemSound(s, m)
    BY <1>2 DEF CliInv, FilesSound
  <2> QED
    BY <1>5, <2>1, MemStays
<1>10. FrameSound(g)'
  <2>1. c.made
    BY <1>2, <1>4 DEF SameTask
  <2>2. DOMAIN g.batch = {} /\ g.batch = <<>>
    BY <1>2, <1>4
  <2>3. MemSound(g.session, g.mem)'
    BY <1>4, <1>7
  <2>4. g.mem.status = "running"
    BY <1>2, <1>4
  <2>5. files'[g.session].made /\ files'[g.session].status \in {"running", "paused"}
    BY <1>4, <1>8
  <2> QED
    BY <1>4, <2>1, <2>2, <2>3, <2>4, <2>5 DEF FrameSound
<1>11. Parted
  BY <1>1, <1>4, <1>5, <1>8, <1>9, <1>10, UpdateKeeps
<1> QED
  BY <1>1, <1>5, <1>11, Whole

LEMMA FrameCarried ==
  ASSUME NEW f \in Frames, NEW at \in {"step", "route"}, NEW m \in Mems, NEW g,
         g = CarriedTo(f, at, m)
  PROVE  g \in Frames /\ g.session = f.session /\ g.mem = m /\ g.at = at /\ g.batch = f.batch
<1>1. /\ g.session = f.session /\ g.mem = m /\ g.at = at /\ g.batch = f.batch
      /\ g = [session |-> f.session, mem |-> m, at |-> at, batch |-> f.batch,
              step |-> f.step, answers |-> f.answers, for |-> f.for]
  BY DEF Frames, CarriedTo
<1> QED
  BY <1>1, FrameFields DEF Frames

\* A process that dies leaves room for what it ran and did not save.
LEMMA FaultLeavesRoom ==
  ASSUME CliInv, UNCHANGED <<calls, ran, allowed, always>>, faults' = faults + 1,
         NEW t, NEW mem, MemSound(t, mem)
  PROVE  HasRoom(mem)'
<1> SUFFICES ASSUME Allows(mem) PROVE ran[mem.asked] + 1 <= Room(mem.asked)'
  BY DEF HasRoom, Allows
<1> DEFINE i == mem.asked
<1>1. i \in DOMAIN calls /\ i \in Ids /\ ran[i] <= Room(i)
  BY CallsTyped DEF Allows, MemSound, CliInv, CallsSound
<1>2. ran[i] \in Nat /\ allowed[i] \in Nat /\ faults \in Nat
  BY <1>1, CallsTyped DEF CliInv
<1> HIDE DEF i
<1>3. ran[i] + 1 <= Room(i)'
  BY <1>1, <1>2 DEF Room
<1> QED
  BY <1>3 DEF i

LEMMA SettlesPendingKeeps ==
  ASSUME CliInv, SettlesPending
  PROVE  CliInv'
<1> PICK s : s = Loop.session
  OBVIOUS
<1> PICK f, e : f = Loop /\ e = f.mem
  OBVIOUS
<1>1. /\ Running /\ f.at = "settle" /\ UNCHANGED <<calls, reply, ran, allowed, always>>
      /\ faults' = faults \/ (faults < MaxFaults /\ faults' = faults + 1)
  BY DEF SettlesPending, AppendFails
<1>2. /\ f \in Frames /\ FrameSound(f) /\ e \in Mems /\ s \in CliSessions
      /\ MemSound(s, e) /\ e.made /\ e.status = "running" /\ f.batch = <<>>
      /\ f.session = s
  BY <1>1, LoopIs, LoopSound, FrameFields DEF CliInv, FrameSound
<1>3. CallsSound' /\ Onward(s) /\ Counted'
  BY <1>1, OnwardStill
<1>4. CASE AppendFails(Loop.mem)
  <2>1. Ends(e, "stop") /\ faults' = faults + 1
    BY <1>4 DEF AppendFails
  <2>2. MemSound(s, e)' /\ HasRoom(e)'
    BY <1>1, <1>2, <1>3, <2>1, MemStays, FaultLeavesRoom
  <2>3. Parted
    BY <1>1, <1>2, <1>3, <2>1, <2>2, EndsKeeps
  <2> QED
    BY <1>1, <1>3, <2>3, Whole
<1>5. CASE ~AppendFails(Loop.mem)
  <2> PICK m : m = Cleared(e)
    OBVIOUS
  <2>1. PICK at \in {"step", "route"} :
          /\ files' = [files EXCEPT ![s] = m]
          /\ stack' = Update(CarriedTo(f, at, m))
    BY <1>5 DEF SettlesPending, CarriedTo
  <2>2. /\ m \in Mems /\ m.status = e.status /\ m.agent = e.agent /\ SameTask(e, m)
        /\ m.pattern = e.pattern /\ m.asked = 0 /\ m.question = 0 /\ m.decision = "none"
    BY <1>2, ClearedIs
  <2>3. MemSound(s, m) /\ ~Resumable(m)
    BY <1>2, <2>2 DEF MemSound, SameTask, Resumable
  <2>4. MemSound(s, m)' /\ HasRoom(m)'
    BY <1>3, <2>3, MemStays, RunsNothing
  <2> PICK g : g = CarriedTo(f, at, m)
    OBVIOUS
  <2>5. g \in Frames /\ g.session = s /\ g.mem = m /\ g.at = at /\ g.batch = <<>>
    <3>1. /\ g \in Frames /\ g.session = f.session /\ g.mem = m /\ g.at = at
          /\ g.batch = f.batch
      <4>1. f \in Frames /\ m \in Mems
        BY <1>2, <2>2
      <4> QED
        BY <4>1, FrameCarried
    <3> QED
      BY <1>2, <3>1
  <2>6. /\ files' \in [CliSessions -> Mems] /\ files'[s] = m
        /\ \A t \in CliSessions : t # s => files'[t] = files[t]
    BY <1>2, <2>1, <2>2, FileTyped
  <2>7. m.made
    BY <1>2, <2>2 DEF SameTask
  <2>8. FrameSound(g)'
    BY <1>2, <2>2, <2>3, <2>4, <2>5, <2>6, <2>7 DEF FrameSound
  <2>9. stack' = Update(g) /\ SameTask(f.mem, g.mem) /\ g.mem.agent = f.mem.agent
    BY <2>1, <2>2, <2>5
  <2>10. Parted
    BY <1>1, <1>3, <2>4, <2>5, <2>6, <2>8, <2>9, UpdateKeeps
  <2> QED
    BY <1>1, <1>3, <2>10, Whole
<1> QED
  BY <1>4, <1>5

-----------------------------------------------------------------------------
\* Another process answers; the process of the loops dies.
LEMMA LoadsKeeps ==
  ASSUME CliInv, NEW s \in CliSessions, Loads(s)
  PROVE  CliInv'
<1>1. /\ reply = None /\ files[s].made /\ reply' = [session |-> s, mem |-> files[s]]
      /\ UNCHANGED <<files, calls, stack, ran, allowed, always, faults>>
  BY DEF Loads
<1> PICK o : o = files[s]
  OBVIOUS
<1>2. o \in Mems /\ MemSound(s, o)
  BY DEF CliInv, CliTyped, FilesSound
<1>3. CallsSound' /\ Onward(0) /\ Counted'
  BY <1>1, OnwardStill
<1>4. MemSound(s, o)'
  BY <1>2, <1>3, MemStays
<1>5. reply'.session = s /\ reply'.mem = o
  BY <1>1
<1>6. ReplySound'
  BY <1>1, <1>4, <1>5 DEF ReplySound, MemSound
<1>7. CliTyped'
  BY <1>1, <1>2 DEF CliInv, CliTyped
<1>8. FilesSound'
  BY <1>1 DEF CliInv, FilesSound, MemSound, HasRoom, Allows, Room, Resuming
<1>9. ASSUME NEW f \in Frames, InStack(f)' PROVE FrameSound(f)'
  <2>1. FrameSound(f)
    BY <1>1, <1>9 DEF CliInv, StackSound, InStack
  <2>2. AsksNoMore(f.session)
    BY <1>1, <1>5 DEF AsksNoMore, AskedFor
  <2>3. files'[f.session].made /\ files'[f.session].status \in {"running", "paused"}
    BY <1>1, <2>1 DEF FrameSound
  <2>4. f.session # 0
    BY FrameFields DEF CliSessions
  <2> QED
    BY <1>3, <2>1, <2>2, <2>3, <2>4, FrameStays DEF CliInv
<1>10. StackSound'
  BY <1>1, <1>9 DEF CliInv, StackSound, IsChildOf
<1> QED
  BY <1>3, <1>6, <1>7, <1>8, <1>10 DEF CliInv

LEMMA ReplyWritten ==
  ASSUME CliInv, reply # None, NEW s, s = reply.session, NEW m \in Mems, m.made,
         files' = [files EXCEPT ![s] = m],
         m.status = "paused", m.asked = reply.mem.asked, MemSound(s, m)', HasRoom(m)',
         reply' = None, UNCHANGED <<calls, stack, ran, faults>>, Onward(0), Counted',
         CallsSound', always' \subseteq CliSessions
  PROVE  CliInv'
<1>1. s \in CliSessions
  BY DEF CliInv, CliTyped
<1>2. /\ files' \in [CliSessions -> Mems] /\ files'[s] = m
      /\ \A t \in CliSessions : t # s => files'[t] = files[t]
  BY <1>1, FileTyped
<1>3. Onward(s)
  BY DEF Onward
<1>4. FilesSound'
  <2>1. \A t : Resuming(t)' <=> Resuming(t)
    BY DEF Resuming
  <2> QED
    BY <1>2, <1>3, <2>1, FilesStay
<1>5. ASSUME NEW f \in Frames, InStack(f)' PROVE FrameSound(f)'
  <2>1. FrameSound(f)
    BY <1>5 DEF CliInv, StackSound, InStack
  <2>2. f.session \in CliSessions /\ f.session # 0
    BY FrameFields DEF CliSessions
  <2>3. AsksNoMore(f.session)
    BY <1>2, <2>2 DEF AsksNoMore, AskedFor
  <2>4. files'[f.session].made /\ files'[f.session].status \in {"running", "paused"}
    BY <1>2, <2>1, <2>2 DEF FrameSound
  <2> QED
    BY <2>1, <2>2, <2>3, <2>4, FrameStays DEF CliInv
<1>6. StackSound'
  BY <1>5 DEF CliInv, StackSound, IsChildOf
<1>7. CliTyped'
  BY <1>2 DEF CliInv, CliTyped, Counted
<1> QED
  BY <1>4, <1>6, <1>7 DEF CliInv, ReplySound

LEMMA ReplyIs ==
  ASSUME CliInv, reply # None
  PROVE  /\ reply.session \in CliSessions /\ reply.mem \in Mems
         /\ MemSound(reply.session, reply.mem) /\ reply.mem.made
  BY DEF CliInv, CliTyped, ReplySound

LEMMA RespondsApprovalKeeps ==
  ASSUME CliInv, RespondsApproval
  PROVE  CliInv'
<1> PICK s, e : s = reply.session /\ e = reply.mem
  OBVIOUS
<1>1. PICK d \in {"once", "always", "reject"} :
        /\ reply # None /\ e.asked # 0
        /\ Writes([e EXCEPT !.decision = d])
        /\ allowed' = IF d = "reject" THEN allowed ELSE [allowed EXCEPT ![e.asked] = @ + 1]
        /\ always' = IF d = "always" THEN always \cup {s} ELSE always
  BY DEF RespondsApproval
<1> PICK m : m = WithStatus(WithDecision(e, d), "paused")
  OBVIOUS
<1>2. /\ files' = [files EXCEPT ![s] = m] /\ reply' = None
      /\ UNCHANGED <<calls, stack, ran, faults>>
  BY <1>1 DEF Writes, WithStatus, WithDecision
<1>3. s \in CliSessions /\ e \in Mems /\ MemSound(s, e) /\ e.made
  BY <1>1, ReplyIs
<1>4. /\ m \in Mems /\ m.status = "paused" /\ SameTask(e, m) /\ m.asked = e.asked
      /\ m.decision = d /\ m.pattern = e.pattern
  BY <1>3, Decided
<1> DEFINE i == e.asked
<1>5. i \in DOMAIN calls /\ i \in Ids /\ calls[i].session = s /\ calls[i].kind = "ask"
  BY <1>1, <1>3, CallsTyped DEF MemSound, CliInv
<1>6. /\ ran \in [Ids -> Nat] /\ allowed \in [Ids -> Nat] /\ faults \in 0..MaxFaults
      /\ always \subseteq CliSessions /\ DOMAIN calls \subseteq Ids /\ MaxFaults \in Nat
  BY CallsTyped, CliAssumption DEF CliInv, CliTyped
<1>7. always \subseteq always' /\ always' \subseteq CliSessions
  BY <1>1, <1>3, <1>6
<1>8. /\ allowed' \in [Ids -> Nat]
      /\ \A k \in Ids : allowed[k] <= allowed'[k]
      /\ d # "reject" => allowed'[i] = allowed[i] + 1
  BY <1>1, <1>5, <1>6
<1> HIDE DEF i
<1>9. Counted' /\ Onward(0)
  BY <1>2, <1>6, <1>7, <1>8 DEF Counted, Onward
<1>10. CallsSound'
  BY <1>2, <1>9, CallsStay
<1>11. MemSound(s, m)'
  <2>1. d = "always" => s \in always'
    BY <1>1
  <2>2. MemSound(s, e)'
    BY <1>3, <1>9, MemStays
  <2> QED
    BY <1>4, <2>1, <2>2 DEF MemSound, SameTask
<1>12. HasRoom(m)'
  <2> SUFFICES ASSUME Allows(m) PROVE ran'[i] + 1 <= Room(i)'
    BY <1>4 DEF HasRoom, Allows, i
  <2>1. d # "reject"
    BY <1>4 DEF Allows
  <2>2. ran[i] <= Room(i)
    BY <1>5 DEF CliInv, CallsSound
  <2>3. ran[i] \in Nat /\ allowed[i] \in Nat /\ faults \in Nat
    BY <1>5, <1>6
  <2> QED
    BY <1>2, <1>7, <1>8, <2>1, <2>2, <2>3 DEF Room
<1>13. m.made
  BY <1>3, <1>4 DEF SameTask
<1> QED
  BY <1>1, <1>2, <1>4, <1>7, <1>9, <1>10, <1>11, <1>12, <1>13, ReplyWritten

LEMMA RepliesQuestionKeeps ==
  ASSUME CliInv, RepliesQuestion
  PROVE  CliInv'
<1> PICK s, e : s = reply.session /\ e = reply.mem
  OBVIOUS
<1> PICK m : m = WithStatus(WithAnswer(e), "paused")
  OBVIOUS
<1>1. /\ reply # None /\ e.question # 0 /\ files' = [files EXCEPT ![s] = m] /\ reply' = None
      /\ UNCHANGED <<calls, stack, ran, faults, allowed, always>>
  BY DEF RepliesQuestion, Writes, WithStatus, WithAnswer
<1>2. s \in CliSessions /\ e \in Mems /\ MemSound(s, e) /\ e.made
  BY <1>1, ReplyIs
<1>3. /\ m \in Mems /\ m.status = "paused" /\ SameTask(e, m) /\ m.asked = e.asked
      /\ m.decision = e.decision /\ m.pattern = e.pattern /\ m.answered
      /\ m.question = e.question
  BY <1>2, QuestionReplied
<1>4. CallsSound' /\ Onward(0) /\ Counted'
  BY <1>1, OnwardStill
<1>5. MemSound(s, m)
  BY <1>2, <1>3 DEF MemSound, SameTask
<1>6. ~Allows(m)
  BY <1>1, <1>3 DEF Allows
<1>7. MemSound(s, m)' /\ HasRoom(m)'
  BY <1>4, <1>5, <1>6, MemStays DEF HasRoom, Allows
<1>8. m.made /\ always' \subseteq CliSessions
  BY <1>1, <1>2, <1>3 DEF SameTask, CliInv, CliTyped
<1> QED
  BY <1>1, <1>3, <1>4, <1>7, <1>8, ReplyWritten

LEMMA KilledKeeps ==
  ASSUME CliInv, Killed
  PROVE  CliInv'
<1>1. /\ faults < MaxFaults /\ faults' = faults + 1 /\ stack' = <<>>
      /\ UNCHANGED <<files, calls, reply, ran, allowed, always>>
  BY DEF Killed
<1>2. CallsSound' /\ Onward(0) /\ Counted'
  BY <1>1, OnwardStill
<1>3. FilesSound'
  <2> SUFFICES ASSUME NEW t \in CliSessions PROVE MemSound(t, files[t])' /\ HasRoom(files[t])'
    BY DEF FilesSound
  <2> PICK o : o = files[t]
    OBVIOUS
  <2>1. MemSound(t, o) /\ o = files'[t]
    BY <1>1 DEF CliInv, FilesSound
  <2>2. MemSound(t, o)' /\ HasRoom(o)'
    BY <1>1, <1>2, <2>1, MemStays, FaultLeavesRoom
  <2> QED
    BY <2>1, <2>2, PutMem
<1>4. StackSound' /\ stack' \in Seq(Frames)
  BY <1>1 DEF StackSound, InStack
<1>5. ReplySound'
  BY <1>1, <1>2, ReplyStays
<1>6. files' \in [CliSessions -> Mems]
  BY <1>1 DEF CliInv, CliTyped
<1>7. Parted
  BY <1>3, <1>4, <1>5, <1>6 DEF Parted
<1> QED
  BY <1>1, <1>2, <1>7, Whole

-----------------------------------------------------------------------------
LEMMA CliInitSound ==
  ASSUME CliInit
  PROVE  CliInv
<1>1. \A s \in CliSessions : files[s] = [Fresh EXCEPT !.made = (s = 1)]
  BY DEF CliInit
<1>2. ASSUME NEW s \in CliSessions
      PROVE  files[s] \in Mems /\ MemSound(s, files[s]) /\ HasRoom(files[s])
  <2> PICK v, m : v \in BOOLEAN /\ v = (s = 1) /\ m = MadeIf(Fresh, v)
    OBVIOUS
  <2>1. files[s] = m
    BY <1>1 DEF MadeIf
  <2>2. /\ m \in Mems /\ m.lineage = <<>> /\ m.subagent = FALSE /\ m.asked = 0
        /\ m.question = 0 /\ m.decision = "none" /\ m.pattern = FALSE
    BY FreshIs DEF Fresh, Mems, MadeIf
  <2>3. MemSound(s, m) /\ ~Resumable(m)
    BY <2>2 DEF MemSound, Resumable
  <2> QED
    BY <2>1, <2>2, <2>3, RunsNothing
<1>3. files \in [CliSessions -> Mems]
  BY <1>2 DEF CliInit
<1>4. CliTyped
  BY <1>3, CliAssumption DEF CliInit, CliTyped
<1>5. FilesSound
  BY <1>2 DEF FilesSound
<1>6. StackSound /\ ReplySound
  BY DEF CliInit, StackSound, InStack, ReplySound
<1>7. CallsSound
  BY DEF CliInit, CallsSound
<1> QED
  BY <1>4, <1>5, <1>6, <1>7 DEF CliInv

LEMMA WorksSound ==
  ASSUME CliInv, copies = 0, Works
  PROVE  CliInv'
<1>1. CASE RunsPending
  BY <1>1, RunsPendingKeeps
<1>2. CASE SettlesPending
  BY <1>2, SettlesPendingKeeps
<1>3. CASE AsksModel
  BY <1>3, AsksModelKeeps
<1>4. CASE Completes
  BY <1>4, CompletesKeeps
<1>5. CASE FailsStep
  BY <1>5, FailsStepKeeps
<1>6. CASE Routes
  BY <1>6, RoutesKeeps
<1>7. CASE RunsPlain
  BY <1>7, RunsPlainKeeps
<1>8. CASE TakesQuestion
  BY <1>8, TakesQuestionKeeps
<1>9. CASE TakesAsking
  BY <1>9, TakesAskingKeeps
<1>10. CASE RefusesTask
  BY <1>10, RefusesTaskKeeps
<1>11. CASE StartsTask
  BY <1>11, StartsTaskKeeps
<1>12. CASE QueuesTask
  BY <1>12, QueuesTaskKeeps
<1>13. CASE ResumesTask
  BY <1>13, ResumesTaskKeeps
<1>14. ASSUME NEW s \in CliSessions, Loads(s) PROVE CliInv'
  BY <1>14, LoadsKeeps
<1>15. CASE RespondsApproval
  BY <1>15, RespondsApprovalKeeps
<1>16. CASE RepliesQuestion
  BY <1>16, RepliesQuestionKeeps
<1>17. CASE Killed
  BY <1>17, KilledKeeps
<1> QED
  BY <1>1, <1>2, <1>3, <1>4, <1>5, <1>6, <1>7, <1>8, <1>9, <1>10, <1>11, <1>12, <1>13,
     <1>14, <1>15, <1>16, <1>17 DEF Works

LEMMA NothingSaid ==
  ASSUME CliInv, UNCHANGED <<files, calls, stack, reply, ran, allowed, always, faults>>
  PROVE  CliInv'
<1>2. CallsSound' /\ Counted' /\ Onward(0)
  BY OnwardStill
<1>3. CliTyped'
  BY DEF CliInv, CliTyped
<1>4. FilesSound'
  BY DEF CliInv, FilesSound, MemSound, HasRoom, Allows, Room, Resuming
<1>5. ReplySound'
  BY <1>2, ReplyStays
<1>6. StackSound'
  BY DEF CliInv, StackSound, InStack, FrameSound, IsChildOf, MemSound, HasRoom, Allows,
         Room, Unasked, AskedFor
<1> QED
  BY <1>2, <1>3, <1>4, <1>5, <1>6 DEF CliInv

-----------------------------------------------------------------------------
\* The types of the variables, for two processes and any forks.
Nested == {q \in Seq(Frames) : \A k \in 1..(Len(q) - 1) : q[k].batch # <<>>}

CliStacked == CliTyped /\ stack \in Nested
CliKinds == CliStacked /\ other \in Nested /\ copies \in 0..MaxCalls

Still == files' \in [CliSessions -> Mems] /\ stack' \in Nested /\ faults' \in 0..MaxFaults

\* The loop at work gets another frame, ends, or gives out a task.
LEMMA TopReplaced ==
  ASSUME NEW q \in Nested, q # <<>>, NEW g \in Frames
  PROVE  [q EXCEPT ![Len(q)] = g] \in Nested
<1>1. q \in Seq(Frames) /\ Len(q) \in Nat \ {0} /\ \A k \in 1..(Len(q) - 1) : q[k].batch # <<>>
  BY DEF Nested
<1> PICK n, r : n = Len(q) /\ r = [q EXCEPT ![n] = g]
  OBVIOUS
<1>2. r \in Seq(Frames) /\ Len(r) = n /\ \A k \in 1..(n - 1) : r[k] = q[k]
  BY <1>1
<1> QED
  BY <1>1, <1>2 DEF Nested

LEMMA TopTaken ==
  ASSUME NEW q \in Nested, q # <<>>, NEW r, r = Front(q), r # <<>>
  PROVE  r \in Nested /\ r[Len(r)] \in Frames /\ r[Len(r)].batch # <<>>
<1>1. q \in Seq(Frames) /\ Len(q) \in Nat \ {0} /\ \A k \in 1..(Len(q) - 1) : q[k].batch # <<>>
  BY DEF Nested
<1>2. /\ r \in Seq(Frames) /\ Len(r) = Len(q) - 1 /\ Len(r) \in Nat \ {0}
      /\ \A k \in 1..(Len(q) - 1) : r[k] = q[k]
  BY <1>1 DEF Front
<1> QED
  BY <1>1, <1>2 DEF Nested

LEMMA TopPut ==
  ASSUME NEW q \in Nested, q # <<>>, q[Len(q)].batch # <<>>, NEW g \in Frames
  PROVE  Append(q, g) \in Nested
<1>1. q \in Seq(Frames) /\ Len(q) \in Nat \ {0} /\ \A k \in 1..(Len(q) - 1) : q[k].batch # <<>>
  BY DEF Nested
<1>2. /\ Append(q, g) \in Seq(Frames) /\ Len(Append(q, g)) = Len(q) + 1
      /\ \A k \in 1..Len(q) : Append(q, g)[k] = q[k]
  BY <1>1, AppendPositions
<1>3. \A k \in 1..Len(q) : Append(q, g)[k].batch # <<>>
  BY <1>1, <1>2
<1>4. Len(Append(q, g)) - 1 = Len(q)
  BY <1>1, <1>2
<1> QED
  BY <1>2, <1>3, <1>4 DEF Nested

LEMMA LoopTyped ==
  ASSUME CliTyped, Running
  PROVE  /\ Loop \in Frames /\ Loop.session \in CliSessions /\ Loop.mem \in Mems
         /\ Loop.batch \in Seq(Ids) /\ Loop.step \in Nat
  BY LoopIs, FrameFields

LEMMA UpdateTyped ==
  ASSUME CliStacked, Running, NEW g \in Frames, stack' = Update(g)
  PROVE  stack' \in Nested
  BY TopReplaced DEF Update, CliStacked, Running

LEMMA FaultsTyped ==
  ASSUME CliTyped, faults' = faults \/ (faults < MaxFaults /\ faults' = faults + 1)
  PROVE  faults' \in 0..MaxFaults
  BY CliAssumption DEF CliTyped

LEMMA EndsTyped ==
  ASSUME CliStacked, Running, NEW mem \in Mems,
         NEW st \in {"idle", "running", "paused", "stop"}, Ends(mem, st)
  PROVE  files' \in [CliSessions -> Mems] /\ stack' \in Nested
<1> PICK m, s : m = WithStatus(mem, st) /\ s = Loop.session
  OBVIOUS
<1>1. m \in Mems /\ s \in CliSessions /\ CliTyped /\ stack \in Nested /\ stack # <<>>
  BY StatusChanged, LoopTyped DEF CliStacked, Running
<1>2. files' = [files EXCEPT ![s] = m]
  BY DEF Ends, WithStatus
<1>3. files' \in [CliSessions -> Mems]
  BY <1>1, <1>2 DEF CliTyped
<1> PICK below : below = Front(stack)
  OBVIOUS
<1>4. stack' = IF below = <<>> THEN <<>> ELSE [below EXCEPT ![Len(below)].batch = Tail(@)]
  BY DEF Ends
<1>5. CASE below = <<>>
  <2>1. <<>> \in Nested
    BY DEF Nested
  <2> QED
    BY <1>3, <1>4, <1>5, <2>1
<1>6. CASE below # <<>>
  <2> PICK f : f = below[Len(below)]
    OBVIOUS
  <2>1. below \in Nested /\ f \in Frames /\ f.batch # <<>>
    BY <1>1, <1>6, TopTaken
  <2> PICK g : g = NextInBatch(f)
    OBVIOUS
  <2>2. g \in Frames
    BY <2>1, BatchTyped
  <2>3. stack' = [below EXCEPT ![Len(below)] = g]
    BY <1>4, <1>6 DEF NextInBatch
  <2> QED
    BY <1>3, <1>6, <2>1, <2>2, <2>3, TopReplaced
<1> QED
  BY <1>5, <1>6

LEMMA SettlesTyped ==
  ASSUME CliStacked, Running, Loop.batch # <<>>, Settles(Loop.mem)
  PROVE  Still
<1> PICK f, e : f = Loop /\ e = Loop.mem
  OBVIOUS
<1>1. f \in Frames /\ e \in Mems /\ f.session \in CliSessions /\ CliTyped
  BY LoopTyped DEF CliStacked
<1>2. faults' \in 0..MaxFaults
  BY <1>1, FaultsTyped DEF Settles, AppendFails
<1>3. CASE AppendFails(e)
  BY <1>1, <1>2, <1>3, EndsTyped DEF AppendFails, Still
<1>4. CASE ~AppendFails(e)
  <2> PICK g : g = NextInBatch(f)
    OBVIOUS
  <2>1. stack' = Update(g) /\ (files' = files \/ files' = [files EXCEPT ![f.session] = e])
    BY <1>4 DEF Settles, NextInBatch
  <2>2. stack' \in Nested
    BY <1>1, <2>1, BatchTyped, UpdateTyped
  <2> QED
    BY <1>1, <1>2, <2>1, <2>2 DEF Still, CliTyped
<1> QED
  BY <1>3, <1>4

LEMMA TypedStill ==
  ASSUME CliStacked, Still, ran' \in [Ids -> Nat], UNCHANGED <<calls, reply, allowed, always>>
  PROVE  CliStacked'
  BY DEF CliStacked, CliTyped, Still, Nested

LEMMA EndsTypedStill ==
  ASSUME CliStacked, Running, NEW mem \in Mems,
         NEW st \in {"idle", "running", "paused", "stop"}, Ends(mem, st),
         UNCHANGED <<calls, reply, ran, allowed, always>>,
         faults' = faults \/ (faults < MaxFaults /\ faults' = faults + 1)
  PROVE  CliStacked'
<1>1. Still
  BY EndsTyped, FaultsTyped DEF Still, CliStacked
<1>2. ran' \in [Ids -> Nat]
  BY DEF CliStacked, CliTyped
<1> QED
  BY <1>1, <1>2, TypedStill

LEMMA RunTyped ==
  ASSUME CliTyped, NEW i, ran' = [ran EXCEPT ![i] = @ + 1]
  PROVE  ran' \in [Ids -> Nat]
<1>1. ran \in [Ids -> Nat]
  BY DEF CliTyped
<1>2. DOMAIN ran' = Ids /\ \A k \in Ids : ran'[k] = ran[k] \/ ran'[k] = ran[k] + 1
  BY <1>1
<1>3. ran' = [k \in Ids |-> ran'[k]]
  BY <1>1
<1>4. \A k \in Ids : ran'[k] \in Nat
  BY <1>1, <1>2
<1> QED
  BY <1>3, <1>4

LEMMA BatchStepTyped ==
  ASSUME CliStacked, RunsPlain \/ TakesQuestion \/ TakesAsking \/ RefusesTask
  PROVE  CliStacked'
<1>1. Running /\ Loop.batch # <<>> /\ CliTyped /\ UNCHANGED <<calls, reply, allowed, always>>
  BY DEF RunsPlain, TakesQuestion, TakesAsking, RefusesTask, Takes, CliStacked
<1>2. ran' \in [Ids -> Nat]
  <2>1. ran' = ran \/ ran' = [ran EXCEPT ![Next1] = @ + 1]
    BY DEF RunsPlain, TakesQuestion, TakesAsking, RefusesTask, Pauses
  <2> QED
    BY <1>1, <2>1, RunTyped DEF CliTyped
<1>3. CASE Settles(Loop.mem)
  BY <1>1, <1>2, <1>3, SettlesTyped, TypedStill
<1>4. CASE ~Settles(Loop.mem)
  <2> PICK e, i : e = Loop.mem /\ i = Next1
    OBVIOUS
  <2>1. e \in Mems /\ Loop.batch \in Seq(Ids)
    BY <1>1, LoopTyped
  <2>2. i \in Ids
    BY <1>1, <2>1 DEF Next1
  <2>3. WithQuestion(e, i) \in Mems /\ WithRequest(e, i) \in Mems
    BY <2>1, <2>2, QuestionAsked, ApprovalAsked
  <2>4. Pauses(WithQuestion(e, i)) \/ Pauses(WithRequest(e, i))
    BY <1>4 DEF RunsPlain, TakesQuestion, TakesAsking, RefusesTask, WithQuestion, WithRequest
  <2>5. PICK m \in Mems : Ends(m, "paused") /\ UNCHANGED <<ran, faults>>
    BY <2>3, <2>4 DEF Pauses
  <2> QED
    BY <1>1, <2>5, EndsTypedStill
<1> QED
  BY <1>3, <1>4

LEMMA CallsTypedMore ==
  ASSUME CliStacked, Running, NEW new \in Seq(CliCalls), calls' = calls \o new,
         NEW n \in Nat, NEW b \in Seq(Ids), stack' = Update(WithBatch(Loop, n, b)),
         Len(calls) + Len(new) <= MaxCalls, files' \in [CliSessions -> Mems],
         UNCHANGED <<reply, ran, allowed, always, faults>>
  PROVE  CliStacked'
<1>1. calls' \in Seq(CliCalls) /\ Len(calls') <= MaxCalls
  BY DEF CliTyped, CliStacked
<1>2. WithBatch(Loop, n, b) \in Frames
  BY LoopTyped, BatchPut DEF CliStacked
<1>3. stack' \in Nested
  BY <1>2, UpdateTyped
<1> QED
  BY <1>1, <1>3 DEF CliTyped, CliStacked, Nested

LEMMA AsksModelTyped ==
  ASSUME CliStacked, copies \in Nat, AsksModel
  PROVE  CliStacked'
<1>1. Running /\ CliTyped /\ UNCHANGED <<reply, ran, allowed, always>>
  BY DEF AsksModel, Asking, CliStacked
<1>2. Loop.mem \in Mems /\ Loop.session \in CliSessions /\ Loop.step \in Nat
  BY <1>1, LoopTyped
<1>3. CASE AppendFails(Loop.mem) /\ UNCHANGED calls
  <2>1. Ends(Loop.mem, "stop") /\ faults < MaxFaults /\ faults' = faults + 1
    BY <1>3 DEF AppendFails
  <2> QED
    BY <1>1, <1>2, <1>3, <2>1, EndsTypedStill
<1>4. CASE ~(AppendFails(Loop.mem) /\ UNCHANGED calls)
  <2> PICK s, k : s = Loop.session /\ k = Len(calls)
    OBVIOUS
  <2>1. PICK b \in Batches :
          /\ Within(Len(b))
          /\ calls' = calls \o [i \in 1..Len(b) |-> [kind |-> b[i], session |-> s]]
          /\ stack' = Update([Loop EXCEPT !.step = @ + 1,
                                !.batch = [i \in 1..Len(b) |-> k + i]])
          /\ files' = [files EXCEPT ![s] = Loop.mem]
          /\ UNCHANGED faults
    BY <1>4 DEF AsksModel
  <2>2. PICK new, ids, n : /\ new = [i \in 1..Len(b) |-> [kind |-> b[i], session |-> s]]
                           /\ ids = [i \in 1..Len(b) |-> k + i]
                           /\ n = Loop.step + 1
    OBVIOUS
  <2>3. b \in Seq({"plain", "ask", "question", "task", "queued", "again"})
    BY CliAssumption
  <2>4. new \in Seq(CliCalls) /\ Len(new) = Len(b) /\ Len(b) \in Nat
    BY <1>2, <2>2, <2>3 DEF CliCalls
  <2>5. k \in Nat /\ k + Len(b) <= MaxCalls
    <3>1. k \in Nat /\ k + copies + Len(b) <= MaxCalls
      BY <1>1, <2>1 DEF Within, CliTyped
    <3> QED
      BY <2>4, <3>1, CliAssumption
  <2>6. ids \in Seq(Ids)
    <3>1. \A i \in 1..Len(b) : k + i \in Ids
      BY <2>4, <2>5, CliAssumption DEF Ids
    <3> QED
      BY <2>2, <2>4, <3>1
  <2>7. stack' = Update(WithBatch(Loop, n, ids))
    BY <2>1, <2>2 DEF WithBatch
  <2>8. files' \in [CliSessions -> Mems]
    BY <1>1, <1>2, <2>1 DEF CliTyped
  <2>9. n \in Nat /\ calls' = calls \o new /\ Len(calls) + Len(new) <= MaxCalls
    BY <1>2, <2>1, <2>2, <2>4, <2>5
  <2> QED
    BY <1>1, <2>1, <2>4, <2>6, <2>7, <2>8, <2>9, CallsTypedMore
<1> QED
  BY <1>3, <1>4

LEMMA RoutesTyped ==
  ASSUME CliStacked, copies \in Nat, Routes
  PROVE  CliStacked'
<1>1. Running /\ CliTyped /\ UNCHANGED <<reply, ran, allowed, always, faults>>
  BY DEF Routes, CliStacked
<1>2. Loop.mem \in Mems /\ Loop.session \in CliSessions
  BY <1>1, LoopTyped
<1>3. CASE Loop.step # 0
  <2>1. Ends(Loop.mem, "idle") /\ UNCHANGED calls
    BY <1>3 DEF Routes
  <2> QED
    BY <1>1, <1>2, <2>1, EndsTypedStill
<1>4. CASE Loop.step = 0
  <2> PICK c, k : c = [kind |-> "task", session |-> Loop.session] /\ k = Len(calls)
    OBVIOUS
  <2>1. /\ Within(1) /\ calls' = Append(calls, c) /\ UNCHANGED files
        /\ stack' = Update([Loop EXCEPT !.step = 1, !.batch = <<k + 1>>])
    BY <1>4 DEF Routes
  <2>2. c \in CliCalls
    BY <1>2 DEF CliCalls
  <2>3. calls' = calls \o <<c>> /\ <<c>> \in Seq(CliCalls) /\ Len(<<c>>) = 1
    <3>1. calls \in Seq(CliCalls)
      BY <1>1 DEF CliTyped
    <3>2. \A x \in CliCalls : /\ Append(calls, x) = calls \o <<x>>
                             /\ <<x>> \in Seq(CliCalls) /\ Len(<<x>>) = 1
      BY <3>1
    <3> HIDE DEF CliCalls
    <3> QED
      BY <2>1, <2>2, <3>2
  <2>4. k \in Nat /\ k + 1 <= MaxCalls
    BY <1>1, <2>1, CliAssumption DEF Within, CliTyped
  <2>5. <<k + 1>> \in Seq(Ids)
    BY <2>4, CliAssumption DEF Ids
  <2>6. stack' = Update(WithBatch(Loop, 1, <<k + 1>>))
    BY <2>1 DEF WithBatch
  <2>7. files' \in [CliSessions -> Mems]
    BY <1>1, <2>1 DEF CliTyped
  <2>8. Len(calls) + Len(<<c>>) <= MaxCalls
    BY <2>3, <2>4
  <2> HIDE <2>1
  <2> QED
    BY <1>1, <2>3, <2>5, <2>6, <2>7, <2>8, CallsTypedMore
<1> QED
  BY <1>3, <1>4

LEMMA ChildRecordTyped ==
  ASSUME NEW old \in Mems, NEW s \in CliSessions, NEW mem \in Mems, NEW agent \in Agents,
         NEW mode \in {"task", "queued"}, NEW m, m = Child(old, s, mem, agent, mode)
  PROVE  m \in Mems
<1> PICK lin, d : lin = Append(mem.lineage, agent) /\ d = ChildDepth(mem)
  OBVIOUS
<1>1. mem.lineage \in Seq(Agents) /\ mem.depth \in Nat
  BY DEF Mems
<1>2. lin \in Seq(Agents) /\ d \in Nat /\ s \in Nat
  BY <1>1 DEF ChildDepth, CliSessions
<1> PICK st, tk : /\ st = (IF mode = "queued" THEN "idle" ELSE "running")
                  /\ tk = (IF mode = "queued" THEN "queued" ELSE old.task)
  OBVIOUS
<1>3. st \in {"idle", "running", "paused", "stop"} /\ tk \in {"none", "queued"}
  BY DEF Mems
<1>4. m = [old EXCEPT !.made = TRUE, !.subagent = TRUE, !.parent = s, !.depth = d,
                      !.lineage = lin, !.agent = agent, !.status = st, !.task = tk]
  BY DEF Child
<1> QED
  BY <1>2, <1>3, <1>4 DEF Mems

LEMMA TaskTyped ==
  ASSUME CliStacked, StartsTask \/ ResumesTask \/ QueuesTask
  PROVE  CliStacked'
<1>1. /\ Running /\ Loop.batch # <<>> /\ Loop.batch \in Seq(Ids) /\ Loop.mem \in Mems
      /\ Loop.session \in CliSessions /\ Loop \in Frames /\ CliTyped
      /\ Loop = stack[Len(stack)]
      /\ UNCHANGED <<calls, reply, ran, allowed, always, faults>>
  BY LoopTyped, LoopIs DEF StartsTask, ResumesTask, QueuesTask, Takes, CliStacked
<1>2. Next1 \in Nat
  <2> PICK b : b = Loop.batch
    OBVIOUS
  <2>1. b \in Seq(Ids) /\ b # <<>>
    BY <1>1
  <2>2. Head(b) \in Ids
    BY <2>1
  <2> QED
    BY <2>2 DEF Next1, Ids
<1>3. PICK s \in CliSessions, agent \in Agents, old \in Mems, mode \in {"task", "queued"} :
        LET mem == Child(old, Loop.session, Loop.mem, agent, mode)
        IN /\ files' = [files EXCEPT ![s] = mem]
           /\ \/ stack' = Append(stack, Frame(s, mem, "step", Next1))
              \/ stack' = Append(stack, Frame(s, mem, "resume", Next1))
              \/ stack' = Update([Loop EXCEPT !.batch = Tail(@)])
  <2>1. Fresh \in Mems /\ \A s \in CliSessions : files[s] \in Mems
    BY <1>1, FreshIs DEF CliTyped
  <2>2. CASE StartsTask
    BY <2>1, <2>2 DEF StartsTask
  <2>3. CASE ResumesTask
    BY <2>1, <2>3 DEF ResumesTask
  <2>4. CASE QueuesTask
    BY <2>1, <2>4 DEF QueuesTask
  <2> QED
    BY <2>2, <2>3, <2>4
<1> PICK m : m = Child(old, Loop.session, Loop.mem, agent, mode)
  OBVIOUS
<1>4. m \in Mems
  BY <1>1, ChildRecordTyped
<1>5. files' \in [CliSessions -> Mems]
  BY <1>1, <1>3, <1>4 DEF CliTyped
<1>6. \/ stack' = Append(stack, Frame(s, m, "step", Next1))
      \/ stack' = Append(stack, Frame(s, m, "resume", Next1))
      \/ stack' = Update(NextInBatch(Loop))
  BY <1>3 DEF NextInBatch
<1>7. /\ Frame(s, m, "step", Next1) \in Frames /\ Frame(s, m, "resume", Next1) \in Frames
      /\ NextInBatch(Loop) \in Frames
  BY <1>1, <1>2, <1>4, FrameMade, BatchTyped
<1>8. stack' \in Nested
  <2>1. \A g \in Frames : Append(stack, g) \in Nested
    BY <1>1, TopPut DEF CliStacked, Running
  <2> QED
    BY <1>1, <1>6, <1>7, <2>1, UpdateTyped
<1> QED
  BY <1>1, <1>5, <1>8 DEF CliTyped, CliStacked, Nested

LEMMA PendingTyped ==
  ASSUME CliStacked, RunsPending \/ SettlesPending
  PROVE  CliStacked'
<1>1. Running /\ CliTyped /\ UNCHANGED <<calls, reply, allowed, always>>
  BY DEF RunsPending, SettlesPending, CliStacked
<1> PICK f, e : f = Loop /\ e = f.mem
  OBVIOUS
<1>2. f \in Frames /\ e \in Mems /\ f.session \in CliSessions
  BY <1>1, LoopTyped
<1>3. CASE RunsPending
  <2>1. PICK q \in BOOLEAN, p \in BOOLEAN, i \in Ids \cup {0} :
          /\ ran' = ran \/ ran' = [ran EXCEPT ![i] = @ + 1]
          /\ stack' = Update(Settling(f, q, p)) /\ UNCHANGED <<files, faults>>
    <3>1. PICK question, goes, p, i :
            /\ question = (e.question # 0 /\ e.answered)
            /\ goes = (~question /\ e.decision \in {"once", "always"})
            /\ p = (goes /\ e.decision = "always") /\ i = e.asked
      OBVIOUS
    <3>2. question \in BOOLEAN /\ p \in BOOLEAN /\ i \in Ids \cup {0}
      BY <1>2, <3>1 DEF Mems
    <3>3. /\ ran' = IF goes THEN [ran EXCEPT ![i] = @ + 1] ELSE ran
          /\ stack' = Update(Settling(f, question, p)) /\ UNCHANGED <<files, faults>>
      BY <1>3, <3>1 DEF RunsPending, Settling
    <3>4. ran' = ran \/ ran' = [ran EXCEPT ![i] = @ + 1]
      BY <3>3
    <3> QED
      BY <3>2, <3>3, <3>4
  <2>2. Settling(f, q, p) \in Frames
    BY <1>2, FrameSettles
  <2>3. stack' \in Nested
    BY <1>1, <2>1, <2>2, UpdateTyped
  <2>4. ran' \in [Ids -> Nat]
    BY <1>1, <2>1, RunTyped DEF CliTyped
  <2> QED
    BY <1>1, <2>1, <2>3, <2>4, TypedStill DEF Still, CliTyped
<1>4. CASE SettlesPending
  <2>1. CASE AppendFails(Loop.mem)
    BY <1>1, <1>2, <1>4, <2>1, EndsTypedStill DEF AppendFails, SettlesPending
  <2>2. CASE ~AppendFails(Loop.mem)
    <3> PICK m : m = Cleared(e)
      OBVIOUS
    <3>1. PICK at \in {"step", "route"} :
            /\ files' = [files EXCEPT ![f.session] = m] /\ UNCHANGED <<ran, faults>>
            /\ stack' = Update(CarriedTo(f, at, m))
      BY <1>4, <2>2 DEF SettlesPending, CarriedTo
    <3>2. m \in Mems
      BY <1>2, ClearedIs
    <3>3. CarriedTo(f, at, m) \in Frames
      BY <1>2, <3>2, FrameCarried
    <3>4. stack' \in Nested
      BY <1>1, <3>1, <3>3, UpdateTyped
    <3> QED
      BY <1>1, <1>2, <3>1, <3>2, <3>4, TypedStill DEF Still, CliTyped
  <2> QED
    BY <2>1, <2>2
<1> QED
  BY <1>3, <1>4

LEMMA ReplyTyped ==
  ASSUME CliStacked, (\E s \in CliSessions : Loads(s)) \/ RespondsApproval \/ RepliesQuestion
  PROVE  CliStacked'
<1>1. CliTyped
  BY DEF CliStacked
<1>2. ASSUME NEW s \in CliSessions, Loads(s)
      PROVE  CliStacked'
  <2>1. files[s] \in Mems
    BY <1>1 DEF CliTyped
  <2>2. reply' \in [session : CliSessions, mem : Mems]
    BY <1>2, <2>1 DEF Loads
  <2> QED
    BY <1>1, <1>2, <2>2 DEF Loads, CliStacked, CliTyped, Nested
<1>3. CASE RespondsApproval
  <2> PICK s, e : s = reply.session /\ e = reply.mem
    OBVIOUS
  <2>1. PICK d \in {"once", "always", "reject"} :
          /\ reply # None /\ Writes([e EXCEPT !.decision = d])
          /\ allowed' = allowed \/ allowed' = [allowed EXCEPT ![e.asked] = @ + 1]
          /\ always' = always \/ always' = always \cup {s}
    BY <1>3 DEF RespondsApproval
  <2> PICK m : m = WithStatus(WithDecision(e, d), "paused")
    OBVIOUS
  <2>2. /\ files' = [files EXCEPT ![s] = m] /\ reply' = None
        /\ UNCHANGED <<calls, stack, ran, faults>>
    BY <2>1 DEF Writes, WithStatus, WithDecision
  <2>3. s \in CliSessions /\ e \in Mems
    BY <1>1, <2>1 DEF CliTyped
  <2>4. m \in Mems
    BY <2>3, Decided
  <2>5. files' \in [CliSessions -> Mems] /\ allowed' \in [Ids -> Nat]
        /\ always' \subseteq CliSessions
    BY <1>1, <2>1, <2>2, <2>3, <2>4 DEF CliTyped
  <2> QED
    BY <1>1, <2>2, <2>5 DEF CliStacked, CliTyped, Nested
<1>4. CASE RepliesQuestion
  <2> PICK s, e : s = reply.session /\ e = reply.mem
    OBVIOUS
  <2> PICK m : m = WithStatus(WithAnswer(e), "paused")
    OBVIOUS
  <2>2. /\ reply # None /\ files' = [files EXCEPT ![s] = m] /\ reply' = None
        /\ UNCHANGED <<calls, stack, ran, faults, allowed, always>>
    BY <1>4 DEF RepliesQuestion, Writes, WithStatus, WithAnswer
  <2>3. s \in CliSessions /\ e \in Mems
    BY <1>1, <2>2 DEF CliTyped
  <2>4. m \in Mems
    BY <2>3, QuestionReplied
  <2>5. files' \in [CliSessions -> Mems]
    BY <1>1, <2>2, <2>3, <2>4 DEF CliTyped
  <2> QED
    BY <1>1, <2>2, <2>5 DEF CliStacked, CliTyped, Nested
<1> QED
  BY <1>2, <1>3, <1>4

LEMMA WorksTyped ==
  ASSUME CliStacked, copies \in Nat, Works
  PROVE  CliStacked'
<1>1. CASE Completes \/ FailsStep
  <2>1. PICK st \in {"idle", "stop"} :
          Running /\ Ends(Loop.mem, st) /\ UNCHANGED <<calls, reply, ran, allowed, always, faults>>
    BY <1>1 DEF Completes, FailsStep, Asking
  <2>2. Loop.mem \in Mems
    BY <2>1, LoopTyped DEF CliStacked
  <2> QED
    BY <2>1, <2>2, EndsTypedStill
<1>2. CASE Killed
  <2>1. <<>> \in Nested
    BY DEF Nested
  <2>2. faults' \in 0..MaxFaults
    BY <1>2, FaultsTyped DEF Killed, CliStacked
  <2> QED
    BY <1>2, <2>1, <2>2 DEF Killed, CliStacked, CliTyped, Nested
<1> QED
  BY <1>1, <1>2, PendingTyped, AsksModelTyped, RoutesTyped, BatchStepTyped, TaskTyped, ReplyTyped
  DEF Works

LEMMA CliKindsKept == CliKinds /\ [CliNext]_cliVars => CliKinds'
<1> SUFFICES ASSUME CliKinds, [CliNext]_cliVars PROVE CliKinds'
  OBVIOUS
<1>1. CliStacked /\ CliTyped /\ other \in Nested /\ copies \in 0..MaxCalls /\ copies \in Nat
  BY DEF CliKinds, CliStacked
<1>2. Copied => copies' \in 0..MaxCalls
  BY <1>1, CliAssumption DEF Copied, Within, CliTyped
<1>3. ASSUME NEW s \in CliSessions, NEW agent \in Agents \cup {"default"}, NEW prompt,
             Opens(s, agent, prompt)
      PROVE  CliKinds'
  <2> PICK m : m = OpenedAs(files[s], agent)
    OBVIOUS
  <2>1. m \in Mems
    BY <1>1, Opened DEF CliTyped
  <2>2. PICK at \in {"resume", "step", "route"} :
          files' = [files EXCEPT ![s] = m] /\ stack' = <<Frame(s, m, at, 0)>>
    BY <1>3 DEF Opens, OpenedAs
  <2>3. <<Frame(s, m, at, 0)>> \in Nested
    BY <2>1, FrameMade DEF Nested
  <2>4. files' \in [CliSessions -> Mems]
    BY <1>1, <2>1, <2>2 DEF CliTyped
  <2>5. other' \in Nested /\ copies' \in 0..MaxCalls
    BY <1>1, <1>2, <1>3 DEF Opens, CliStacked
  <2>6. UNCHANGED <<calls, reply, ran, allowed, always, faults>>
    BY <1>3 DEF Opens
  <2>7. stack' \in Nested
    BY <2>2, <2>3
  <2> QED
    BY <1>1, <2>4, <2>5, <2>6, <2>7 DEF CliKinds, CliStacked, CliTyped, Nested
<1>4. ASSUME NEW s \in CliSessions, NEW t \in CliSessions, Forks(s, t)
      PROVE  CliKinds'
  <2> PICK m : m = WithStatus(files[s], "idle")
    OBVIOUS
  <2>1. m \in Mems
    BY <1>1, StatusChanged DEF CliTyped
  <2>2. files' = [files EXCEPT ![t] = m] /\ copies' \in 0..MaxCalls /\ always' \subseteq CliSessions
        /\ UNCHANGED <<calls, stack, other, reply, ran, allowed, faults>>
    BY <1>1, <1>2, <1>4 DEF Forks, WithStatus, CliTyped
  <2>3. files' \in [CliSessions -> Mems]
    BY <1>1, <2>1, <2>2 DEF CliTyped
  <2> QED
    BY <1>1, <2>2, <2>3 DEF CliKinds, CliStacked, CliTyped, Nested
<1>5. CASE Switches
  BY <1>1, <1>5 DEF Switches, CliKinds, CliStacked, CliTyped, Nested
<1>6. CASE Works /\ UNCHANGED <<other, copies>>
  BY <1>1, <1>6, WorksTyped DEF CliKinds
<1>7. CASE UNCHANGED cliVars
  BY <1>1, <1>7 DEF cliVars, CliKinds, CliStacked, CliTyped, Nested
<1> QED
  BY <1>3, <1>4, <1>5, <1>6, <1>7 DEF CliNext

-----------------------------------------------------------------------------
\* What holds as long as no second process was begun beside one and no session was
\* forked.
CliSound == CliKinds /\ (copies = 0 => CliInv /\ other = <<>>)

LEMMA CliSoundKept == CliSound /\ [CliNext]_cliVars => CliSound'
<1> SUFFICES ASSUME CliSound, [CliNext]_cliVars PROVE CliSound'
  OBVIOUS
<1>1. CliKinds' /\ copies \in Nat
  BY CliKindsKept DEF CliSound, CliKinds
<1> SUFFICES ASSUME copies' = 0 PROVE CliInv' /\ other' = <<>>
  BY <1>1 DEF CliSound
<1>2. ~Copied
  BY <1>1 DEF Copied
<1>3. ASSUME NEW s \in CliSessions, NEW agent \in Agents \cup {"default"}, NEW prompt,
             Opens(s, agent, prompt)
      PROVE  CliInv' /\ other' = <<>>
  <2>1. ~Beside /\ copies' = copies
    BY <1>2, <1>3 DEF Opens
  <2>2. CliInv /\ other = <<>> /\ ~Running
    BY <2>1 DEF CliSound, Beside
  <2>3. other' = other
    BY <1>3, <2>2 DEF Opens
  <2> QED
    BY <1>3, <2>2, <2>3, OpensKeeps
<1>4. ~(\E s, t \in CliSessions : Forks(s, t))
  BY <1>2 DEF Forks
<1>5. ~Switches
  BY DEF Switches, CliSound
<1>6. CASE Works /\ UNCHANGED <<other, copies>>
  BY <1>6, WorksSound DEF CliSound
<1>7. CASE UNCHANGED cliVars
  BY <1>7, NothingSaid DEF cliVars, CliSound
<1> QED
  BY <1>3, <1>4, <1>5, <1>6, <1>7 DEF CliNext

THEOREM CliSoundHolds == CliSpec => []CliSound
<1>1. ASSUME CliInit PROVE CliSound
  <2>1. CliInv
    BY <1>1, CliInitSound
  <2>2. stack = <<>> /\ other = <<>> /\ copies = 0
    BY <1>1 DEF CliInit
  <2>3. <<>> \in Nested /\ 0 \in 0..MaxCalls
    BY CliAssumption DEF Nested
  <2> QED
    BY <2>1, <2>2, <2>3 DEF CliSound, CliKinds, CliStacked, CliInv
<1> QED
  BY <1>1, CliSoundKept, PTL DEF CliSpec

\* The command line's session files and loops hold what the code puts there, for two
\* processes at once and any forks.
THEOREM CliTypeCorrect == CliSpec => []CliTypeOK
<1>1. ASSUME CliSound PROVE CliTypeOK
  <2>4. CliTyped /\ copies \in 0..MaxCalls /\ stack \in Seq(Frames)
    BY <1>1 DEF CliSound, CliKinds, CliStacked, CliTyped
  <2>1. \A k \in DOMAIN stack : stack[k] \in Frames
    BY <2>4
  <2>2. \A s \in CliSessions : files[s] \in Mems
    BY <2>4 DEF CliTyped
  <2>3. \A k \in DOMAIN stack : stack[k].at \in {"resume", "settle", "step", "route"}
    BY <2>1, FrameFields
  <2> QED
    BY <2>2, <2>3, <2>4 DEF CliTyped, CliTypeOK, Mems
<1> QED
  BY <1>1, CliSoundHolds, PTL

\* As long as no second `openagent run` was begun beside one and no session forked, the
\* command line (agent_loop.rs) runs a tool that needs an approval no more often than it
\* was allowed, but for deaths, and nests tasks no deeper than the limit and no agent
\* twice in a line, for any number of sessions, calls, answers and kills.
THEOREM CliIsRuled == CliSpec => [](copies = 0 => CliKeepsItsRules)
<1>1. ASSUME CliInv, copies = 0 PROVE CliKeepsItsRules
  <2>1. RunsAsAllowed
    <3> SUFFICES ASSUME NEW i \in DOMAIN calls, calls[i].kind = "ask"
                 PROVE  ran[i] <= allowed[i] + faults + 0
                                    + (IF calls[i].session \in always THEN 1 ELSE 0)
      BY <1>1 DEF RunsAsAllowed
    <3>1. ran[i] <= Room(i) /\ allowed[i] \in Nat /\ faults \in Nat
      BY <1>1, CallsTyped DEF CliInv, CallsSound
    <3> QED
      BY <3>1 DEF Room
  <2>2. ASSUME NEW k \in DOMAIN stack \ {1}
        PROVE  LET mem == stack[k].mem
               IN /\ mem.parent = stack[k - 1].session
                  /\ mem.depth = Len(mem.lineage) /\ mem.depth <= MaxDepth
                  /\ IsInjective(mem.lineage)
                  /\ mem.lineage = Append(stack[k - 1].mem.lineage, mem.agent)
    <3>4. stack \in Seq(Frames)
      BY <1>1 DEF CliInv, CliTyped
    <3>1. k \in DOMAIN stack /\ k > 1 /\ stack[k] \in Frames
      BY <2>2, <3>4
    <3>2. IsChildOf(stack[k], stack[k - 1])
      BY <1>1, <3>1 DEF CliInv, StackSound
    <3>3. MemSound(stack[k].session, stack[k].mem)
      BY <1>1, <3>1 DEF CliInv, StackSound, InStack, FrameSound
    <3> QED
      BY <3>2, <3>3 DEF IsChildOf, MemSound, IsInjective
  <2>3. TasksNest
    BY <1>1, <2>2 DEF TasksNest, CliInv, StackSound
  <2> QED
    BY <2>1, <2>3 DEF CliKeepsItsRules
<1>2. CliSound => (copies = 0 => CliKeepsItsRules)
  BY <1>1 DEF CliSound
<1> QED
  BY <1>2, CliSoundHolds, PTL
-----------------------------------------------------------------------------
(* Language servers.                                                       *)

Messages == [kind : {"request", "document", "answer", "register"}, id : Nat, text : 0..MaxEdits]

ServerStates ==
  [alive : BOOLEAN, inbox : Seq(Messages), asked : SUBSET [id : Nat, text : 0..MaxEdits],
   text : 0..MaxEdits, outbox : Seq(Messages)]

QueryStates ==
  [at : {"connect", "initialize", "open", "operate", "answer", "pull", "collect"},
   op : Operations, todo : Seq(Servers) \ {<<>>}, round : {1, 2}, id : Nat, pulls : Nat]

PoolTyped ==
  /\ edit \in 1..MaxEdits
  /\ broken \subseteq Servers
  /\ client \in [Servers -> [id : 2..(MaxIds + 1), sent : 0..MaxEdits, registered : Nat] \cup {NoClient}]
  /\ server \in [Servers -> ServerStates]
  /\ query = NoQuery \/ query \in QueryStates

\* Where a query is says what is in the pool for its server, and a search goes
\* to clients it has found there, each once.
QuerySound ==
  /\ query.at = "initialize" => ~Connected(Serving) /\ Serving \notin broken
  /\ query.at \in {"open", "operate", "answer", "pull", "collect"} => Connected(Serving)
  /\ query # NoQuery /\ query.round = 2 =>
       /\ query.at \in {"operate", "answer", "pull", "collect"}
       /\ \A i, j \in DOMAIN query.todo :
            Connected(query.todo[i]) /\ (i # j => query.todo[i] # query.todo[j])

PoolSound ==
  \A s \in Servers :
    /\ Connected(s) => s \notin broken
    /\ server[s].alive => Connected(s) \/ (query.at = "initialize" /\ Serving = s)

\* The requests a server has been sent have numbers below n.
IdsBelow(sv, n) ==
  /\ \A p \in DOMAIN sv.inbox : sv.inbox[p].kind = "request" => sv.inbox[p].id < n
  /\ \A r \in sv.asked : r.id < n
  /\ \A p \in DOMAIN sv.outbox : sv.outbox[p].kind = "answer" => sv.outbox[p].id < n

\* From position p on the server will read no document.
NoTextFrom(sv, p) ==
  \A q \in DOMAIN sv.inbox : q >= p => sv.inbox[q].kind # "document"

\* Once the server has read what it was sent, this is its text.
Arrives(sv, text) ==
  /\ \A p \in DOMAIN sv.inbox :
       sv.inbox[p].kind = "document" /\ NoTextFrom(sv, p + 1) => sv.inbox[p].text = text
  /\ NoTextFrom(sv, 1) => sv.text = text

\* An answer to this request is about this text.
About(sv, id, text) ==
  /\ \A p \in DOMAIN sv.inbox :
       sv.inbox[p].kind = "request" /\ sv.inbox[p].id = id => NoTextFrom(sv, p)
  /\ \A r \in sv.asked : r.id = id => r.text = text
  /\ \A p \in DOMAIN sv.outbox :
       sv.outbox[p].kind = "answer" /\ sv.outbox[p].id = id => sv.outbox[p].text = text

ServersSound ==
  /\ \A s \in Servers : Connected(s) =>
       IdsBelow(server[s], client[s].id) /\ Arrives(server[s], client[s].sent)
  /\ query.at = "initialize" => IdsBelow(server[Serving], 2) /\ Arrives(server[Serving], 0)

AnswerSound ==
  query.at \in {"answer", "pull"} =>
    About(server[Serving], query.id, client[Serving].sent)

TakenSound == taken[1] = taken[2]

LspInv ==
  PoolTyped /\ QuerySound /\ PoolSound /\ ServersSound /\ AnswerSound /\ TakenSound

-----------------------------------------------------------------------------
\* What a step of a server does to the requests and texts it was sent.
ServerKeeps(a, b) ==
  /\ \A n \in Nat : IdsBelow(a, n) => IdsBelow(b, n)
  /\ \A x : Arrives(a, x) => Arrives(b, x)
  /\ \A i, x : Arrives(a, x) /\ About(a, i, x) => About(b, i, x)

\* Facts about the tail and the end of a sequence, position by position.
LEMMA TailPositions ==
  ASSUME NEW S, NEW q \in Seq(S), q # <<>>
  PROVE  /\ Tail(q) \in Seq(S) /\ Head(q) = q[1] /\ 1 \in DOMAIN q
         /\ DOMAIN q = 1..Len(q) /\ Len(q) \in Nat \ {0}
         /\ DOMAIN Tail(q) = 1..(Len(q) - 1)
         /\ \A p \in 1..(Len(q) - 1) : Tail(q)[p] = q[p + 1]
  OBVIOUS

LEMMA ReadsKept ==
  ASSUME NEW a \in ServerStates, a.inbox # <<>>, NEW b,
         b = [a EXCEPT !.inbox = Tail(@),
                       !.text = IF Head(a.inbox).kind = "document" THEN Head(a.inbox).text ELSE @,
                       !.asked = IF Head(a.inbox).kind = "request"
                                 THEN @ \cup {[id |-> Head(a.inbox).id, text |-> a.text]} ELSE @]
  PROVE  b \in ServerStates /\ b.alive = a.alive /\ ServerKeeps(a, b)
<1> DEFINE m == a.inbox[1]
           n == Len(a.inbox)
<1>1. /\ Tail(a.inbox) \in Seq(Messages) /\ Head(a.inbox) = m /\ m \in Messages
      /\ n \in Nat \ {0} /\ DOMAIN a.inbox = 1..n /\ DOMAIN Tail(a.inbox) = 1..(n - 1)
      /\ \A p \in 1..(n - 1) : Tail(a.inbox)[p] = a.inbox[p + 1]
  <2>1. a.inbox \in Seq(Messages)
    BY DEF ServerStates
  <2> QED
    BY <2>1, TailPositions
<1>2. /\ b.inbox = Tail(a.inbox) /\ b.outbox = a.outbox /\ b.alive = a.alive
      /\ b.text = IF m.kind = "document" THEN m.text ELSE a.text
      /\ b.asked = IF m.kind = "request" THEN a.asked \cup {[id |-> m.id, text |-> a.text]}
                   ELSE a.asked
      /\ b = [alive |-> b.alive, inbox |-> b.inbox, asked |-> b.asked, text |-> b.text,
              outbox |-> b.outbox]
  BY <1>1 DEF ServerStates
<1> HIDE DEF m, n
<1>3. b \in ServerStates
  <2>1. /\ a.alive \in BOOLEAN /\ a.text \in 0..MaxEdits /\ a.outbox \in Seq(Messages)
        /\ a.asked \in SUBSET [id : Nat, text : 0..MaxEdits]
    BY DEF ServerStates
  <2>2. m.id \in Nat /\ m.text \in 0..MaxEdits
    BY <1>1 DEF Messages
  <2>3. [id |-> m.id, text |-> a.text] \in [id : Nat, text : 0..MaxEdits]
    BY <2>1, <2>2
  <2>4. b.asked \in SUBSET [id : Nat, text : 0..MaxEdits] /\ b.text \in 0..MaxEdits
    BY <1>2, <2>1, <2>2, <2>3, ZenonT(40)
  <2> QED
    BY <1>1, <1>2, <2>1, <2>4 DEF ServerStates
<1>9. \A r \in b.asked : r \in a.asked \/ (m.kind = "request" /\ r.id = m.id /\ r.text = a.text)
  BY <1>2
<1>4. ASSUME NEW k \in Nat, IdsBelow(a, k) PROVE IdsBelow(b, k)
  <2>1. \A p \in 1..n : a.inbox[p].kind = "request" => a.inbox[p].id < k
    BY <1>1, <1>4 DEF IdsBelow
  <2>2. \A p \in 1..(n - 1) : b.inbox[p].kind = "request" => b.inbox[p].id < k
    <3> TAKE p \in 1..(n - 1)
    <3>1. p + 1 \in 1..n
      BY <1>1
    <3> QED
      BY <1>1, <1>2, <2>1, <3>1
  <2>3. m.kind = "request" => m.id < k
    BY <1>1, <2>1 DEF m
  <2>4. \A r \in b.asked : r.id < k
    BY <1>4, <1>9, <2>3 DEF IdsBelow
  <2> QED
    BY <1>1, <1>2, <1>4, <2>2, <2>4 DEF IdsBelow
<1>5. \A p \in 1..n : NoTextFrom(b, p) <=> NoTextFrom(a, p + 1)
  <2> SUFFICES ASSUME NEW p \in 1..n PROVE NoTextFrom(b, p) <=> NoTextFrom(a, p + 1)
    OBVIOUS
  <2>1. ASSUME NoTextFrom(b, p), NEW q \in 1..n, q >= p + 1 PROVE a.inbox[q].kind # "document"
    <3>1. q - 1 \in 1..(n - 1) /\ q - 1 >= p /\ (q - 1) + 1 = q
      BY <1>1, <2>1
    <3> QED
      BY <1>1, <1>2, <2>1, <3>1, SMTT(30) DEF NoTextFrom
  <2>2. ASSUME NoTextFrom(a, p + 1), NEW q \in 1..(n - 1), q >= p
        PROVE  b.inbox[q].kind # "document"
    <3>1. q + 1 \in 1..n /\ q + 1 >= p + 1
      BY <1>1, <2>2
    <3> QED
      BY <1>1, <1>2, <2>2, <3>1 DEF NoTextFrom
  <2> QED
    BY <1>1, <1>2, <2>1, <2>2 DEF NoTextFrom
<1>6. NoTextFrom(a, 1) <=> m.kind # "document" /\ NoTextFrom(b, 1)
  <2>1. NoTextFrom(a, 1) <=> m.kind # "document" /\ NoTextFrom(a, 2)
    BY <1>1 DEF NoTextFrom, m
  <2> QED
    BY <1>1, <1>5, <2>1
<1>7. ASSUME NEW x, Arrives(a, x) PROVE Arrives(b, x)
  <2>1. ASSUME NEW p \in 1..(n - 1), b.inbox[p].kind = "document", NoTextFrom(b, p + 1)
        PROVE  b.inbox[p].text = x
    <3>1. p + 1 \in 1..n /\ NoTextFrom(a, (p + 1) + 1)
      BY <1>1, <1>5, <2>1
    <3> QED
      BY <1>1, <1>2, <1>7, <2>1, <3>1 DEF Arrives
  <2>2. ASSUME NoTextFrom(b, 1) PROVE b.text = x
    <3>1. CASE m.kind = "document"
      <4>1. NoTextFrom(a, 1 + 1)
        BY <1>1, <1>5, <2>2
      <4> QED
        BY <1>1, <1>2, <1>7, <3>1, <4>1 DEF Arrives, m
    <3>2. CASE m.kind # "document"
      BY <1>2, <1>6, <1>7, <2>2, <3>2 DEF Arrives
    <3> QED
      BY <3>1, <3>2
  <2> QED
    BY <1>1, <1>2, <2>1, <2>2 DEF Arrives
<1>8. ASSUME NEW i, NEW x, Arrives(a, x), About(a, i, x) PROVE About(b, i, x)
  <2>1. ASSUME NEW p \in 1..(n - 1), b.inbox[p].kind = "request", b.inbox[p].id = i
        PROVE  NoTextFrom(b, p)
    <3>1. p + 1 \in 1..n /\ NoTextFrom(a, p + 1)
      BY <1>1, <1>2, <1>8, <2>1 DEF About
    <3> QED
      BY <1>1, <1>5, <3>1
  <2>2. ASSUME m.kind = "request", m.id = i PROVE a.text = x
    <3>1. NoTextFrom(a, 1)
      BY <1>1, <1>8, <2>2 DEF About, m
    <3> QED
      BY <1>8, <3>1 DEF Arrives
  <2>3. \A r \in b.asked : r.id = i => r.text = x
    BY <1>8, <1>9, <2>2 DEF About
  <2> QED
    BY <1>1, <1>2, <1>8, <2>1, <2>3 DEF About
<1> QED
  BY <1>2, <1>3, <1>4, <1>7, <1>8 DEF ServerKeeps

\* A step that leaves the inbox and the text alone.
LEMMA OthersKept ==
  ASSUME NEW a \in ServerStates, NEW b \in ServerStates, b.inbox = a.inbox, b.text = a.text,
         \A r \in b.asked : r \in a.asked,
         \A p \in DOMAIN b.outbox : b.outbox[p].kind = "answer" =>
           \/ \E q \in DOMAIN a.outbox : b.outbox[p] = a.outbox[q]
           \/ \E r \in a.asked : b.outbox[p].id = r.id /\ b.outbox[p].text = r.text
  PROVE  ServerKeeps(a, b)
<1>1. \A p : NoTextFrom(b, p) <=> NoTextFrom(a, p)
  BY DEF NoTextFrom
<1>2. \A n \in Nat : IdsBelow(a, n) => IdsBelow(b, n)
  BY DEF IdsBelow
<1>3. \A x : Arrives(a, x) => Arrives(b, x)
  BY <1>1 DEF Arrives
<1>4. \A i, x : Arrives(a, x) /\ About(a, i, x) => About(b, i, x)
  BY <1>1 DEF About
<1> QED
  BY <1>2, <1>3, <1>4 DEF ServerKeeps

LEMMA AnswersKept ==
  ASSUME NEW a \in ServerStates, NEW r \in a.asked, NEW b,
         b = [a EXCEPT !.asked = @ \ {r},
                       !.outbox = Append(@, [kind |-> "answer", id |-> r.id, text |-> r.text])]
  PROVE  b \in ServerStates /\ b.alive = a.alive /\ ServerKeeps(a, b)
<1> DEFINE m == [kind |-> "answer", id |-> r.id, text |-> r.text]
<1>1. m \in Messages /\ a.outbox \in Seq(Messages)
  BY DEF ServerStates, Messages
<1>2. m.id = r.id /\ m.text = r.text
  OBVIOUS
<1>3. /\ b.inbox = a.inbox /\ b.outbox = Append(a.outbox, m) /\ b.alive = a.alive
      /\ b.text = a.text /\ b.asked = a.asked \ {r}
      /\ b = [alive |-> b.alive, inbox |-> b.inbox, asked |-> b.asked, text |-> b.text,
              outbox |-> b.outbox]
  BY DEF ServerStates
<1> HIDE DEF m
<1>4. b \in ServerStates
  <2>1. Append(a.outbox, m) \in Seq(Messages)
    BY <1>1, AppendPositions
  <2>2. a.asked \ {r} \in SUBSET [id : Nat, text : 0..MaxEdits]
    BY DEF ServerStates
  <2> QED
    BY <1>3, <2>1, <2>2 DEF ServerStates
<1>5. \A p \in DOMAIN b.outbox :
        b.outbox[p] = m \/ \E q \in DOMAIN a.outbox : b.outbox[p] = a.outbox[q]
  BY <1>1, <1>3, AppendPositions
<1>6. \A p \in DOMAIN b.outbox : b.outbox[p].kind = "answer" =>
        \/ \E q \in DOMAIN a.outbox : b.outbox[p] = a.outbox[q]
        \/ \E d \in a.asked : b.outbox[p].id = d.id /\ b.outbox[p].text = d.text
  <2> TAKE p \in DOMAIN b.outbox
  <2>1. CASE b.outbox[p] = m
    BY <1>2, <2>1
  <2>2. CASE \E q \in DOMAIN a.outbox : b.outbox[p] = a.outbox[q]
    BY <2>2
  <2> QED
    BY <1>5, <2>1, <2>2
<1>7. \A d \in b.asked : d \in a.asked
  BY <1>3
<1> QED
  BY <1>3, <1>4, <1>6, <1>7, OthersKept

LEMMA PushesKept ==
  ASSUME NEW a \in ServerStates, NEW b,
         b = [a EXCEPT !.outbox = Append(@, [kind |-> "register", id |-> 0, text |-> 0])]
  PROVE  b \in ServerStates /\ b.alive = a.alive /\ ServerKeeps(a, b)
<1> DEFINE m == [kind |-> "register", id |-> 0, text |-> 0]
<1>1. m \in Messages /\ m.kind # "answer" /\ a.outbox \in Seq(Messages)
  BY LspAssumption DEF ServerStates, Messages
<1>3. /\ b.inbox = a.inbox /\ b.outbox = Append(a.outbox, m) /\ b.alive = a.alive
      /\ b.text = a.text /\ b.asked = a.asked
      /\ b = [alive |-> b.alive, inbox |-> b.inbox, asked |-> b.asked, text |-> b.text,
              outbox |-> b.outbox]
  BY DEF ServerStates
<1> HIDE DEF m
<1>4. b \in ServerStates
  BY <1>1, <1>3, AppendPositions DEF ServerStates
<1>5. \A p \in DOMAIN b.outbox :
        b.outbox[p] = m \/ \E q \in DOMAIN a.outbox : b.outbox[p] = a.outbox[q]
  BY <1>1, <1>3, AppendPositions
<1>6. \A p \in DOMAIN b.outbox : b.outbox[p].kind = "answer" =>
        \/ \E q \in DOMAIN a.outbox : b.outbox[p] = a.outbox[q]
        \/ \E r \in a.asked : b.outbox[p].id = r.id /\ b.outbox[p].text = r.text
  BY <1>1, <1>5
<1>7. \A r \in b.asked : r \in a.asked
  BY <1>3
<1> QED
  BY <1>3, <1>4, <1>6, <1>7, OthersKept

LEMMA TakenKept ==
  ASSUME NEW a \in ServerStates, a.outbox # <<>>, NEW b, b = [a EXCEPT !.outbox = Tail(@)]
  PROVE  b \in ServerStates /\ b.alive = a.alive /\ ServerKeeps(a, b)
<1>1. a.outbox \in Seq(Messages)
  BY DEF ServerStates
<1>3. /\ b.inbox = a.inbox /\ b.outbox = Tail(a.outbox) /\ b.alive = a.alive
      /\ b.text = a.text /\ b.asked = a.asked
      /\ b = [alive |-> b.alive, inbox |-> b.inbox, asked |-> b.asked, text |-> b.text,
              outbox |-> b.outbox]
  BY DEF ServerStates
<1>4. b \in ServerStates
  BY <1>1, <1>3, TailPositions DEF ServerStates
<1>5. \A p \in DOMAIN b.outbox : p + 1 \in DOMAIN a.outbox /\ b.outbox[p] = a.outbox[p + 1]
  BY <1>1, <1>3, TailPositions
<1>6. \A p \in DOMAIN b.outbox : b.outbox[p].kind = "answer" =>
        \/ \E q \in DOMAIN a.outbox : b.outbox[p] = a.outbox[q]
        \/ \E r \in a.asked : b.outbox[p].id = r.id /\ b.outbox[p].text = r.text
  BY <1>5
<1>7. \A r \in b.asked : r \in a.asked
  BY <1>3
<1> QED
  BY <1>3, <1>4, <1>6, <1>7, OthersKept

LEMMA DiesKept ==
  ASSUME NEW a \in ServerStates, NEW b, b = [a EXCEPT !.alive = FALSE]
  PROVE  b \in ServerStates /\ ~b.alive /\ ServerKeeps(a, b)
<1>1. /\ b.inbox = a.inbox /\ b.outbox = a.outbox /\ ~b.alive /\ b.alive \in BOOLEAN
      /\ b.text = a.text /\ b.asked = a.asked
      /\ b = [alive |-> b.alive, inbox |-> b.inbox, asked |-> b.asked, text |-> b.text,
              outbox |-> b.outbox]
  BY DEF ServerStates
<1>2. b \in ServerStates
  BY <1>1 DEF ServerStates
<1> QED
  BY <1>1, <1>2, OthersKept

LEMMA TextSent ==
  ASSUME NEW a \in ServerStates, NEW x \in 0..MaxEdits, NEW b,
         b = [a EXCEPT !.inbox = Append(@, [kind |-> "document", id |-> 0, text |-> x])]
  PROVE  /\ b \in ServerStates /\ b.alive = a.alive /\ Arrives(b, x)
         /\ \A n \in Nat : IdsBelow(a, n) => IdsBelow(b, n)
<1> DEFINE m == [kind |-> "document", id |-> 0, text |-> x]
           n == Len(a.inbox)
<1>1. m \in Messages /\ a.inbox \in Seq(Messages) /\ m.kind = "document" /\ m.text = x
  BY DEF ServerStates, Messages
<1>2. /\ b.inbox = Append(a.inbox, m) /\ b.outbox = a.outbox /\ b.alive = a.alive
      /\ b.text = a.text /\ b.asked = a.asked
      /\ b = [alive |-> b.alive, inbox |-> b.inbox, asked |-> b.asked, text |-> b.text,
              outbox |-> b.outbox]
  BY DEF ServerStates
<1>3. /\ b.inbox \in Seq(Messages) /\ n \in Nat /\ DOMAIN a.inbox = 1..n
      /\ DOMAIN b.inbox = 1..(n + 1)
      /\ \A p \in 1..n : b.inbox[p] = a.inbox[p]
      /\ b.inbox[n + 1] = m
  BY <1>1, <1>2, AppendPositions
<1> HIDE DEF m, n
<1>4. b \in ServerStates
  BY <1>2, <1>3 DEF ServerStates
<1>5. \A p \in 1..(n + 1) : ~NoTextFrom(b, p)
  BY <1>1, <1>3 DEF NoTextFrom
<1>6. Arrives(b, x)
  <2>1. ASSUME NEW p \in 1..(n + 1), b.inbox[p].kind = "document", NoTextFrom(b, p + 1)
        PROVE  b.inbox[p].text = x
    <3>1. p = n + 1
      BY <1>3, <1>5, <2>1
    <3> QED
      BY <1>1, <1>3, <3>1
  <2>2. ~NoTextFrom(b, 1)
    <3>1. 1 \in 1..(n + 1)
      BY <1>3
    <3> QED
      BY <1>5, <3>1
  <2> QED
    BY <1>3, <2>1, <2>2 DEF Arrives
<1>7. \A k \in Nat : IdsBelow(a, k) => IdsBelow(b, k)
  BY <1>1, <1>2, <1>3 DEF IdsBelow
<1> QED
  BY <1>2, <1>4, <1>6, <1>7

LEMMA RequestSent ==
  ASSUME NEW a \in ServerStates, NEW i \in Nat, NEW x, IdsBelow(a, i), Arrives(a, x), NEW b,
         b = [a EXCEPT !.inbox = Append(@, [kind |-> "request", id |-> i, text |-> 0])]
  PROVE  /\ b \in ServerStates /\ b.alive = a.alive
         /\ IdsBelow(b, i + 1) /\ Arrives(b, x) /\ About(b, i, x)
<1> DEFINE m == [kind |-> "request", id |-> i, text |-> 0]
           n == Len(a.inbox)
<1>1. m \in Messages /\ a.inbox \in Seq(Messages) /\ m.kind = "request" /\ m.id = i
  BY LspAssumption DEF ServerStates, Messages
<1>2. /\ b.inbox = Append(a.inbox, m) /\ b.outbox = a.outbox /\ b.alive = a.alive
      /\ b.text = a.text /\ b.asked = a.asked
      /\ b = [alive |-> b.alive, inbox |-> b.inbox, asked |-> b.asked, text |-> b.text,
              outbox |-> b.outbox]
  BY DEF ServerStates
<1>3. /\ b.inbox \in Seq(Messages) /\ n \in Nat /\ DOMAIN a.inbox = 1..n
      /\ DOMAIN b.inbox = 1..(n + 1)
      /\ \A p \in 1..n : b.inbox[p] = a.inbox[p] /\ a.inbox[p] \in Messages
      /\ b.inbox[n + 1] = m
  BY <1>1, <1>2, AppendPositions
<1>4. /\ \A p \in DOMAIN a.outbox : a.outbox[p].id \in Nat
      /\ \A r \in a.asked : r.id \in Nat
  <2>1. a.outbox \in Seq(Messages) /\ a.asked \in SUBSET [id : Nat, text : 0..MaxEdits]
    BY DEF ServerStates
  <2>2. \A p \in DOMAIN a.outbox : a.outbox[p] \in Messages
    BY <2>1
  <2> QED
    BY <2>1, <2>2 DEF Messages
<1> HIDE DEF m, n
<1>5. b \in ServerStates
  BY <1>2, <1>3 DEF ServerStates
<1>6. \A p \in 1..(n + 1) : NoTextFrom(b, p) <=> NoTextFrom(a, p)
  BY <1>1, <1>3 DEF NoTextFrom
<1>7. NoTextFrom(b, n + 1) /\ NoTextFrom(b, n + 2)
  BY <1>1, <1>3 DEF NoTextFrom
<1>8. \A p \in 1..n : a.inbox[p].kind = "request" => a.inbox[p].id < i /\ a.inbox[p].id \in Nat
  BY <1>3 DEF IdsBelow, Messages
<1>9. IdsBelow(b, i + 1)
  <2>1. \A p \in 1..(n + 1) : b.inbox[p].kind = "request" => b.inbox[p].id < i + 1
    BY <1>1, <1>3, <1>8
  <2>2. \A r \in b.asked : r.id < i + 1
    BY <1>2, <1>4 DEF IdsBelow
  <2>3. \A p \in DOMAIN b.outbox : b.outbox[p].kind = "answer" => b.outbox[p].id < i + 1
    BY <1>2, <1>4 DEF IdsBelow
  <2> QED
    BY <1>3, <2>1, <2>2, <2>3 DEF IdsBelow
<1>10. Arrives(b, x)
  <2>1. ASSUME NEW p \in 1..(n + 1), b.inbox[p].kind = "document", NoTextFrom(b, p + 1)
        PROVE  b.inbox[p].text = x
    <3>1. p \in 1..n
      BY <1>1, <1>3, <2>1
    <3>2. p + 1 \in 1..(n + 1)
      BY <1>3, <3>1
    <3>3. NoTextFrom(a, p + 1)
      BY <1>6, <2>1, <3>2
    <3> QED
      BY <1>3, <2>1, <3>1, <3>3 DEF Arrives
  <2>2. NoTextFrom(b, 1) => b.text = x
    <3>1. 1 \in 1..(n + 1)
      BY <1>3
    <3>2. NoTextFrom(b, 1) => NoTextFrom(a, 1)
      BY <1>6, <3>1
    <3> QED
      BY <1>2, <3>2 DEF Arrives
  <2> QED
    BY <1>3, <2>1, <2>2 DEF Arrives
<1>11. About(b, i, x)
  <2>1. ASSUME NEW p \in 1..(n + 1), b.inbox[p].kind = "request", b.inbox[p].id = i
        PROVE  NoTextFrom(b, p)
    BY <1>3, <1>7, <1>8, <2>1
  <2>2. \A r \in b.asked : r.id # i
    BY <1>2, <1>4 DEF IdsBelow
  <2>3. \A p \in DOMAIN b.outbox : b.outbox[p].kind = "answer" => b.outbox[p].id # i
    BY <1>2, <1>4 DEF IdsBelow
  <2> QED
    BY <1>3, <2>1, <2>2, <2>3 DEF About
<1> QED
  BY <1>2, <1>5, <1>9, <1>10, <1>11

LEMMA FreshServer ==
  ASSUME NEW b,
         b = [NoServer EXCEPT !.alive = TRUE,
                              !.inbox = <<[kind |-> "request", id |-> 1, text |-> 0]>>]
  PROVE  /\ NoServer \in ServerStates /\ ~NoServer.alive
         /\ b \in ServerStates /\ IdsBelow(b, 2) /\ Arrives(b, 0)
<1> DEFINE m == [kind |-> "request", id |-> 1, text |-> 0]
           q == <<m>>
           none == <<>>
           asked == {}
<1>1. 0 \in 0..MaxEdits
  BY LspAssumption
<1>2. m \in Messages /\ m.kind = "request" /\ m.id = 1
  BY <1>1 DEF Messages
<1>3. q \in Seq(Messages) /\ DOMAIN q = {1} /\ q[1] = m
  <2> HIDE DEF m
  <2> QED
    BY <1>2
<1>4. none \in Seq(Messages) /\ DOMAIN none = {}
  OBVIOUS
<1>5. asked \in SUBSET [id : Nat, text : 0..MaxEdits] /\ \A r : r \notin asked
  OBVIOUS
<1>6. NoServer = [alive |-> FALSE, inbox |-> none, asked |-> asked, text |-> 0, outbox |-> none]
  BY DEF NoServer
<1>7. b = [NoServer EXCEPT !.alive = TRUE, !.inbox = q]
  OBVIOUS
<1> HIDE DEF m, q, none, asked
<1>8. /\ b = [alive |-> b.alive, inbox |-> b.inbox, asked |-> b.asked, text |-> b.text,
              outbox |-> b.outbox]
      /\ b.alive /\ b.alive \in BOOLEAN /\ b.inbox = q /\ b.asked = asked /\ b.text = 0
      /\ b.outbox = none
  BY <1>6, <1>7
<1>9. NoServer \in ServerStates /\ ~NoServer.alive
  BY <1>1, <1>4, <1>5, <1>6 DEF ServerStates
<1>10. b \in ServerStates
  BY <1>1, <1>3, <1>4, <1>5, <1>8 DEF ServerStates
<1>11. IdsBelow(b, 2)
  BY <1>2, <1>3, <1>4, <1>5, <1>8 DEF IdsBelow
<1>12. Arrives(b, 0)
  BY <1>2, <1>3, <1>8 DEF Arrives
<1> QED
  BY <1>9, <1>10, <1>11, <1>12

-----------------------------------------------------------------------------
ClientStates == [id : 2..(MaxIds + 1), sent : 0..MaxEdits, registered : Nat]

\* What the pool says of the server a query is at.
LEMMA AtServing ==
  ASSUME PoolTyped, query # NoQuery
  PROVE  /\ query \in QueryStates /\ query.todo \in Seq(Servers) /\ query.todo # <<>>
         /\ Serving \in Servers /\ Serving = query.todo[1] /\ 1 \in DOMAIN query.todo
         /\ Tail(query.todo) \in Seq(Servers)
         /\ \A p \in DOMAIN Tail(query.todo) :
              p + 1 \in DOMAIN query.todo /\ p + 1 # 1 /\ Tail(query.todo)[p] = query.todo[p + 1]
<1>1. query \in QueryStates
  BY DEF PoolTyped
<1>2. query.todo \in Seq(Servers) /\ query.todo # <<>>
  BY <1>1 DEF QueryStates
<1>3. /\ Tail(query.todo) \in Seq(Servers) /\ Head(query.todo) = query.todo[1]
      /\ 1 \in DOMAIN query.todo
      /\ DOMAIN query.todo = 1..Len(query.todo) /\ Len(query.todo) \in Nat \ {0}
      /\ DOMAIN Tail(query.todo) = 1..(Len(query.todo) - 1)
      /\ \A p \in 1..(Len(query.todo) - 1) : Tail(query.todo)[p] = query.todo[p + 1]
  BY <1>2, TailPositions
<1>4. query.todo[1] \in Servers
  BY <1>2, <1>3
<1> QED
  BY <1>1, <1>2, <1>3, <1>4 DEF Serving

LEMMA QueryIsSomewhere ==
  /\ query.at # "none" => query # NoQuery
  /\ query = NoQuery => query.at \notin {"connect", "initialize", "open", "operate", "answer",
                                         "pull", "collect"}
  BY DEF NoQuery

LEMMA QueryChanged ==
  ASSUME NEW a \in QueryStates, NEW at, NEW todo, NEW b,
         b = [a EXCEPT !.at = at, !.todo = todo, !.pulls = 0]
  PROVE  b = [at |-> at, op |-> a.op, todo |-> todo, round |-> a.round, id |-> a.id, pulls |-> 0]
<1>1. a = [at |-> a.at, op |-> a.op, todo |-> a.todo, round |-> a.round, id |-> a.id,
           pulls |-> a.pulls]
  BY DEF QueryStates
<1> QED
  BY <1>1

LEMMA SearchChanged ==
  ASSUME NEW at, NEW op, NEW todo, NEW round, NEW id, NEW pulls, NEW all, NEW a, NEW b,
         a = [at |-> at, op |-> op, todo |-> todo, round |-> round, id |-> id, pulls |-> pulls],
         b = [a EXCEPT !.at = "operate", !.round = 2, !.todo = all]
  PROVE  b = [at |-> "operate", op |-> op, todo |-> all, round |-> 2, id |-> id, pulls |-> pulls]
  OBVIOUS

\* The query goes to its next server, to the clients of a search, or ends.
LEMMA AskedNextIs ==
  ASSUME query \in QueryStates, NEW clients \in SUBSET Servers, NEW q, q = AskedNext(clients)
  PROVE  \/ q = NoQuery
         \/ /\ q \in QueryStates /\ q.todo = Tail(query.todo) /\ q.round = query.round
            /\ q.at = IF query.round = 1 THEN "connect" ELSE "operate"
         \/ /\ q \in QueryStates /\ q.round = 2 /\ q.at = "operate"
            /\ \A i, j \in DOMAIN q.todo :
                 q.todo[i] \in clients /\ (i # j => q.todo[i] # q.todo[j])
<1> DEFINE rest == Tail(query.todo)
           n == Cardinality(clients)
           next == [query EXCEPT !.at = IF query.round = 1 THEN "connect" ELSE "operate",
                                 !.todo = rest, !.pulls = 0]
           apart(o) == \A i, j \in DOMAIN o : i # j => o[i] # o[j]
           all == CHOOSE o \in [1..n -> clients] : apart(o)
           search == [next EXCEPT !.at = "operate", !.round = 2, !.todo = all]
<1>1. /\ query = [at |-> query.at, op |-> query.op, todo |-> query.todo, round |-> query.round,
                  id |-> query.id, pulls |-> query.pulls]
      /\ query.op \in Operations /\ query.round \in {1, 2} /\ query.id \in Nat
  BY DEF QueryStates
<1>2. rest \in Seq(Servers)
  <2>1. query.todo \in Seq(Servers) /\ query.todo # <<>>
    BY DEF QueryStates
  <2> QED
    BY <2>1, TailPositions
<1> DEFINE at == IF query.round = 1 THEN "connect" ELSE "operate"
<1>6. next = [at |-> at, op |-> query.op, todo |-> rest, round |-> query.round,
              id |-> query.id, pulls |-> 0]
  <2> DEFINE was == query
  <2>1. was \in QueryStates /\ next = [was EXCEPT !.at = at, !.todo = rest, !.pulls = 0]
    OBVIOUS
  <2> HIDE DEF at, rest, was, next
  <2>2. next = [at |-> at, op |-> was.op, todo |-> rest, round |-> was.round,
                id |-> was.id, pulls |-> 0]
    BY <2>1, QueryChanged
  <2> QED
    BY <2>2 DEF was
<1>3. CASE rest # <<>>
  <2>1. q = next
    BY <1>3 DEF AskedNext
  <2> HIDE DEF rest, next
  <2>2. at \in {"connect", "operate"}
    OBVIOUS
  <2>3. next \in QueryStates
    BY <1>1, <1>2, <1>3, <1>6, <2>2 DEF QueryStates
  <2>4. next.at = at /\ next.todo = rest /\ next.round = query.round
    BY <1>6
  <2> QED
    BY <2>1, <2>3, <2>4 DEF rest
<1>4. CASE rest = <<>> /\ query.op = "workspaceSymbol" /\ query.round = 1 /\ clients # {}
  <2>1. q = search
    BY <1>4 DEF AskedNext
  <2>2. n \in Nat /\ n # 0 /\ \E o \in [1..n -> clients] : apart(o)
    <3>1. IsFiniteSet(clients)
      BY LspAssumption, FS_Subset
    <3>2. n \in Nat /\ ExistsBijection(1..n, clients)
      BY <3>1, FS_CardinalityType
    <3>3. n # 0
      BY <1>4, <3>1, FS_EmptySet
    <3>4. PICK o : o \in Bijection(1..n, clients)
      BY <3>2 DEF ExistsBijection
    <3>5. o \in [1..n -> clients] /\ apart(o)
      BY <3>4 DEF Bijection, Injection, IsInjective
    <3> QED
      BY <3>2, <3>3, <3>5
  <2>3. all \in [1..n -> clients] /\ apart(all)
    BY <2>2
  <2> HIDE DEF n, all
  <2>4. all \in Seq(Servers) /\ all # <<>> /\ DOMAIN all = 1..n
    BY <2>2, <2>3
  <2>5. \A i, j \in DOMAIN all : all[i] \in clients /\ (i # j => all[i] # all[j])
    BY <2>3
  <2> HIDE DEF apart
  <2>6. search = [at |-> "operate", op |-> query.op, todo |-> all, round |-> 2,
                  id |-> query.id, pulls |-> 0]
    <3> DEFINE was == query
    <3>1. next = [at |-> at, op |-> was.op, todo |-> rest, round |-> was.round,
                  id |-> was.id, pulls |-> 0]
      BY <1>6
    <3>3. search = [next EXCEPT !.at = "operate", !.round = 2, !.todo = all]
      OBVIOUS
    <3> HIDE DEF next, at, rest, was, search
    <3>2. search = [at |-> "operate", op |-> was.op, todo |-> all, round |-> 2,
                    id |-> was.id, pulls |-> 0]
      BY <3>1, <3>3, SearchChanged
    <3> QED
      BY <3>2 DEF was
  <2> HIDE DEF search
  <2>7. search \in QueryStates
    BY <1>1, <2>4, <2>6 DEF QueryStates
  <2> QED
    BY <2>1, <2>5, <2>6, <2>7
<1>5. CASE rest = <<>> /\ ~(query.op = "workspaceSymbol" /\ query.round = 1 /\ clients # {})
  BY <1>5 DEF AskedNext
<1> QED
  BY <1>3, <1>4, <1>5

\* Steps of the servers and of the editor, and messages that are only handled.
LEMMA WorldMoves ==
  ASSUME LspInv, edit' \in 1..MaxEdits, broken' \subseteq broken,
         client' \in [Servers -> ClientStates \cup {NoClient}],
         server' \in [Servers -> ServerStates],
         \A s \in Servers :
           /\ client'[s] # NoClient <=> client[s] # NoClient
           /\ client[s] # NoClient =>
                client'[s].id = client[s].id /\ client'[s].sent = client[s].sent
           /\ ServerKeeps(server[s], server'[s])
           /\ server'[s].alive => server[s].alive,
         query' = query, taken' = taken
  PROVE  LspInv'
<1> USE DEF LspInv
<1>1. PoolTyped'
  BY DEF PoolTyped, ClientStates
<1>2. \A s \in Servers : Connected(s)' <=> Connected(s)
  BY DEF Connected
<1>3. query # NoQuery =>
        /\ Serving \in Servers /\ Serving' = Serving
        /\ \A p \in DOMAIN query.todo : query.todo[p] \in Servers
  BY AtServing DEF Serving
<1>4. QuerySound'
  BY <1>2, <1>3, QueryIsSomewhere DEF QuerySound
<1>5. PoolSound'
  BY <1>2, <1>3 DEF PoolSound, Serving
<1>6. \A s \in Servers : Connected(s) => client[s].id \in Nat
  BY LspAssumption DEF PoolTyped, Connected
<1>7. ServersSound'
  <2>1. ASSUME NEW s \in Servers, Connected(s)
        PROVE  IdsBelow(server'[s], client'[s].id) /\ Arrives(server'[s], client'[s].sent)
    BY <1>6, <2>1 DEF ServersSound, ServerKeeps, Connected
  <2>2. ASSUME query.at = "initialize"
        PROVE  IdsBelow(server'[Serving], 2) /\ Arrives(server'[Serving], 0)
    <3>1. Serving \in Servers
      BY <1>3, <2>2, QueryIsSomewhere
    <3>2. IdsBelow(server[Serving], 2) /\ Arrives(server[Serving], 0)
      BY <2>2 DEF ServersSound
    <3> QED
      BY <3>1, <3>2 DEF ServerKeeps
  <2> QED
    BY <1>2, <1>3, <2>1, <2>2, QueryIsSomewhere DEF ServersSound
<1>8. AnswerSound'
  <2>1. ASSUME query.at \in {"answer", "pull"}
        PROVE  About(server'[Serving], query.id, client'[Serving].sent)
    <3>1. Serving \in Servers /\ Connected(Serving)
      BY <1>3, <2>1, QueryIsSomewhere DEF QuerySound
    <3>2. /\ Arrives(server[Serving], client[Serving].sent)
          /\ About(server[Serving], query.id, client[Serving].sent)
          /\ client'[Serving].sent = client[Serving].sent
      BY <2>1, <3>1 DEF AnswerSound, ServersSound, Connected
    <3> QED
      BY <3>1, <3>2 DEF ServerKeeps
  <2> QED
    BY <1>3, <2>1, QueryIsSomewhere DEF AnswerSound
<1>9. TakenSound'
  BY DEF TakenSound
<1> QED
  BY <1>1, <1>4, <1>5, <1>7, <1>8, <1>9

\* The query is done with its server.
LEMMA QueryMovesOn ==
  ASSUME LspInv, query # NoQuery, NEW clients \in SUBSET Servers, query' = AskedNext(clients),
         edit' = edit, taken' = taken, broken' \subseteq Servers,
         client' \in [Servers -> ClientStates \cup {NoClient}],
         server' \in [Servers -> ServerStates],
         \A s \in Servers :
           /\ s \in clients <=> client'[s] # NoClient
           /\ client'[s] # NoClient =>
                /\ s \notin broken' /\ IdsBelow(server'[s], client'[s].id)
                /\ Arrives(server'[s], client'[s].sent)
           /\ server'[s].alive => client'[s] # NoClient
           /\ s # Serving /\ client[s] # NoClient => client'[s] # NoClient
  PROVE  LspInv'
<1> USE DEF LspInv
<1>1. /\ query \in QueryStates /\ Serving = query.todo[1] /\ 1 \in DOMAIN query.todo
      /\ Tail(query.todo) \in Seq(Servers)
      /\ \A p \in DOMAIN Tail(query.todo) :
           p + 1 \in DOMAIN query.todo /\ p + 1 # 1 /\ Tail(query.todo)[p] = query.todo[p + 1]
      /\ \A p \in DOMAIN Tail(query.todo) : Tail(query.todo)[p] \in Servers
  BY AtServing
<1>2. \A s \in Servers : Connected(s)' <=> s \in clients
  BY DEF Connected
<1>3. \/ query' = NoQuery
      \/ /\ query' \in QueryStates /\ query'.todo = Tail(query.todo)
         /\ query'.round = query.round
         /\ query'.at = IF query.round = 1 THEN "connect" ELSE "operate"
      \/ /\ query' \in QueryStates /\ query'.round = 2 /\ query'.at = "operate"
         /\ \A i, j \in DOMAIN query'.todo :
              query'.todo[i] \in clients /\ (i # j => query'.todo[i] # query'.todo[j])
  <2> DEFINE q == AskedNext(clients)
  <2>1. q = AskedNext(clients)
    OBVIOUS
  <2> HIDE DEF q
  <2>2. \/ q = NoQuery
        \/ /\ q \in QueryStates /\ q.todo = Tail(query.todo) /\ q.round = query.round
           /\ q.at = IF query.round = 1 THEN "connect" ELSE "operate"
        \/ /\ q \in QueryStates /\ q.round = 2 /\ q.at = "operate"
           /\ \A i, j \in DOMAIN q.todo :
                q.todo[i] \in clients /\ (i # j => q.todo[i] # q.todo[j])
    BY <1>1, <2>1, AskedNextIs
  <2> QED
    BY <2>1, <2>2
<1>4. PoolTyped'
  BY <1>3 DEF PoolTyped, ClientStates
<1>5. query'.at # "initialize" /\ query'.at \notin {"open", "answer", "pull", "collect"}
  BY <1>3 DEF NoQuery
<1>6. query' # NoQuery /\ query'.round = 2 =>
        /\ query'.at = "operate"
        /\ \A i, j \in DOMAIN query'.todo :
             query'.todo[i] \in clients /\ (i # j => query'.todo[i] # query'.todo[j])
  <2>1. CASE query'.todo = Tail(query.todo) /\ query'.round = query.round /\ query.round = 2
             /\ query'.at = "operate"
    <3>1. \A i, j \in DOMAIN query.todo :
            Connected(query.todo[i]) /\ (i # j => query.todo[i] # query.todo[j])
      BY <2>1 DEF QuerySound
    <3>2. ASSUME NEW i \in DOMAIN query'.todo PROVE query'.todo[i] \in clients
      <4>1. /\ i + 1 \in DOMAIN query.todo /\ i + 1 # 1
            /\ query'.todo[i] = query.todo[i + 1] /\ query'.todo[i] \in Servers
        BY <1>1, <2>1, <3>2
      <4>2. query.todo[i + 1] # Serving /\ client[query.todo[i + 1]] # NoClient
        BY <1>1, <3>1, <4>1 DEF Connected
      <4> QED
        BY <4>1, <4>2
    <3>3. ASSUME NEW i \in DOMAIN query'.todo, NEW j \in DOMAIN query'.todo, i # j
          PROVE  query'.todo[i] # query'.todo[j]
      <4>1. /\ i + 1 \in DOMAIN query.todo /\ query'.todo[i] = query.todo[i + 1]
            /\ j + 1 \in DOMAIN query.todo /\ query'.todo[j] = query.todo[j + 1]
        BY <1>1, <2>1, <3>3
      <4>2. i + 1 # j + 1
        BY <1>1, <2>1, <3>3
      <4> QED
        BY <3>1, <4>1, <4>2
    <3> QED
      BY <2>1, <3>2, <3>3
  <2> QED
    BY <1>1, <1>3, <2>1 DEF QueryStates
<1>7. query'.round = 2 /\ query' # NoQuery =>
        \A i \in DOMAIN query'.todo : query'.todo[i] \in Servers
  BY <1>6
<1>8. query' # NoQuery /\ query'.at = "operate" => Connected(Serving)'
  <2> SUFFICES ASSUME query' # NoQuery, query'.at = "operate" PROVE Connected(Serving)'
    OBVIOUS
  <2>1. query'.round = 2
    BY <1>1, <1>3 DEF QueryStates
  <2>2. PoolTyped' /\ query' # NoQuery
    BY <1>4
  <2>3. Serving' \in Servers /\ Serving' = query'.todo[1] /\ 1 \in DOMAIN query'.todo
    <3>1. query' \in QueryStates
      BY <1>3
    <3>2. query'.todo \in Seq(Servers) /\ query'.todo # <<>>
      BY <3>1 DEF QueryStates
    <3> QED
      BY <3>2 DEF Serving
  <2>4. Serving' \in clients
    BY <1>6, <2>1, <2>3
  <2> QED
    BY <2>3, <2>4 DEF Connected
<1>9. QuerySound'
  <2>1. query' # NoQuery /\ query'.round = 2 =>
          \A i \in DOMAIN query'.todo : client'[query'.todo[i]] # NoClient
    BY <1>6, <1>7
  <2>2. query'.at = "operate" => query' # NoQuery
    BY DEF NoQuery
  <2> QED
    BY <1>5, <1>6, <1>8, <2>1, <2>2 DEF QuerySound, Connected
<1>10. PoolSound'
  BY DEF PoolSound, Connected
<1>11. ServersSound' /\ AnswerSound'
  BY <1>5 DEF ServersSound, AnswerSound, Connected
<1>12. TakenSound'
  BY DEF TakenSound
<1> QED
  BY <1>4, <1>9, <1>10, <1>11, <1>12

\* The query takes a step with its server.
LEMMA QueryGoesOn ==
  ASSUME LspInv, query # NoQuery, NEW s, s = Serving,
         query' \in QueryStates, query'.todo = query.todo, query'.round = query.round,
         query'.at # "connect",
         edit' = edit, broken' = broken, taken'[1] = taken'[2],
         client' \in [Servers -> ClientStates \cup {NoClient}],
         server' \in [Servers -> ServerStates],
         \A t \in Servers \ {s} : client'[t] = client[t] /\ server'[t] = server[t],
         s \notin broken,
         query'.at = "initialize" =>
           client'[s] = NoClient /\ IdsBelow(server'[s], 2) /\ Arrives(server'[s], 0)
           /\ query.round = 1,
         query'.at # "initialize" =>
           client'[s] # NoClient /\ IdsBelow(server'[s], client'[s].id)
           /\ Arrives(server'[s], client'[s].sent),
         query.round = 2 => query'.at \in {"operate", "answer", "pull", "collect"},
         query'.at \in {"answer", "pull"} => About(server'[s], query'.id, client'[s].sent)
  PROVE  LspInv'
<1> USE DEF LspInv
<1>1. /\ query \in QueryStates /\ s = query.todo[1] /\ 1 \in DOMAIN query.todo /\ s \in Servers
      /\ \A i \in DOMAIN query.todo : query.todo[i] \in Servers
  BY AtServing
<1>2. Serving' = s /\ query' # NoQuery
  <2>1. query'.at # "none"
    BY DEF QueryStates
  <2> QED
    BY <2>1, QueryIsSomewhere DEF Serving, NoQuery
<1>3. PoolTyped'
  BY DEF PoolTyped, ClientStates
<1>4. \A t \in Servers \ {s} : Connected(t)' <=> Connected(t)
  BY DEF Connected
<1>5. QuerySound'
  <2>1. ASSUME query'.round = 2
        PROVE  \A i, j \in DOMAIN query'.todo :
                 client'[query'.todo[i]] # NoClient /\ (i # j => query'.todo[i] # query'.todo[j])
    <3>1. client'[s] # NoClient
      BY <2>1
    <3>2. \A i, j \in DOMAIN query.todo :
            client[query.todo[i]] # NoClient /\ (i # j => query.todo[i] # query.todo[j])
      BY <2>1 DEF QuerySound, Connected
    <3> QED
      BY <1>1, <3>1, <3>2
  <2> QED
    BY <1>1, <1>2, <2>1 DEF QuerySound, Connected
<1>6. PoolSound'
  <2> SUFFICES ASSUME NEW t \in Servers
               PROVE  /\ client'[t] # NoClient => t \notin broken
                      /\ server'[t].alive => \/ client'[t] # NoClient
                                             \/ query'.at = "initialize" /\ s = t
    BY <1>2 DEF PoolSound, Connected
  <2>1. CASE t = s
    BY <2>1
  <2>2. CASE t # s
    BY <2>2 DEF PoolSound, Connected
  <2> QED
    BY <2>1, <2>2
<1>7. ServersSound'
  <2>1. ASSUME NEW t \in Servers, client'[t] # NoClient
        PROVE  IdsBelow(server'[t], client'[t].id) /\ Arrives(server'[t], client'[t].sent)
    <3>1. CASE t = s
      BY <2>1, <3>1
    <3>2. CASE t # s
      BY <2>1, <3>2 DEF ServersSound, Connected
    <3> QED
      BY <3>1, <3>2
  <2> QED
    BY <1>2, <2>1 DEF ServersSound, Connected
<1>8. AnswerSound'
  BY <1>2 DEF AnswerSound
<1>9. TakenSound'
  BY DEF TakenSound
<1> QED
  BY <1>3, <1>5, <1>6, <1>7, <1>8, <1>9

\* A step that leaves the servers as they are keeps what is said of them.
LEMMA NothingHappens == \A a : ServerKeeps(a, a)
  BY DEF ServerKeeps

LEMMA LspStarts ==
  ASSUME LspInit PROVE LspInv
<1> USE DEF LspInit
<1>1. \A s \in Servers : ~Connected(s) /\ ~server[s].alive
  BY FreshServer DEF Connected
<1>2. query.at = "none"
  BY DEF NoQuery
<1>3. PoolTyped
  BY LspAssumption, FreshServer DEF PoolTyped
<1> QED
  BY <1>1, <1>2, <1>3
     DEF LspInv, QuerySound, PoolSound, ServersSound, AnswerSound, TakenSound

\* One server of the pool, as the invariant has it.
LEMMA AServer ==
  ASSUME LspInv, NEW s \in Servers
  PROVE  /\ server[s] \in ServerStates
         /\ client[s] # NoClient =>
              /\ client[s] \in ClientStates /\ client[s].id \in Nat
              /\ client[s].sent \in 0..MaxEdits
              /\ s \notin broken /\ IdsBelow(server[s], client[s].id)
              /\ Arrives(server[s], client[s].sent)
         /\ server[s].alive => \/ client[s] # NoClient
                               \/ query.at = "initialize" /\ Serving = s
<1>1. client[s] \in ClientStates \cup {NoClient} /\ server[s] \in ServerStates
  BY DEF LspInv, PoolTyped, ClientStates
<1> QED
  BY <1>1, LspAssumption DEF LspInv, PoolSound, ServersSound, Connected, ClientStates

\* One server's step.
LEMMA OneServerMoves ==
  ASSUME LspInv, NEW s \in Servers, NEW b \in ServerStates, ServerKeeps(server[s], b),
         b.alive => server[s].alive,
         server' = [server EXCEPT ![s] = b],
         UNCHANGED <<edit, broken, query, taken>>,
         client' \in [Servers -> ClientStates \cup {NoClient}],
         \A t \in Servers :
           /\ client'[t] # NoClient <=> client[t] # NoClient
           /\ client[t] # NoClient =>
                client'[t].id = client[t].id /\ client'[t].sent = client[t].sent
  PROVE  LspInv'
<1>1. server \in [Servers -> ServerStates] /\ edit \in 1..MaxEdits
  BY DEF LspInv, PoolTyped
<1>2. server' \in [Servers -> ServerStates]
  BY <1>1
<1>3. \A t \in Servers : ServerKeeps(server[t], server'[t]) /\ (server'[t].alive => server[t].alive)
  BY <1>1, NothingHappens
<1> QED
  BY <1>1, <1>2, <1>3, WorldMoves

LEMMA ServersStep ==
  ASSUME LspInv, NEW s \in Servers,
         ServerReads(s) \/ ServerAnswers(s) \/ ServerPushes(s) \/ ServerDies(s)
  PROVE  LspInv'
<1>1. server \in [Servers -> ServerStates] /\ server[s] \in ServerStates
  BY DEF LspInv, PoolTyped
<1>2. client \in [Servers -> ClientStates \cup {NoClient}]
  BY DEF LspInv, PoolTyped, ClientStates
<1> DEFINE b == server'[s]
<1>3. UNCHANGED <<edit, client, broken, query, taken>>
  BY DEF ServerReads, ServerAnswers, ServerPushes, ServerDies
<1>4. server' = [server EXCEPT ![s] = b]
  BY <1>1 DEF ServerReads, ServerAnswers, ServerPushes, ServerDies
<1>5. b \in ServerStates /\ (b.alive => server[s].alive) /\ ServerKeeps(server[s], b)
  <2> DEFINE a == server[s]
  <2>1. CASE ServerReads(s)
    <3>1. /\ a.inbox # <<>>
          /\ b = [a EXCEPT
               !.inbox = Tail(@),
               !.text = IF Head(a.inbox).kind = "document" THEN Head(a.inbox).text ELSE @,
               !.asked = IF Head(a.inbox).kind = "request"
                         THEN @ \cup {[id |-> Head(a.inbox).id, text |-> a.text]} ELSE @]
      BY <1>1, <2>1 DEF ServerReads
    <3> HIDE DEF a, b
    <3>2. a \in ServerStates
      BY <1>1 DEF a
    <3>3. b \in ServerStates /\ b.alive = a.alive /\ ServerKeeps(a, b)
      BY <3>1, <3>2, ReadsKept
    <3> QED
      BY <3>3 DEF a
  <2>2. CASE ServerAnswers(s)
    <3>1. PICK r \in a.asked :
            b = [a EXCEPT !.asked = @ \ {r},
                          !.outbox = Append(@, [kind |-> "answer", id |-> r.id, text |-> r.text])]
      BY <1>1, <2>2 DEF ServerAnswers
    <3> HIDE DEF a, b
    <3>2. a \in ServerStates
      BY <1>1 DEF a
    <3>3. b \in ServerStates /\ b.alive = a.alive /\ ServerKeeps(a, b)
      BY <3>1, <3>2, AnswersKept
    <3> QED
      BY <3>3 DEF a
  <2>3. CASE ServerPushes(s)
    <3>1. b = [a EXCEPT !.outbox = Append(@, [kind |-> "register", id |-> 0, text |-> 0])]
      BY <1>1, <2>3 DEF ServerPushes
    <3> HIDE DEF a, b
    <3>2. a \in ServerStates
      BY <1>1 DEF a
    <3>3. b \in ServerStates /\ b.alive = a.alive /\ ServerKeeps(a, b)
      BY <3>1, <3>2, PushesKept
    <3> QED
      BY <3>3 DEF a
  <2>4. CASE ServerDies(s)
    <3>1. b = [a EXCEPT !.alive = FALSE]
      BY <1>1, <2>4 DEF ServerDies
    <3> HIDE DEF a, b
    <3>2. a \in ServerStates
      BY <1>1 DEF a
    <3>3. b \in ServerStates /\ ~b.alive /\ ServerKeeps(a, b)
      BY <3>1, <3>2, DiesKept
    <3> QED
      BY <3>3 DEF a
  <2> QED
    BY <2>1, <2>2, <2>3, <2>4
<1> HIDE DEF b
<1> QED
  BY <1>2, <1>3, <1>4, <1>5, OneServerMoves

LEMMA Handled ==
  ASSUME LspInv, Handles PROVE LspInv'
<1>1. query # NoQuery /\ PoolTyped
  BY DEF Handles, NoQuery, LspInv
<1>2. PICK s \in Servers : s = Serving
  BY <1>1, AtServing
<1>3. server[s] \in ServerStates /\ server \in [Servers -> ServerStates]
  BY AServer DEF LspInv, PoolTyped
<1>4. client \in [Servers -> ClientStates \cup {NoClient}]
  BY <1>1 DEF PoolTyped, ClientStates
<1> DEFINE b == [server[s] EXCEPT !.outbox = Tail(@)]
<1>5. server[s].outbox # <<>> /\ server' = [server EXCEPT ![s] = b]
  BY <1>2, <1>3 DEF Handles, TakesAnswer
<1>6. b \in ServerStates /\ b.alive = server[s].alive /\ ServerKeeps(server[s], b)
  BY <1>3, <1>5, TakenKept
<1> HIDE DEF b
<1>7. UNCHANGED <<edit, broken, query, taken>>
  BY DEF Handles
<1>8. CASE client' = client
  BY <1>2, <1>4, <1>5, <1>6, <1>7, <1>8, OneServerMoves
<1>9. CASE client[s] # NoClient /\ client' = [client EXCEPT ![s].registered = 1]
  <2>1. client[s] \in ClientStates
    BY <1>9, AServer
  <2>2. PICK c : c = [client[s] EXCEPT !.registered = 1]
    OBVIOUS
  <2>3. /\ c \in ClientStates /\ c.id = client[s].id /\ c.sent = client[s].sent
        /\ c # NoClient
    BY <2>1, <2>2 DEF ClientStates, NoClient
  <2>4. client' = [client EXCEPT ![s] = c]
    BY <1>9, <2>2
  <2>5. client' \in [Servers -> ClientStates \cup {NoClient}]
    BY <1>4, <2>3, <2>4
  <2>6. \A t \in Servers :
          /\ client'[t] # NoClient <=> client[t] # NoClient
          /\ client[t] # NoClient =>
               client'[t].id = client[t].id /\ client'[t].sent = client[t].sent
    BY <1>4, <1>9, <2>3, <2>4
  <2> QED
    BY <1>2, <1>5, <1>6, <1>7, <2>5, <2>6, OneServerMoves
<1> QED
  BY <1>2, <1>8, <1>9 DEF Handles, Connected

\* The query leaves its server: nothing is wrong, or what failed is taken out
\* of the pool with its process.
LEMMA QueryLeaves ==
  ASSUME LspInv, query # NoQuery, UNCHANGED <<edit, taken>>, broken' \subseteq Servers,
         \/ Removes
         \/ /\ query' = AskedNext(Clients) /\ client' = client
            /\ \/ server' = server /\ query.at # "initialize"
               \/ /\ server' = [server EXCEPT ![Serving] = NoServer]
                  /\ query.at = "initialize"
            /\ \A t \in Servers : client[t] # NoClient => t \notin broken',
         \A t \in Servers \ {Serving} : t \in broken' => t \in broken
  PROVE  LspInv'
<1>1. PoolTyped
  BY DEF LspInv
<1>2. PICK s \in Servers : s = Serving
  BY <1>1, AtServing
<1>3. /\ client \in [Servers -> ClientStates \cup {NoClient}]
      /\ server \in [Servers -> ServerStates]
  BY <1>1 DEF PoolTyped, ClientStates
<1>4. NoServer \in ServerStates /\ ~NoServer.alive
  BY FreshServer
<1>5. \A t \in Servers :
        /\ client[t] # NoClient =>
             /\ t \notin broken /\ IdsBelow(server[t], client[t].id)
             /\ Arrives(server[t], client[t].sent)
        /\ server[t].alive => client[t] # NoClient \/ (query.at = "initialize" /\ s = t)
  BY <1>2, AServer
<1>6. query.at = "initialize" => client[s] = NoClient
  BY <1>2 DEF LspInv, QuerySound, Connected
<1>7. CASE Removes
  <2>1. /\ client' = [client EXCEPT ![s] = NoClient] /\ server' = [server EXCEPT ![s] = NoServer]
        /\ query' = AskedNext(Clients \ {s}) /\ broken' = broken
    BY <1>2, <1>7 DEF Removes
  <2>2. /\ client' \in [Servers -> ClientStates \cup {NoClient}]
        /\ server' \in [Servers -> ServerStates]
    BY <1>3, <1>4, <2>1
  <2>3. \A t \in Servers :
          /\ t \in Clients \ {s} <=> client'[t] # NoClient
          /\ client'[t] # NoClient =>
               /\ t \notin broken' /\ IdsBelow(server'[t], client'[t].id)
               /\ Arrives(server'[t], client'[t].sent)
          /\ server'[t].alive => client'[t] # NoClient
          /\ t # Serving /\ client[t] # NoClient => client'[t] # NoClient
    <3> TAKE t \in Servers
    <3>1. CASE t = s
      <4>1. client'[t] = NoClient /\ server'[t] = NoServer
        BY <1>3, <2>1, <3>1
      <4> QED
        BY <1>2, <1>4, <3>1, <4>1
    <3>2. CASE t # s
      <4>1. client'[t] = client[t] /\ server'[t] = server[t]
        BY <1>3, <2>1, <3>2
      <4> QED
        BY <1>5, <2>1, <3>2, <4>1 DEF Clients, Connected
    <3> QED
      BY <3>1, <3>2
  <2>4. Clients \ {s} \in SUBSET Servers
    BY DEF Clients
  <2> QED
    BY <2>1, <2>2, <2>3, <2>4, QueryMovesOn
<1>8. CASE /\ query' = AskedNext(Clients) /\ client' = client
           /\ \/ server' = server /\ query.at # "initialize"
              \/ server' = [server EXCEPT ![s] = NoServer] /\ query.at = "initialize"
           /\ \A t \in Servers : client[t] # NoClient => t \notin broken'
  <2>1. /\ client' \in [Servers -> ClientStates \cup {NoClient}]
        /\ server' \in [Servers -> ServerStates]
    BY <1>3, <1>4, <1>8
  <2>2. \A t \in Servers :
          /\ t \in Clients <=> client'[t] # NoClient
          /\ client'[t] # NoClient =>
               /\ t \notin broken' /\ IdsBelow(server'[t], client'[t].id)
               /\ Arrives(server'[t], client'[t].sent)
          /\ server'[t].alive => client'[t] # NoClient
          /\ t # Serving /\ client[t] # NoClient => client'[t] # NoClient
    <3> TAKE t \in Servers
    <3>1. CASE server'[t] = server[t] /\ ~(query.at = "initialize" /\ t = s)
      BY <1>5, <1>8, <3>1 DEF Clients, Connected
    <3>2. CASE query.at = "initialize" /\ t = s /\ server'[t] = NoServer
      BY <1>4, <1>6, <1>8, <3>2 DEF Clients, Connected
    <3> QED
      BY <1>3, <1>8, <3>1, <3>2
  <2>3. Clients \in SUBSET Servers
    BY DEF Clients
  <2> QED
    BY <1>8, <2>1, <2>2, <2>3, QueryMovesOn
<1> QED
  BY <1>2, <1>7, <1>8

LEMMA QueriesEnd ==
  ASSUME LspInv,
         RefusesBroken \/ StartFails \/ InitializeFails \/ OpenFails \/ OperationFails \/ Collected
  PROVE  LspInv'
<1>1. query # NoQuery
  BY DEF RefusesBroken, StartFails, InitializeFails, OpenFails, OperationFails, Collected, NoQuery
<1>2. PoolTyped /\ Serving \in Servers /\ broken \subseteq Servers
  BY <1>1, AtServing DEF LspInv, PoolTyped
<1>3. UNCHANGED <<edit, taken>>
  BY DEF RefusesBroken, StartFails, InitializeFails, OpenFails, OperationFails, Collected,
         Removes, ServerDone
<1>4. \A t \in Servers : client[t] # NoClient => t \notin broken
  BY AServer
<1>5. CASE RefusesBroken \/ OpenFails \/ OperationFails
  <2>1. Removes /\ broken' = broken
    BY <1>5 DEF RefusesBroken, OpenFails, OperationFails, Removes
  <2> QED
    BY <1>1, <1>2, <1>3, <2>1, QueryLeaves
<1>6. CASE StartFails
  <2>1. /\ query' = AskedNext(Clients) /\ client' = client /\ server' = server
        /\ query.at # "initialize" /\ broken' = broken \cup {Serving}
        /\ client[Serving] = NoClient
    BY <1>6 DEF StartFails, Connected
  <2>2. \A t \in Servers : client[t] # NoClient => t \notin broken'
    BY <1>4, <2>1
  <2> QED
    BY <1>1, <1>2, <1>3, <2>1, <2>2, QueryLeaves
<1>7. CASE InitializeFails
  <2>1. /\ query' = AskedNext(Clients) /\ client' = client
        /\ server' = [server EXCEPT ![Serving] = NoServer]
        /\ query.at = "initialize" /\ broken' = broken \cup {Serving}
    BY <1>7 DEF InitializeFails
  <2>2. client[Serving] = NoClient
    BY <2>1 DEF LspInv, QuerySound, Connected
  <2>3. \A t \in Servers : client[t] # NoClient => t \notin broken'
    BY <1>4, <2>1, <2>2
  <2> QED
    BY <1>1, <1>2, <1>3, <2>1, <2>3, QueryLeaves
<1>8. CASE Collected
  <2>1. /\ query' = AskedNext(Clients) /\ client' = client /\ server' = server
        /\ query.at # "initialize" /\ broken' = broken
    BY <1>8 DEF Collected, ServerDone
  <2> QED
    BY <1>1, <1>2, <1>3, <1>4, <2>1, QueryLeaves
<1> QED
  BY <1>5, <1>6, <1>7, <1>8

\* What is known of the query's server when the query takes a step.
LEMMA AtWork ==
  ASSUME LspInv, query # NoQuery, NEW s, s = Serving
  PROVE  /\ s \in Servers /\ query \in QueryStates
         /\ query = [at |-> query.at, op |-> query.op, todo |-> query.todo,
                     round |-> query.round, id |-> query.id, pulls |-> query.pulls]
         /\ query.op \in Operations /\ query.id \in Nat /\ query.pulls \in Nat
         /\ query.round \in {1, 2} /\ query.todo \in Seq(Servers) \ {<<>>}
         /\ client \in [Servers -> ClientStates \cup {NoClient}]
         /\ server \in [Servers -> ServerStates] /\ server[s] \in ServerStates
         /\ edit \in 1..MaxEdits /\ edit \in 0..MaxEdits
         /\ query.at \in {"open", "operate", "answer", "pull", "collect"} => client[s] # NoClient
         /\ client[s] # NoClient =>
              /\ client[s] \in ClientStates /\ client[s].id \in Nat
              /\ client[s].sent \in 0..MaxEdits
              /\ s \notin broken /\ IdsBelow(server[s], client[s].id)
              /\ Arrives(server[s], client[s].sent)
         /\ query.at = "initialize" =>
              /\ client[s] = NoClient /\ s \notin broken
              /\ IdsBelow(server[s], 2) /\ Arrives(server[s], 0)
         /\ query.at \in {"answer", "pull"} => About(server[s], query.id, client[s].sent)
         /\ query.round = 2 => query.at \in {"operate", "answer", "pull", "collect"}
         /\ taken[1] = taken[2]
<1>1. s \in Servers /\ query \in QueryStates
  BY AtServing DEF LspInv
<1>2. /\ query = [at |-> query.at, op |-> query.op, todo |-> query.todo,
                  round |-> query.round, id |-> query.id, pulls |-> query.pulls]
      /\ query.op \in Operations /\ query.id \in Nat /\ query.pulls \in Nat
      /\ query.round \in {1, 2} /\ query.todo \in Seq(Servers) \ {<<>>}
  BY <1>1 DEF QueryStates
<1>3. /\ client \in [Servers -> ClientStates \cup {NoClient}]
      /\ server \in [Servers -> ServerStates] /\ edit \in 1..MaxEdits
      /\ edit \in 0..MaxEdits
  BY LspAssumption DEF LspInv, PoolTyped, ClientStates
<1>4. /\ query.at \in {"open", "operate", "answer", "pull", "collect"} => client[s] # NoClient
      /\ query.at = "initialize" =>
           /\ client[s] = NoClient /\ s \notin broken
           /\ IdsBelow(server[s], 2) /\ Arrives(server[s], 0)
      /\ query.at \in {"answer", "pull"} => About(server[s], query.id, client[s].sent)
      /\ query.round = 2 => query.at \in {"operate", "answer", "pull", "collect"}
      /\ taken[1] = taken[2]
  BY DEF LspInv, QuerySound, ServersSound, AnswerSound, TakenSound, Connected
<1> QED
  BY <1>1, <1>2, <1>3, <1>4, AServer

\* A query whose place, number or count changes stays one.
QueryPlaces == {"initialize", "open", "operate", "answer", "pull", "collect"}

LEMMA QueryNumbered ==
  ASSUME NEW a \in QueryStates, NEW at, NEW i, NEW b, b = [a EXCEPT !.at = at, !.id = i]
  PROVE  /\ a.pulls \in Nat
         /\ b = [at |-> at, op |-> a.op, todo |-> a.todo, round |-> a.round, id |-> i,
                 pulls |-> a.pulls]
<1>1. a.pulls \in Nat /\ a = [at |-> a.at, op |-> a.op, todo |-> a.todo, round |-> a.round,
                               id |-> a.id, pulls |-> a.pulls]
  BY DEF QueryStates
<1> QED
  BY <1>1

LEMMA QueryStep ==
  ASSUME NEW a \in QueryStates, NEW at \in QueryPlaces, NEW i \in Nat, NEW n \in Nat, NEW b,
         b = [at |-> at, op |-> a.op, todo |-> a.todo, round |-> a.round, id |-> i, pulls |-> n]
  PROVE  b \in QueryStates /\ b.at = at /\ b.todo = a.todo /\ b.round = a.round /\ b.id = i
<1>1. /\ a.op \in Operations /\ a.round \in {1, 2} /\ a.todo \in Seq(Servers) \ {<<>>}
  BY DEF QueryStates
<1> QED
  BY <1>1 DEF QueryStates, QueryPlaces

\* The query goes on and leaves the pool alone.
LEMMA QueryWalks ==
  ASSUME LspInv, FindsClient \/ OnlyOpens \/ PullFails
  PROVE  LspInv'
<1>1. query # NoQuery
  BY DEF FindsClient, OnlyOpens, PullFails, NoQuery
<1>2. PICK s : s = Serving
  OBVIOUS
<1>3. UNCHANGED <<edit, client, broken, server, taken>>
  BY DEF FindsClient, OnlyOpens, PullFails
<1>4. client[s] # NoClient
  <2>1. FindsClient => client[s] # NoClient
    BY <1>2 DEF FindsClient, Connected
  <2>2. OnlyOpens \/ PullFails => query.at \in {"operate", "pull"}
    BY DEF OnlyOpens, PullFails
  <2> QED
    BY <1>1, <1>2, <2>1, <2>2, AtWork
<1>5. PICK at \in {"open", "operate", "collect"}, n \in Nat :
        /\ query' = [query EXCEPT !.at = at] \/ query' = [query EXCEPT !.at = at, !.pulls = n]
        /\ query.round = 2 => at \in {"operate", "collect"}
  <2>1. CASE FindsClient
    <3>1. query.round # 2
      BY <1>1, <1>2, <2>1, AtWork DEF FindsClient
    <3> QED
      BY <2>1, <3>1 DEF FindsClient, GoesTo
  <2>2. CASE OnlyOpens
    BY <2>2 DEF OnlyOpens, GoesTo
  <2>3. CASE PullFails
    <3>1. query.pulls + 1 \in Nat
      BY <1>1, <1>2, AtWork
    <3> QED
      BY <2>3, <3>1 DEF PullFails, PullEnds
  <2> QED
    BY <2>1, <2>2, <2>3
<1>6. /\ query' \in QueryStates /\ query'.at = at /\ query'.todo = query.todo
      /\ query'.round = query.round
  <2>9. PICK was, q : was = query /\ q = query'
    OBVIOUS
  <2>1. was \in QueryStates /\ at \in QueryPlaces
    BY <1>1, <1>2, <2>9, AtWork DEF QueryPlaces
  <2>2. q = [was EXCEPT !.at = at] \/ q = [was EXCEPT !.at = at, !.pulls = n]
    BY <1>5, <2>9
  <2>3. PICK i \in Nat, m \in Nat :
          q = [at |-> at, op |-> was.op, todo |-> was.todo, round |-> was.round,
               id |-> i, pulls |-> m]
    <3>1. was.id \in Nat /\ was.pulls \in Nat
      BY <2>1 DEF QueryStates
    <3>2. CASE q = [was EXCEPT !.at = at]
      <4>1. q = [at |-> at, op |-> was.op, todo |-> was.todo, round |-> was.round,
                  id |-> was.id, pulls |-> was.pulls]
        BY <2>1, <3>2 DEF QueryStates
      <4> QED
        BY <3>1, <4>1
    <3>3. CASE q = [was EXCEPT !.at = at, !.pulls = n]
      <4>1. q = [at |-> at, op |-> was.op, todo |-> was.todo, round |-> was.round,
                  id |-> was.id, pulls |-> n]
        BY <2>1, <3>3 DEF QueryStates
      <4> QED
        BY <3>1, <4>1
    <3> QED
      BY <2>2, <3>2, <3>3
  <2>4. q \in QueryStates /\ q.at = at /\ q.todo = was.todo /\ q.round = was.round
    BY <2>1, <2>3, QueryStep
  <2> QED
    BY <2>4, <2>9
<1> QED
  BY <1>1, <1>2, <1>3, <1>4, <1>5, <1>6, AtWork, QueryGoesOn

\* The query sends, or takes the answer it waits for.
LEMMA QueryTalks ==
  ASSUME LspInv, StartsClient \/ OpensText \/ Operates \/ Initialized \/ Answered \/ Pulled
  PROVE  LspInv'
<1>1. query # NoQuery
  BY DEF StartsClient, OpensText, Operates, Initialized, Answered, Pulled, NoQuery
<1>2. PICK s : s = Serving
  OBVIOUS
<1> DEFINE a == server[s]
           c == client[s]
<1>3. /\ s \in Servers /\ query \in QueryStates /\ query.round \in {1, 2}
      /\ query.id \in Nat /\ query.pulls \in Nat
      /\ client \in [Servers -> ClientStates \cup {NoClient}]
      /\ server \in [Servers -> ServerStates] /\ a \in ServerStates
      /\ edit \in 0..MaxEdits
      /\ taken[1] = taken[2]
  BY <1>1, <1>2, AtWork
<1>4. c # NoClient =>
        /\ c \in ClientStates /\ c.id \in Nat /\ c.sent \in 0..MaxEdits
        /\ s \notin broken /\ IdsBelow(a, c.id) /\ Arrives(a, c.sent)
  BY <1>1, <1>2, AtWork
<1>5. UNCHANGED <<edit, broken>>
  BY DEF StartsClient, OpensText, Operates, Initialized, Answered, Pulled
<1>6. CASE StartsClient
  <2>1. PICK b : b = [NoServer EXCEPT !.alive = TRUE,
                                      !.inbox = <<[kind |-> "request", id |-> 1, text |-> 0]>>]
    OBVIOUS
  <2>2. b \in ServerStates /\ IdsBelow(b, 2) /\ Arrives(b, 0)
    BY <2>1, FreshServer
  <2>3. /\ server' = [server EXCEPT ![s] = b] /\ UNCHANGED <<client, taken>>
        /\ query' = [query EXCEPT !.at = "initialize", !.id = 1]
        /\ s \notin broken /\ client[s] = NoClient /\ query.at = "connect"
    BY <1>2, <1>6, <2>1 DEF StartsClient, Connected
  <2>4. query.round = 1
    BY <1>1, <1>2, <1>3, <2>3, AtWork
  <2>5. /\ query' \in QueryStates /\ query'.at = "initialize" /\ query'.todo = query.todo
        /\ query'.round = query.round
    <3>9. PICK was, q : was = query /\ q = query'
      OBVIOUS
    <3>1. was \in QueryStates /\ q = [was EXCEPT !.at = "initialize", !.id = 1]
      BY <1>3, <2>3, <3>9
    <3>2. q \in QueryStates /\ q.at = "initialize" /\ q.todo = was.todo /\ q.round = was.round
      <4>1. /\ was.pulls \in Nat
            /\ q = [at |-> "initialize", op |-> was.op, todo |-> was.todo,
                    round |-> was.round, id |-> 1, pulls |-> was.pulls]
        BY <3>1 DEF QueryStates
      <4>2. "initialize" \in QueryPlaces /\ 1 \in Nat
        BY DEF QueryPlaces
      <4> QED
        BY <3>1, <4>1, <4>2, QueryStep, ZenonT(40)
    <3> QED
      BY <3>2, <3>9
  <2>6. /\ server' \in [Servers -> ServerStates]
        /\ client' \in [Servers -> ClientStates \cup {NoClient}] /\ server'[s] = b
        /\ client'[s] = NoClient
        /\ \A t \in Servers \ {s} : client'[t] = client[t] /\ server'[t] = server[t]
    BY <1>3, <2>2, <2>3
  <2> QED
    BY <1>1, <1>2, <1>3, <1>5, <2>2, <2>3, <2>4, <2>5, <2>6, QueryGoesOn
<1>7. CASE OpensText
  <2>1. PICK b : b = [a EXCEPT !.inbox = Append(@, [kind |-> "document", id |-> 0,
                                                    text |-> edit])]
    OBVIOUS
  <2>2. PICK d : d = [c EXCEPT !.sent = edit]
    OBVIOUS
  <2>3. /\ server' = [server EXCEPT ![s] = b] /\ client' = [client EXCEPT ![s] = d]
        /\ query' = [query EXCEPT !.at = "operate"] /\ query.at = "open" /\ taken' = taken
    BY <1>2, <1>3, <1>7, <2>1, <2>2 DEF OpensText, Sends, GoesTo
  <2>4. c # NoClient /\ query.round # 2
    BY <1>1, <1>2, <2>3, AtWork
  <2>5. /\ d \in ClientStates /\ d.id = c.id /\ d.sent = edit /\ d # NoClient
    BY <1>3, <1>4, <2>2, <2>4 DEF ClientStates, NoClient
  <2>6. b \in ServerStates /\ IdsBelow(b, d.id) /\ Arrives(b, d.sent)
    <3>1. /\ b \in ServerStates /\ Arrives(b, edit)
          /\ \A n \in Nat : IdsBelow(a, n) => IdsBelow(b, n)
      <4> DEFINE x == edit
      <4>1. x \in 0..MaxEdits
        BY <1>3
      <4>2. b = [a EXCEPT !.inbox = Append(@, [kind |-> "document", id |-> 0, text |-> x])]
        BY <2>1
      <4> HIDE DEF a, x
      <4>3. b \in ServerStates /\ Arrives(b, x) /\ \A n \in Nat : IdsBelow(a, n) => IdsBelow(b, n)
        BY <1>3, <4>1, <4>2, TextSent
      <4> QED
        BY <4>3 DEF a, x
    <3> QED
      BY <1>4, <2>4, <2>5, <3>1
  <2>7. /\ query' \in QueryStates /\ query'.at = "operate" /\ query'.todo = query.todo
        /\ query'.round = query.round
    <3>9. PICK was, q : was = query /\ q = query'
      OBVIOUS
    <3>1. /\ was.pulls \in Nat /\ was.id \in Nat /\ was \in QueryStates
          /\ q = [at |-> "operate", op |-> was.op, todo |-> was.todo,
                  round |-> was.round, id |-> was.id, pulls |-> was.pulls]
      BY <1>3, <2>3, <3>9 DEF QueryStates
    <3>2. "operate" \in QueryPlaces
      BY DEF QueryPlaces
    <3>3. q \in QueryStates /\ q.at = "operate" /\ q.todo = was.todo /\ q.round = was.round
      BY <3>1, <3>2, QueryStep
    <3> QED
      BY <3>3, <3>9
  <2>8. /\ server' \in [Servers -> ServerStates] /\ server'[s] = b /\ client'[s] = d
        /\ client' \in [Servers -> ClientStates \cup {NoClient}]
        /\ \A t \in Servers \ {s} : client'[t] = client[t] /\ server'[t] = server[t]
    BY <1>3, <2>3, <2>5, <2>6
  <2> QED
    BY <1>1, <1>2, <1>3, <1>4, <1>5, <2>3, <2>4, <2>5, <2>6, <2>7, <2>8, QueryGoesOn
<1>8. CASE Operates
  <2>1. PICK b : b = [a EXCEPT !.inbox = Append(@, [kind |-> "request", id |-> c.id,
                                                    text |-> 0])]
    OBVIOUS
  <2>2. PICK d : d = [c EXCEPT !.id = c.id + 1]
    OBVIOUS
  <2>3. PICK at \in {"pull", "answer"} :
          /\ server' = [server EXCEPT ![s] = b] /\ client' = [client EXCEPT ![s] = d]
          /\ query' = [query EXCEPT !.at = at, !.id = c.id]
          /\ query.at = "operate" /\ taken' = taken /\ c.id <= MaxIds
    BY <1>2, <1>3, <1>8, <2>1, <2>2 DEF Operates, Sends
  <2>4. c # NoClient
    BY <1>1, <1>2, <2>3, AtWork
  <2>5. c.id + 1 \in 2..(MaxIds + 1)
    BY <1>4, <2>3, <2>4, LspAssumption DEF ClientStates
  <2>6. /\ d \in ClientStates /\ d.id = c.id + 1 /\ d.sent = c.sent /\ d # NoClient
    BY <1>3, <1>4, <2>2, <2>4, <2>5 DEF ClientStates, NoClient
  <2>7. b \in ServerStates /\ IdsBelow(b, d.id) /\ Arrives(b, d.sent) /\ About(b, c.id, d.sent)
    <3> DEFINE i == c.id
               x == c.sent
    <3>1. i \in Nat /\ IdsBelow(a, i) /\ Arrives(a, x) /\ a \in ServerStates
      BY <1>3, <1>4, <2>4
    <3>2. b = [a EXCEPT !.inbox = Append(@, [kind |-> "request", id |-> i, text |-> 0])]
      BY <2>1
    <3> HIDE DEF a, i, x
    <3>3. b \in ServerStates /\ IdsBelow(b, i + 1) /\ Arrives(b, x) /\ About(b, i, x)
      BY <3>1, <3>2, RequestSent
    <3> QED
      BY <2>6, <3>3 DEF i, x
  <2>8. /\ query' \in QueryStates /\ query'.at = at /\ query'.todo = query.todo
        /\ query'.round = query.round /\ query'.id = c.id
    <3>9. PICK was, q, i : was = query /\ q = query' /\ i = c.id
      OBVIOUS
    <3>1. /\ was \in QueryStates /\ i \in Nat /\ at \in QueryPlaces
          /\ q = [was EXCEPT !.at = at, !.id = i]
      BY <1>3, <1>4, <2>3, <2>4, <3>9 DEF QueryPlaces
    <3>2. q \in QueryStates /\ q.at = at /\ q.todo = was.todo /\ q.round = was.round /\ q.id = i
      <4>1. /\ was.pulls \in Nat
            /\ q = [at |-> at, op |-> was.op, todo |-> was.todo,
                    round |-> was.round, id |-> i, pulls |-> was.pulls]
        BY <3>1, QueryNumbered
      <4>2. was \in QueryStates /\ i \in Nat /\ at \in QueryPlaces
        BY <3>1
      <4> QED
        BY <4>1, <4>2, QueryStep
    <3> QED
      BY <3>2, <3>9
  <2>9. /\ server' \in [Servers -> ServerStates] /\ server'[s] = b /\ client'[s] = d
        /\ client' \in [Servers -> ClientStates \cup {NoClient}]
        /\ \A t \in Servers \ {s} : client'[t] = client[t] /\ server'[t] = server[t]
    BY <1>3, <2>3, <2>6, <2>7
  <2> QED
    BY <1>1, <1>2, <1>3, <1>4, <1>5, <2>3, <2>4, <2>6, <2>7, <2>8, <2>9, QueryGoesOn

<1>9. ASSUME Initialized \/ Answered \/ Pulled
      PROVE  \E b \in ServerStates :
               /\ server' = [server EXCEPT ![s] = b] /\ ServerKeeps(a, b)
               /\ Received = a.outbox[1] /\ 1 \in DOMAIN a.outbox
               /\ Received.kind = "answer" /\ Received.id = query.id
  <2>1. /\ a.outbox # <<>> /\ Received = Head(a.outbox)
        /\ Received.kind = "answer" /\ Received.id = query.id
        /\ server' = [server EXCEPT ![s] = [a EXCEPT !.outbox = Tail(@)]]
    BY <1>2, <1>3, <1>9 DEF Initialized, Answered, Pulled, Belongs, TakesAnswer, Received
  <2>2. a.outbox \in Seq(Messages)
    BY <1>3 DEF ServerStates
  <2>3. Received = a.outbox[1] /\ 1 \in DOMAIN a.outbox
    BY <2>1, <2>2, TailPositions
  <2>4. PICK b : b = [a EXCEPT !.outbox = Tail(@)]
    OBVIOUS
  <2>5. b \in ServerStates /\ ServerKeeps(a, b)
    <3> HIDE DEF a
    <3> QED
      BY <1>3, <2>1, <2>4, TakenKept
  <2> QED
    BY <2>1, <2>3, <2>4, <2>5
<1>10. CASE Initialized
  <2>1. PICK b \in ServerStates : server' = [server EXCEPT ![s] = b] /\ ServerKeeps(a, b)
    BY <1>9, <1>10
  <2>2. PICK d : d = [id |-> 2, sent |-> 0, registered |-> 0]
    OBVIOUS
  <2>3. /\ client' = [client EXCEPT ![s] = d] /\ query' = [query EXCEPT !.at = "open"]
        /\ query.at = "initialize" /\ taken' = taken
    BY <1>2, <1>10, <2>2 DEF Initialized, GoesTo
  <2>4. /\ query.round # 2 /\ s \notin broken /\ IdsBelow(a, 2) /\ Arrives(a, 0)
    BY <1>1, <1>2, <2>3, AtWork
  <2>5. /\ d \in ClientStates /\ d.id = 2 /\ d.sent = 0 /\ d # NoClient
    BY <2>2, LspAssumption DEF ClientStates, NoClient
  <2>6. IdsBelow(b, d.id) /\ Arrives(b, d.sent)
    BY <2>1, <2>4, <2>5 DEF ServerKeeps
  <2>7. /\ query' \in QueryStates /\ query'.at = "open" /\ query'.todo = query.todo
        /\ query'.round = query.round
    <3>9. PICK was, q : was = query /\ q = query'
      OBVIOUS
    <3>1. /\ was.pulls \in Nat /\ was.id \in Nat /\ was \in QueryStates
          /\ q = [at |-> "open", op |-> was.op, todo |-> was.todo,
                  round |-> was.round, id |-> was.id, pulls |-> was.pulls]
      BY <1>3, <2>3, <3>9 DEF QueryStates
    <3>2. "open" \in QueryPlaces
      BY DEF QueryPlaces
    <3>3. q \in QueryStates /\ q.at = "open" /\ q.todo = was.todo /\ q.round = was.round
      BY <3>1, <3>2, QueryStep
    <3> QED
      BY <3>3, <3>9
  <2>8. /\ server' \in [Servers -> ServerStates] /\ server'[s] = b /\ client'[s] = d
        /\ client' \in [Servers -> ClientStates \cup {NoClient}]
        /\ \A t \in Servers \ {s} : client'[t] = client[t] /\ server'[t] = server[t]
    BY <1>3, <2>1, <2>3, <2>5
  <2> QED
    BY <1>1, <1>2, <1>3, <1>5, <2>3, <2>4, <2>5, <2>6, <2>7, <2>8, QueryGoesOn
<1>11. CASE Answered \/ Pulled
  <2>1. PICK b \in ServerStates :
          /\ server' = [server EXCEPT ![s] = b] /\ ServerKeeps(a, b)
          /\ Received = a.outbox[1] /\ 1 \in DOMAIN a.outbox
          /\ Received.kind = "answer" /\ Received.id = query.id
    BY <1>9, <1>11
  <2>2. /\ query.at \in {"answer", "pull"} /\ client' = client
        /\ taken' = <<c.sent, Received.text>>
    BY <1>2, <1>11 DEF Answered, Pulled
  <2>3. c # NoClient /\ About(a, query.id, c.sent)
    BY <1>1, <1>2, <2>2, AtWork
  <2>4. Received.text = c.sent
    BY <2>1, <2>3 DEF About
  <2>5. taken'[1] = taken'[2]
    BY <2>2, <2>4
  <2>6. IdsBelow(b, c.id) /\ Arrives(b, c.sent)
    BY <1>4, <2>1, <2>3 DEF ServerKeeps
  <2>7. PICK at \in {"operate", "collect"}, n \in Nat :
          query' = [query EXCEPT !.at = at] \/ query' = [query EXCEPT !.at = at, !.pulls = n]
    <3>1. query.pulls + 1 \in Nat
      BY <1>3
    <3> QED
      BY <1>11, <3>1 DEF Answered, Pulled, PullEnds, GoesTo
  <2>8. /\ query' \in QueryStates /\ query'.at = at /\ query'.todo = query.todo
        /\ query'.round = query.round
    <3>9. PICK was, q : was = query /\ q = query'
      OBVIOUS
    <3>1. was \in QueryStates /\ at \in QueryPlaces
      BY <1>3, <3>9 DEF QueryPlaces
    <3>2. q = [was EXCEPT !.at = at] \/ q = [was EXCEPT !.at = at, !.pulls = n]
      BY <2>7, <3>9
    <3>3. PICK i \in Nat, m \in Nat :
            q = [at |-> at, op |-> was.op, todo |-> was.todo, round |-> was.round,
                 id |-> i, pulls |-> m]
      <4>1. was.id \in Nat /\ was.pulls \in Nat
        BY <3>1 DEF QueryStates
      <4>2. CASE q = [was EXCEPT !.at = at]
        <5>1. q = [at |-> at, op |-> was.op, todo |-> was.todo, round |-> was.round,
                    id |-> was.id, pulls |-> was.pulls]
          BY <3>1, <4>2 DEF QueryStates
        <5> QED
          BY <4>1, <5>1
      <4>3. CASE q = [was EXCEPT !.at = at, !.pulls = n]
        <5>1. q = [at |-> at, op |-> was.op, todo |-> was.todo, round |-> was.round,
                    id |-> was.id, pulls |-> n]
          BY <3>1, <4>3 DEF QueryStates
        <5> QED
          BY <4>1, <5>1
      <4> QED
        BY <3>2, <4>2, <4>3
    <3>4. q \in QueryStates /\ q.at = at /\ q.todo = was.todo /\ q.round = was.round
      BY <3>1, <3>3, QueryStep
    <3> QED
      BY <3>4, <3>9
  <2>9. /\ server' \in [Servers -> ServerStates] /\ server'[s] = b /\ client'[s] = c
        /\ client' \in [Servers -> ClientStates \cup {NoClient}]
        /\ \A t \in Servers \ {s} : client'[t] = client[t] /\ server'[t] = server[t]
    BY <1>3, <2>1, <2>2
  <2> QED
    BY <1>1, <1>2, <1>3, <1>4, <1>5, <2>2, <2>3, <2>5, <2>6, <2>7, <2>8, <2>9, QueryGoesOn
<1> QED
  BY <1>6, <1>7, <1>8, <1>10, <1>11

LEMMA Asked ==
  ASSUME LspInv, NEW op \in Operations, Asks(op) PROVE LspInv'
<1>1. PICK selected \in Selections :
        query' = [at |-> "connect", op |-> op, todo |-> selected, round |-> 1,
                  id |-> 0, pulls |-> 0]
  BY DEF Asks
<1>2. query = NoQuery /\ query.at = "none" /\ UNCHANGED <<edit, client, broken, server, taken>>
  BY DEF Asks, NoQuery
<1>3. selected \in Seq(Servers) \ {<<>>}
  BY LspAssumption
<1>4. query' \in QueryStates /\ query'.at = "connect" /\ query'.round = 1
  BY <1>1, <1>3 DEF QueryStates
<1>5. PoolTyped'
  BY <1>2, <1>4 DEF LspInv, PoolTyped
<1>6. \A s \in Servers : server[s].alive => Connected(s)
  BY <1>2 DEF LspInv, PoolSound
<1>7. (\A s \in Servers : Connected(s)' <=> Connected(s))
  BY <1>2 DEF Connected
<1>8. PoolSound'
  BY <1>2, <1>6, <1>7 DEF LspInv, PoolSound
<1>9. ServersSound' /\ QuerySound' /\ AnswerSound' /\ TakenSound'
  BY <1>2, <1>4, <1>7 DEF LspInv, ServersSound, QuerySound, AnswerSound, TakenSound
<1> QED
  BY <1>5, <1>8, <1>9 DEF LspInv

LEMMA ShutDown ==
  ASSUME LspInv, ShutsDown PROVE LspInv'
<1>1. /\ query = NoQuery /\ query.at = "none" /\ query' = query /\ taken' = taken
      /\ edit' = edit /\ broken' = {}
      /\ client' = [s \in Servers |-> NoClient] /\ server' = [s \in Servers |-> NoServer]
  BY DEF ShutsDown, NoQuery
<1>2. NoServer \in ServerStates /\ ~NoServer.alive
  BY FreshServer
<1>3. PoolTyped'
  BY <1>1, <1>2 DEF LspInv, PoolTyped
<1>4. \A s \in Servers : ~Connected(s)' /\ ~server'[s].alive
  BY <1>1, <1>2 DEF Connected
<1>5. PoolSound' /\ ServersSound' /\ QuerySound' /\ AnswerSound'
  BY <1>1, <1>4 DEF PoolSound, ServersSound, QuerySound, AnswerSound
<1>6. TakenSound'
  BY <1>1 DEF LspInv, TakenSound
<1> QED
  BY <1>3, <1>5, <1>6 DEF LspInv

LEMMA LspSteps ==
  ASSUME LspInv, [LspNext]_lspVars PROVE LspInv'
<1>1. /\ edit \in 1..MaxEdits /\ edit \in Nat /\ broken \subseteq Servers
      /\ client \in [Servers -> ClientStates \cup {NoClient}]
      /\ server \in [Servers -> ServerStates]
  BY LspAssumption DEF LspInv, PoolTyped, ClientStates
<1>2. ASSUME edit' \in 1..MaxEdits, broken' \subseteq broken,
             UNCHANGED <<client, server, query, taken>>
      PROVE  LspInv'
  BY <1>1, <1>2, NothingHappens, WorldMoves
<1>3. CASE Edits
  BY <1>1, <1>2, <1>3, LspAssumption DEF Edits
<1>4. CASE \E s \in Servers : CooldownEnds(s)
  BY <1>1, <1>2, <1>4 DEF CooldownEnds
<1>5. CASE UNCHANGED lspVars
  BY <1>1, <1>2, <1>5 DEF lspVars
<1>6. CASE \E s \in Servers :
             ServerReads(s) \/ ServerAnswers(s) \/ ServerPushes(s) \/ ServerDies(s)
  BY <1>6, ServersStep
<1>7. CASE \E op \in Operations : Asks(op)
  BY <1>7, Asked
<1>8. CASE \/ RefusesBroken \/ StartFails \/ InitializeFails \/ OpenFails \/ OperationFails
           \/ Collected
  BY <1>8, QueriesEnd
<1>9. CASE FindsClient \/ OnlyOpens \/ PullFails
  BY <1>9, QueryWalks
<1>10. CASE StartsClient \/ OpensText \/ Operates \/ Initialized \/ Answered \/ Pulled
  BY <1>10, QueryTalks
<1>11. CASE Handles
  BY <1>11, Handled
<1>12. CASE ShutsDown
  BY <1>12, ShutDown
<1> QED
  BY <1>3, <1>4, <1>5, <1>6, <1>7, <1>8, <1>9, <1>10, <1>11, <1>12 DEF LspNext

THEOREM LspInvHolds == LspSpec => []LspInv
<1>1. LspInit => LspInv
  BY LspStarts
<1>2. LspInv /\ [LspNext]_lspVars => LspInv'
  BY LspSteps
<1> QED
  BY <1>1, <1>2, PTL DEF LspSpec

\* The pool of language servers has its type.
THEOREM LspTypeCorrect == LspSpec => []LspTypeOK
<1>1. ASSUME LspInv PROVE LspTypeOK
  <2>1. ASSUME NEW s \in Servers
        PROVE  /\ server[s].alive \in BOOLEAN /\ server[s].text \in 0..MaxEdits
               /\ Connected(s) => /\ client[s].id \in 2..(MaxIds + 1)
                                  /\ client[s].sent \in 0..MaxEdits
    BY <1>1, AServer DEF ServerStates, ClientStates, Connected
  <2>2. query # NoQuery => query.op \in Operations /\ query.todo # <<>>
    BY <1>1 DEF LspInv, PoolTyped, QueryStates
  <2> QED
    BY <1>1, <2>1, <2>2 DEF LspTypeOK, LspInv, PoolTyped
<1> QED
  BY <1>1, LspInvHolds, PTL

\* run_lsp_operation, handle_message, client_for: for every set of servers, an
\* answer that is taken is about the text its connection was sent last, no client
\* of the pool is within its cooldown, and a process runs only for a client of the
\* pool or for the one being started.
THEOREM AnswersAreTheirs == LspSpec => []AnswersBelong
<1>1. ASSUME LspInv PROVE AnswersBelong
  BY <1>1 DEF LspInv, TakenSound, PoolSound, AnswersBelong
<1> QED
  BY <1>1, LspInvHolds, PTL
-----------------------------------------------------------------------------
(* The swarm kernel.                                                       *)

SwarmTyped ==
  /\ SwarmTypeOK
  /\ child = [program |-> child.program, in |-> child.in, out |-> child.out, held |-> child.held,
              code |-> child.code]

LEMMA BodiesAre == Failure \in Bodies /\ PlainBody \in Bodies
  BY DEF Failure, PlainBody, Bodies, Statuses

LEMMA RecordsTyped ==
  ASSUME SwarmTyped, NEW r \in Bodies, Records(r)
  PROVE  SwarmTyped'
<1>1. \A id \in DOMAIN results' : results'[id] \in Bodies
  BY DEF Records, SwarmTyped, SwarmTypeOK
<1>2. child' = NoChild /\ sent' = 0 /\ swarmAt' = "dispatch" /\ UNCHANGED <<swarmTask, verdict>>
  BY DEF Records
<1> QED
  BY <1>1, <1>2, SwarmAssumption DEF NoChild, SwarmTyped, SwarmTypeOK

LEMMA ChildTyped ==
  ASSUME SwarmTyped, ChildReads \/ ChildWrites \/ ChildLeaves \/ ChildEnds PROVE SwarmTyped'
<1>1. UNCHANGED <<swarmTask, swarmAt, results, sent, verdict>>
  BY DEF ChildReads, ChildWrites, ChildLeaves, ChildEnds
<1>2. PICK p, i, o, h, c : child = [program |-> p, in |-> i, out |-> o, held |-> h, code |-> c]
  BY DEF SwarmTyped
<1>3. i \in 0..Pipe /\ o \in 0..Pipe /\ h \in BOOLEAN
  BY <1>2 DEF SwarmTyped, SwarmTypeOK
<1>4. /\ child' = [program |-> child'.program, in |-> child'.in, out |-> child'.out, held |-> child'.held,
                  code |-> child'.code]
      /\ child'.in \in 0..Pipe /\ child'.out \in 0..Pipe /\ child'.held \in BOOLEAN
  <2>1. CASE ChildReads
    <3>1. CASE i > 0
      <4>1. child' = [program |-> p, in |-> i - 1, out |-> o, held |-> h, code |-> c]
        BY <1>2, <2>1, <3>1 DEF ChildReads
      <4>2. i - 1 \in 0..Pipe
        BY <3>1, <1>3, SwarmAssumption
      <4> QED
        BY <4>1, <4>2, <1>3
    <3>2. CASE ~(i > 0)
      <4>1. child' = [program |-> Tail(p), in |-> i, out |-> o, held |-> h, code |-> c]
        BY <1>2, <2>1, <3>2 DEF ChildReads
      <4> QED
        BY <4>1, <1>3
    <3> QED
      BY <3>1, <3>2
  <2>2. CASE ChildWrites
    <3>1. child' = [program |-> Tail(p), in |-> i, out |-> o + 1, held |-> h, code |-> c] /\ o < Pipe
      BY <1>2, <2>2 DEF ChildWrites
    <3>2. o + 1 \in 0..Pipe
      BY <3>1, <1>3, SwarmAssumption
    <3> QED
      BY <3>1, <3>2, <1>3
  <2>3. CASE ChildEnds
    <3>1. PICK e : child' = [program |-> p, in |-> i, out |-> o, held |-> h, code |-> e]
      BY <1>2, <2>3 DEF ChildEnds
    <3> QED
      BY <3>1, <1>3
  <2>4. CASE ChildLeaves
    <3>1. child' = [program |-> Tail(p), in |-> i, out |-> o, held |-> TRUE, code |-> c]
      BY <1>2, <2>4 DEF ChildLeaves
    <3> QED
      BY <3>1, <1>3
  <2> QED
    BY <2>1, <2>2, <2>3, <2>4
<1> QED
  BY <1>1, <1>4 DEF SwarmTyped, SwarmTypeOK

LEMMA WriteTyped ==
  ASSUME SwarmTyped, WritesPayload PROVE SwarmTyped'
<1>1. CASE sent < Payload /\ Open /\ child.in < Pipe /\ sent' = sent + 1
           /\ child' = [child EXCEPT !.in = @ + 1]
           /\ UNCHANGED <<swarmTask, swarmAt, pending, results, verdict, warnings, spent>>
  <2>1. PICK p, i, o, h, c : child = [program |-> p, in |-> i, out |-> o, held |-> h, code |-> c]
    BY DEF SwarmTyped
  <2>2. child' = [program |-> p, in |-> i + 1, out |-> o, held |-> h, code |-> c]
    BY <1>1, <2>1
  <2>3. i + 1 \in 0..Pipe /\ o \in 0..Pipe /\ h \in BOOLEAN /\ sent + 1 \in 0..Payload
    BY <1>1, <2>1, SwarmAssumption DEF SwarmTyped, SwarmTypeOK
  <2> QED
    BY <1>1, <2>2, <2>3 DEF SwarmTyped, SwarmTypeOK
<1>2. CASE Records(Failure)
  BY <1>2, BodiesAre, RecordsTyped
<1>3. CASE swarmAt' = "wait" /\ UNCHANGED <<swarmTask, pending, results, child, sent, verdict, warnings, spent>>
  BY <1>3 DEF SwarmTyped, SwarmTypeOK
<1> QED
  BY <1>1, <1>2, <1>3 DEF WritesPayload

LEMMA SwarmNextTyped == ASSUME SwarmTyped, [SwarmNext]_swarmVars PROVE SwarmTyped'
<1>1. ASSUME NEW r \in Bodies \cup {Failure, PlainBody}, Records(r) PROVE SwarmTyped'
  BY <1>1, BodiesAre, RecordsTyped
<1>2. CASE RefusesRunner \/ RunsFunction \/ RunsRequest \/ CannotSpawn \/ TimesOutChild \/ ReadsOutput
  <2>1. \E r \in Bodies \cup {Failure, PlainBody} : Records(r)
    BY <1>2 DEF RefusesRunner, RunsFunction, RunsRequest, CannotSpawn, TimesOutChild, ReadsOutput
  <2> QED
    BY <1>1, <2>1
<1>3. CASE ResolvesRunners
  BY <1>3 DEF ResolvesRunners, SwarmTyped, SwarmTypeOK, Statuses
<1>4. CASE SpawnsChild
  <2>1. /\ child' = [program |-> child'.program, in |-> child'.in, out |-> child'.out,
                    held |-> child'.held, code |-> child'.code]
        /\ child'.in = 0 /\ child'.out = 0 /\ sent' = 0
    BY <1>4 DEF SpawnsChild, NoChild
  <2>2. child'.held \in BOOLEAN
    BY <1>4 DEF SpawnsChild, NoChild
  <2>3. 0 \in 0..Pipe /\ 0 \in 0..Payload
    BY SwarmAssumption
  <2>4. swarmAt' = "stdin" /\ UNCHANGED <<swarmTask, results, verdict>>
    BY <1>4 DEF SpawnsChild
  <2> QED
    BY <2>1, <2>2, <2>3, <2>4 DEF SwarmTyped, SwarmTypeOK
<1>5. CASE Aggregates
  <2>1. StatusOf(results) \in Statuses
    BY DEF StatusOf, Statuses
  <2> QED
    BY <1>5, <2>1 DEF Aggregates, SwarmTyped, SwarmTypeOK
<1>6. CASE UNCHANGED swarmVars
  BY <1>6 DEF swarmVars, SwarmTyped, SwarmTypeOK
<1> QED
  BY <1>2, <1>3, <1>4, <1>5, <1>6, WriteTyped, ChildTyped DEF SwarmNext

\* Every result is a body, and neither pipe nor payload is overrun.
THEOREM SwarmTypeCorrect == SwarmSpec => []SwarmTypeOK
<1>1. SwarmInit => SwarmTyped
  BY SwarmAssumption DEF SwarmInit, SwarmTyped, SwarmTypeOK, NoChild
<1>2. SwarmTyped => SwarmTypeOK
  BY DEF SwarmTyped
<1> QED
  BY <1>1, <1>2, SwarmNextTyped, PTL DEF SwarmSpec

(* What results have used, as a sum of numbers.                            *)
Tokens(given) == [id \in DOMAIN given |-> given[id].tokens]
Counts(given) == Countable(Tokens(given), DOMAIN given)

LEMMA UsageIs ==
  ASSUME NEW given
  PROVE  Usage(given) = SumOver(Tokens(given), DOMAIN given)
<1> DEFINE S == DOMAIN given
           of == Tokens(given)
           Used(h) == h = [s \in SUBSET S |->
                             IF s = {} THEN 0
                             ELSE given[CHOOSE x \in s : TRUE].tokens
                                    + h[s \ {CHOOSE x \in s : TRUE}]]
<1>1. Usage(given) = (CHOOSE h : Used(h))[S]
  BY DEF Usage, MapThenSumSet, MapThenFoldSet
<1>2. ASSUME NEW h PROVE Used(h) <=> Summed(of, S, h)
  <2>1. \A s \in SUBSET S : s # {} =>
          of[CHOOSE x \in s : TRUE] = given[CHOOSE x \in s : TRUE].tokens
    <3> SUFFICES ASSUME NEW s \in SUBSET S, s # {}
                 PROVE  of[CHOOSE x \in s : TRUE] = given[CHOOSE x \in s : TRUE].tokens
      OBVIOUS
    <3>1. PICK x \in s : x = CHOOSE y \in s : TRUE
      OBVIOUS
    <3> QED
      BY <3>1 DEF Tokens
  <2> HIDE DEF of
  <2> QED
    BY <2>1 DEF Summed
<1> HIDE DEF Used
<1>3. (CHOOSE h : Used(h)) = CHOOSE h : Summed(of, S, h)
  BY <1>2
<1> QED
  BY <1>1, <1>3 DEF SumOver

(* A result of a runner that had none adds its tokens.                     *)
LEMMA UsageGrows ==
  ASSUME NEW given, Counts(given), NEW id, id \notin DOMAIN given,
         NEW next, DOMAIN next = DOMAIN given \cup {id}, next[id].tokens \in Int,
         \A x \in DOMAIN given : next[x] = given[x]
  PROVE  Usage(next) = Usage(given) + next[id].tokens /\ Usage(given) \in Int
<1> DEFINE D == DOMAIN given
           E == DOMAIN next
           of == Tokens(given)
           all == Tokens(next)
<1>1. /\ \A x \in D : of[x] \in Int /\ all[x] = of[x]
      /\ all[id] = next[id].tokens /\ IsFiniteSet(D) /\ Countable(of, D)
  BY DEF Counts, Countable, Tokens
<1>2. E \ {id} = D /\ id \in E /\ E = D \cup {id}
  OBVIOUS
<1>3. Usage(given) = SumOver(of, D) /\ Usage(next) = SumOver(all, E)
  BY UsageIs
<1> HIDE DEF D, E, of, all
<1>4. IsFiniteSet(E)
  BY <1>1, <1>2, FS_AddElement
<1>5. Countable(all, E)
  BY <1>1, <1>2, <1>4 DEF Countable
<1>6. SumOver(all, E) = all[id] + SumOver(all, E \ {id})
  BY <1>2, <1>5, SumLess
<1>7. SumOver(all, D) = SumOver(of, D)
  BY <1>1, SumSame
<1>8. SumOver(of, D) \in Int
  BY <1>1, SumInt
<1>9. SumOver(all, E) = all[id] + SumOver(of, D)
  BY <1>2, <1>6, <1>7
<1> QED
  BY <1>1, <1>3, <1>8, <1>9

LEMMA NothingUsed ==
  ASSUME NEW given, DOMAIN given = {}
  PROVE  Usage(given) = 0
  BY UsageIs, SumEmpty

(* The runners of the task, and how many of them the budget lets run.      *)
RunnersOf == Resolved(swarmTask)
Taking == Min({Len(RunnersOf), WorkersMax})

(* The first k runners have run, and only they; the rest is to come.       *)
RanFirst(k) ==
  /\ pending = SubSeq(RunnersOf, k + 1, Taking)
  /\ DOMAIN results = {RunnersOf[i] : i \in 1..k}

Underway == swarmAt \in {"dispatch", "stdin", "wait"}

BeforeRuns == swarmAt = "resolve" =>
                pending = <<>> /\ DOMAIN results = {} /\ spent = 0 /\ verdict = "running"

RunsInTurn == Underway =>
  /\ verdict = "running" /\ \E k \in 0..Taking : RanFirst(k)
  /\ swarmAt # "dispatch" => pending # <<>>
  /\ Taking < Len(RunnersOf) => "truncated" \in warnings
  /\ IsInjective(swarmTask.runners) => spent = Usage(results)

SwarmInv == BeforeRuns /\ RunsInTurn /\ SwarmSpeaksForAll

LEMMA AtMostIs ==
  ASSUME NEW a \in Nat, NEW b \in Nat, a <= b, ~(a < b) PROVE a = b
  OBVIOUS

LEMMA SmallerOfTwo ==
  ASSUME NEW a \in Nat, NEW b \in Nat
  PROVE  Min({a, b}) \in Nat /\ Min({a, b}) <= a /\ Min({a, b}) \in {a, b}
<1>1. \E x \in {a, b} : \A y \in {a, b} : x <= y
  <2>1. CASE a <= b
    BY <2>1
  <2>2. CASE ~(a <= b)
    BY <2>2
  <2> QED
    BY <2>1, <2>2
<1>2. Min({a, b}) \in {a, b} /\ \A y \in {a, b} : Min({a, b}) <= y
  BY <1>1 DEF Min
<1> QED
  BY <1>2

LEMMA ListOfSet ==
  ASSUME NEW S, IsFiniteSet(S)
  PROVE  SetToSeq(S) \in [1..Cardinality(S) -> S] /\ IsInjective(SetToSeq(S))
<1>1. PICK f : f \in Bijection(1..Cardinality(S), S)
  BY FS_CardinalityType DEF ExistsBijection
<1>2. f \in [1..Cardinality(S) -> S] /\ IsInjective(f)
  BY <1>1 DEF Bijection, Injection
<1> QED
  BY <1>2 DEF SetToSeq

LEMMA RunnersAre ==
  ASSUME SwarmTyped
  PROVE  /\ RunnersOf \in Seq(ToSet(RunnersOf))
         /\ IsInjective(swarmTask.runners) => IsInjective(RunnersOf)
         /\ Taking \in Nat /\ Taking <= Len(RunnersOf)
<1>1. swarmTask \in SwarmTasks
  BY DEF SwarmTyped, SwarmTypeOK
<1>2. RunnersOf \in Seq(ToSet(RunnersOf)) /\ (IsInjective(swarmTask.runners) => IsInjective(RunnersOf))
  <2>1. CASE swarmTask.runners # <<>>
    BY <1>1, <2>1, RunnersAssumption DEF RunnersOf, Resolved
  <2>2. CASE swarmTask.runners = <<>>
    <3> DEFINE S == {id \in DOMAIN Registry : HasRole(id, swarmTask.role)}
    <3>1. IsFiniteSet(S) /\ Cardinality(S) \in Nat
      BY FS_Subset, FS_CardinalityType, RunnersAssumption
    <3>2. RunnersOf = SetToSeq(S)
      BY <2>2 DEF RunnersOf, Resolved
    <3>3. RunnersOf \in [1..Cardinality(S) -> S] /\ IsInjective(RunnersOf)
      BY <3>1, <3>2, ListOfSet
    <3>4. RunnersOf \in [1..Cardinality(S) -> ToSet(RunnersOf)]
      BY <3>3 DEF ToSet
    <3> HIDE DEF S
    <3>5. RunnersOf \in Seq(ToSet(RunnersOf))
      BY <3>1, <3>4, IsASeq
    <3> QED
      BY <3>3, <3>5
  <2> QED
    BY <2>1, <2>2
<1>3. Len(RunnersOf) \in Nat
  BY <1>2, LenProperties
<1>4. Taking \in Nat /\ Taking <= Len(RunnersOf)
  BY <1>3, SmallerOfTwo, SwarmAssumption DEF Taking
<1> QED
  BY <1>2, <1>4

LEMMA ResultsCount ==
  ASSUME SwarmTyped, NEW k \in Nat, RanFirst(k)
  PROVE  Counts(results)
<1>1. IsFiniteSet(1..k)
  BY UpTo
<1>2. IsFiniteSet({RunnersOf[i] : i \in 1..k})
  <2> DEFINE T == {RunnersOf[i] : i \in 1..k}
             f == [i \in 1..k |-> RunnersOf[i]]
  <2>1. f \in Surjection(1..k, T)
    BY DEF Surjection
  <2> HIDE DEF f, T
  <2>2. IsFiniteSet(T)
    BY <1>1, <2>1, FS_Surjection
  <2> QED
    BY <2>2 DEF T
<1>3. \A x \in DOMAIN results : results[x].tokens \in Int
  BY DEF SwarmTyped, SwarmTypeOK, Bodies
<1> QED
  BY <1>2, <1>3 DEF Counts, Countable, Tokens, RanFirst

(* The runner at the head is the next one in turn.                         *)
LEMMA NextInTurn ==
  ASSUME SwarmTyped, NEW k \in 0..Taking, RanFirst(k)
  PROVE  /\ k = Taking <=> pending = <<>>
         /\ k < Taking => /\ Current = RunnersOf[k + 1]
                          /\ Tail(pending) = SubSeq(RunnersOf, k + 2, Taking)
<1>1. RunnersOf \in Seq(ToSet(RunnersOf)) /\ Taking \in Nat /\ Taking <= Len(RunnersOf)
      /\ Len(RunnersOf) \in Nat /\ \A i \in 1..Len(RunnersOf) : RunnersOf[i] \in ToSet(RunnersOf)
  BY RunnersAre, LenProperties, ElementOfSeq
<1>2. CASE k = Taking
  <2>1. SubSeq(RunnersOf, k + 1, Taking) = <<>>
    BY <1>1, <1>2, SubSeqEmpty
  <2> QED
    BY <1>1, <1>2, <2>1 DEF RanFirst
<1>3. CASE k < Taking
  <2>1. k + 1 \in 1..Len(RunnersOf) /\ Taking \in k + 1..Len(RunnersOf) /\ (k + 1) + 1 = k + 2
    BY <1>1, <1>3
  <2>2. /\ Head(SubSeq(RunnersOf, k + 1, Taking)) = RunnersOf[k + 1]
        /\ Tail(SubSeq(RunnersOf, k + 1, Taking)) = SubSeq(RunnersOf, k + 2, Taking)
    BY <1>1, <2>1, HeadTailOfSubSeq
  <2>3. Len(SubSeq(RunnersOf, k + 1, Taking)) = Taking - (k + 1) + 1
    <3>1. \A i \in k + 1..Taking : RunnersOf[i] \in ToSet(RunnersOf)
      BY <1>1, <2>1
    <3> QED
      BY <1>1, <2>1, <3>1, SubSeqProperties
  <2>4. pending # <<>>
    BY <1>1, <1>3, <2>1, <2>3 DEF RanFirst
  <2>5. Current = RunnersOf[k + 1] /\ Tail(pending) = SubSeq(RunnersOf, k + 2, Taking)
    BY <2>1, <2>2 DEF RanFirst, Current
  <2>6. k # Taking
    BY <1>1, <1>3
  <2> QED
    BY <2>4, <2>5, <2>6
<1> QED
  BY <1>1, <1>2, <1>3

LEMMA RecordsInTurn ==
  ASSUME SwarmTyped, Underway, RunsInTurn, pending # <<>>, NEW r \in Bodies, Records(r)
  PROVE  SwarmInv'
<1>1. /\ results' = [id \in DOMAIN results \cup {Current} |-> IF id = Current THEN r ELSE results[id]]
      /\ spent' = spent + r.tokens
      /\ pending' = Tail(pending) /\ swarmAt' = "dispatch" /\ UNCHANGED <<swarmTask, verdict, warnings>>
  BY DEF Records
<1>2. PICK k \in 0..Taking : RanFirst(k)
  BY DEF RunsInTurn
<1>3. Taking \in Nat /\ k \in Nat /\ k < Taking /\ k + 1 \in 0..Taking
  <2>1. Taking \in Nat
    BY RunnersAre
  <2>2. k # Taking
    BY <1>2, NextInTurn
  <2> QED
    BY <2>1, <2>2
<1>4. Current = RunnersOf[k + 1] /\ Tail(pending) = SubSeq(RunnersOf, k + 2, Taking)
  BY <1>2, <1>3, NextInTurn
<1>5. RunnersOf' = RunnersOf /\ Taking' = Taking
  BY <1>1 DEF RunnersOf, Taking, Resolved
<1>6. DOMAIN results' = DOMAIN results \cup {Current}
  BY <1>1
<1>7. DOMAIN results' = {RunnersOf[i] : i \in 1..(k + 1)}
  <2>1. DOMAIN results = {RunnersOf[i] : i \in 1..k}
    BY <1>2 DEF RanFirst
  <2>2. 1..(k + 1) = 1..k \cup {k + 1}
    BY <1>3
  <2> QED
    BY <1>4, <1>6, <2>1, <2>2
<1>8. RanFirst(k + 1)'
  <2>1. (k + 1) + 1 = k + 2
    BY <1>3
  <2> QED
    BY <1>1, <1>4, <1>5, <1>7, <2>1 DEF RanFirst
<1>9. IsInjective(swarmTask.runners) => spent' = Usage(results')
  <2> SUFFICES ASSUME IsInjective(swarmTask.runners) PROVE spent' = Usage(results')
    OBVIOUS
  <2>1. Current \notin DOMAIN results
    <3>1. IsInjective(RunnersOf) /\ RunnersOf \in Seq(ToSet(RunnersOf)) /\ Taking <= Len(RunnersOf)
      BY RunnersAre
    <3>2. Len(RunnersOf) \in Nat /\ DOMAIN RunnersOf = 1..Len(RunnersOf)
      BY <3>1, LenProperties
    <3>3. \A i \in 1..k : RunnersOf[i] # RunnersOf[k + 1]
      <4>1. \A i \in 1..k : i \in DOMAIN RunnersOf /\ k + 1 \in DOMAIN RunnersOf /\ i # k + 1
        BY <1>3, <3>1, <3>2
      <4> QED
        BY <3>1, <4>1 DEF IsInjective
    <3> QED
      BY <1>2, <1>4, <3>3 DEF RanFirst
  <2>2. Counts(results)
    BY <1>2, <1>3, ResultsCount
  <2>3. r.tokens \in Int
    BY DEF Bodies
  <2>4. results'[Current] = r /\ \A x \in DOMAIN results : results'[x] = results[x]
    BY <1>1, <2>1
  <2>5. Usage(results') = Usage(results) + r.tokens
    <3> DEFINE next == results'
               id == Current
    <3>1. DOMAIN next = DOMAIN results \cup {id} /\ id \notin DOMAIN results
          /\ next[id] = r /\ \A x \in DOMAIN results : next[x] = results[x]
      BY <1>6, <2>1, <2>4
    <3> HIDE DEF next, id
    <3>2. next[id].tokens \in Int
      BY <2>3, <3>1
    <3>3. Usage(next) = Usage(results) + next[id].tokens
      BY <2>2, <3>1, <3>2, UsageGrows
    <3>4. Usage(next) = Usage(results) + r.tokens
      BY <3>1, <3>3
    <3> QED
      BY <3>4 DEF next
  <2> QED
    BY <1>1, <2>5 DEF RunsInTurn
<1> QED
  <2>1. RunsInTurn'
    BY <1>1, <1>3, <1>5, <1>8, <1>9 DEF RunsInTurn, Underway
  <2>2. BeforeRuns' /\ SwarmSpeaksForAll'
    BY <1>1 DEF BeforeRuns, SwarmSpeaksForAll
  <2> QED
    BY <2>1, <2>2 DEF SwarmInv

LEMMA AggregatesAll ==
  ASSUME SwarmTyped, SwarmInv, Aggregates PROVE SwarmInv'
<1>1. /\ swarmAt = "dispatch" /\ pending = <<>> /\ swarmAt' = "done" /\ verdict' = StatusOf(results)
      /\ warnings' = warnings \cup (IF Usage(results) > TokensMax THEN {"tokens"} ELSE {})
      /\ UNCHANGED <<swarmTask, pending, results, child, sent, spent>>
  BY DEF Aggregates
<1>2. RunsInTurn /\ Underway
  BY <1>1 DEF SwarmInv, Underway
<1>3. PICK k \in 0..Taking : RanFirst(k)
  BY <1>2 DEF RunsInTurn
<1>4. Taking \in Nat /\ k = Taking
  BY <1>1, <1>3, NextInTurn, RunnersAre
<1>5. ASSUME IsInjective(swarmTask.runners), spent > TokensMax PROVE "tokens" \in warnings'
  BY <1>1, <1>2, <1>5 DEF RunsInTurn
<1>6. ASSUME verdict' = "completed", NEW id \in ToSet(RunnersOf)
      PROVE  (id \in DOMAIN results /\ results[id].status = "completed") \/ "truncated" \in warnings'
  <2>1. \A x \in DOMAIN results : results[x].status = "completed"
    <3>1. {results[x].status : x \in DOMAIN results} = {"completed"}
      BY <1>1, <1>6 DEF StatusOf
    <3> QED
      BY <3>1
  <2>2. CASE Taking < Len(RunnersOf)
    BY <1>1, <1>2, <2>2 DEF RunsInTurn
  <2>3. CASE ~(Taking < Len(RunnersOf))
    <3>1. DOMAIN RunnersOf = 1..Len(RunnersOf) /\ Len(RunnersOf) \in Nat
      BY RunnersAre, LenProperties
    <3>2. Taking = Len(RunnersOf)
      <4>1. Taking <= Len(RunnersOf)
        BY RunnersAre
      <4> QED
        BY <1>4, <2>3, <3>1, <4>1, AtMostIs
    <3>3. DOMAIN results = {RunnersOf[i] : i \in 1..Len(RunnersOf)}
      BY <1>3, <1>4, <3>2 DEF RanFirst
    <3>4. id \in DOMAIN results
      BY <3>1, <3>3 DEF ToSet
    <3> QED
      BY <2>1, <3>4
  <2> QED
    BY <2>2, <2>3
<1>7. SwarmSpeaksForAll'
  <2>1. spent' = spent /\ results' = results /\ swarmTask' = swarmTask /\ Resolved(swarmTask)' = RunnersOf
    BY <1>1 DEF RunnersOf, Resolved
  <2> QED
    BY <1>5, <1>6, <2>1 DEF SwarmSpeaksForAll
<1> QED
  BY <1>1, <1>7 DEF SwarmInv, BeforeRuns, RunsInTurn, Underway

LEMMA ResolvesInTurn ==
  ASSUME SwarmTyped, SwarmInv, ResolvesRunners PROVE SwarmInv'
<1>1. swarmAt = "resolve" /\ UNCHANGED <<swarmTask, results, child, sent, spent>>
  BY DEF ResolvesRunners
<1>2. pending = <<>> /\ DOMAIN results = {} /\ spent = 0 /\ verdict = "running"
  BY <1>1 DEF SwarmInv, BeforeRuns
<1>3. RunnersOf' = RunnersOf /\ Taking' = Taking /\ Taking \in Nat /\ Len(RunnersOf) \in Nat
  BY <1>1, RunnersAre, LenProperties DEF RunnersOf, Taking, Resolved
<1>4. CASE RunnersOf = <<>>
  <2>1. swarmAt' = "done" /\ verdict' = "failed"
    BY <1>4 DEF ResolvesRunners, RunnersOf
  <2>2. ~(spent' > TokensMax)
    BY <1>1, <1>2, SwarmAssumption
  <2> QED
    BY <2>1, <2>2 DEF SwarmInv, BeforeRuns, RunsInTurn, Underway, SwarmSpeaksForAll
<1>5. CASE RunnersOf # <<>>
  <2>1. /\ swarmAt' = "dispatch" /\ verdict' = verdict
        /\ pending' = SubSeq(RunnersOf, 1, Taking)
        /\ warnings' = IF Len(RunnersOf) > WorkersMax THEN {"truncated"} ELSE {}
    BY <1>5 DEF ResolvesRunners, RunnersOf, Taking
  <2>2. RanFirst(0)'
    <3>1. 1..0 = {} /\ 0 + 1 = 1
      OBVIOUS
    <3> QED
      BY <1>1, <1>2, <1>3, <2>1, <3>1 DEF RanFirst
  <2>3. Taking < Len(RunnersOf) => "truncated" \in warnings'
    <3>1. Taking \in {Len(RunnersOf), WorkersMax}
      BY <1>3, SmallerOfTwo, SwarmAssumption DEF Taking
    <3> QED
      BY <1>3, <2>1, <3>1, SwarmAssumption
  <2>4. spent' = Usage(results')
    BY <1>1, <1>2, NothingUsed
  <2>5. RunsInTurn'
    BY <1>2, <1>3, <2>1, <2>2, <2>3, <2>4 DEF RunsInTurn, Underway
  <2> QED
    BY <2>1, <2>5 DEF SwarmInv, BeforeRuns, SwarmSpeaksForAll
<1> QED
  BY <1>4, <1>5

LEMMA SwarmNextInv ==
  ASSUME SwarmTyped, SwarmInv, [SwarmNext]_swarmVars PROVE SwarmInv'
<1>1. ASSUME NEW r \in Bodies \cup {Failure, PlainBody}, Records(r), Underway, pending # <<>>
      PROVE  SwarmInv'
  <2>1. r \in Bodies
    BY <1>1, BodiesAre
  <2> QED
    BY <1>1, <2>1, RecordsInTurn DEF SwarmInv
<1>2. swarmAt \in {"stdin", "wait"} => Underway /\ pending # <<>>
  BY DEF SwarmInv, RunsInTurn, Underway
<1>3. ASSUME UNCHANGED <<swarmTask, pending, results, verdict, warnings, spent>>, Underway,
             swarmAt' \in {"dispatch", "stdin", "wait"}, swarmAt' # "dispatch" => pending # <<>>
      PROVE  SwarmInv'
  <2>1. RunnersOf' = RunnersOf /\ Taking' = Taking
    BY <1>3 DEF RunnersOf, Taking, Resolved
  <2>2. \A k : RanFirst(k)' <=> RanFirst(k)
    BY <1>3, <2>1 DEF RanFirst
  <2>3. RunsInTurn'
    BY <1>3, <2>1, <2>2 DEF SwarmInv, RunsInTurn, Underway
  <2> QED
    BY <1>3, <2>3 DEF SwarmInv, BeforeRuns, SwarmSpeaksForAll
<1>4. CASE RefusesRunner \/ RunsFunction \/ RunsRequest \/ CannotSpawn \/ TimesOutChild \/ ReadsOutput
  <2>1. \E r \in Bodies \cup {Failure, PlainBody} : Records(r)
    BY <1>4 DEF RefusesRunner, RunsFunction, RunsRequest, CannotSpawn, TimesOutChild, ReadsOutput
  <2>2. Underway /\ pending # <<>>
    BY <1>2, <1>4
    DEF RefusesRunner, RunsFunction, RunsRequest, CannotSpawn, TimesOutChild, ReadsOutput, Dispatches, Underway
  <2> QED
    BY <1>1, <2>1, <2>2
<1>5. CASE SpawnsChild
  <2>1. swarmAt = "dispatch" /\ pending # <<>>
    BY <1>5 DEF SpawnsChild, Dispatches
  <2>2. swarmAt' = "stdin" /\ UNCHANGED <<swarmTask, pending, results, verdict, warnings, spent>>
    BY <1>5 DEF SpawnsChild
  <2> QED
    BY <1>3, <2>1, <2>2 DEF Underway
<1>6. CASE WritesPayload
  <2>1. CASE Records(Failure)
    BY <1>1, <1>2, <1>6, <2>1 DEF WritesPayload
  <2>2. CASE swarmAt' \in {"stdin", "wait"} /\ UNCHANGED <<swarmTask, pending, results, verdict, warnings, spent>>
    BY <1>2, <1>3, <1>6, <2>2 DEF WritesPayload
  <2> QED
    BY <1>6, <2>1, <2>2 DEF WritesPayload
<1>7. CASE ChildReads \/ ChildWrites \/ ChildLeaves \/ ChildEnds \/ UNCHANGED swarmVars
  <2>1. UNCHANGED <<swarmTask, swarmAt, pending, results, verdict, warnings, spent>>
    BY <1>7 DEF ChildReads, ChildWrites, ChildLeaves, ChildEnds, swarmVars
  <2>2. CASE Underway
    <3>1. swarmAt' # "dispatch" => pending # <<>>
      BY <1>2, <2>1, <2>2 DEF Underway
    <3> QED
      BY <1>3, <2>1, <2>2, <3>1 DEF Underway
  <2>3. CASE ~Underway
    BY <2>1, <2>3 DEF SwarmInv, BeforeRuns, RunsInTurn, Underway, SwarmSpeaksForAll, Resolved
  <2> QED
    BY <2>2, <2>3
<1> QED
  BY <1>4, <1>5, <1>6, <1>7, ResolvesInTurn, AggregatesAll DEF SwarmNext

\* The answer of a task covers all its runs: what they cost beyond the budget is
\* warned of, and the task has completed only when every one of them has.
THEOREM AnswersSpeakForAll == SwarmSpec => []SwarmSpeaksForAll
<1> DEFINE Inv == SwarmTyped /\ SwarmInv
<1>1. SwarmInit => Inv
  <2> SUFFICES ASSUME SwarmInit PROVE Inv
    OBVIOUS
  <2>1. SwarmTyped
    BY SwarmAssumption DEF SwarmInit, SwarmTyped, SwarmTypeOK, NoChild
  <2>2. swarmAt = "resolve" /\ pending = <<>> /\ DOMAIN results = {} /\ spent = 0 /\ verdict = "running"
    BY DEF SwarmInit
  <2> QED
    BY <2>1, <2>2 DEF SwarmInv, BeforeRuns, RunsInTurn, Underway, SwarmSpeaksForAll
<1>2. Inv /\ [SwarmNext]_swarmVars => Inv'
  BY SwarmNextTyped, SwarmNextInv
<1>3. Inv => SwarmSpeaksForAll
  BY DEF SwarmInv
<1> QED
  BY <1>1, <1>2, <1>3, PTL DEF SwarmSpec

Program == Runner.program

(* While the payload is being written, a child that leaves nobody behind   *)
(* has only written.                                                       *)
OnlyWrote == swarmAt = "stdin" =>
  /\ Current \in DOMAIN Registry
  /\ ~Leaves(Program) =>
       /\ child.out \in 0..Len(Program)
       /\ \A j \in 1..child.out : Program[j] = "write"
       /\ child.program = SubSeq(Program, child.out + 1, Len(Program))

(* What a child still has to do is of its program, and only one that does  *)
(* so leaves somebody behind.                                              *)
DoesItsOwn == swarmAt \in {"stdin", "wait"} =>
  /\ Current \in DOMAIN Registry /\ child.program \in Seq(Deeds)
  /\ \A j \in 1..Len(child.program) : \E i \in 1..Len(Program) : child.program[j] = Program[i]
  /\ child.held => Leaves(Program)

LEMMA ProgramIs ==
  ASSUME Current \in DOMAIN Registry
  PROVE  /\ Program \in Seq(Deeds) /\ Len(Program) \in Nat
         /\ SubSeq(Program, 1, Len(Program)) = Program
         /\ \A n \in 0..Len(Program) :
              LET rest == SubSeq(Program, n + 1, Len(Program)) IN
              rest # <<>> => /\ n + 1 \in 1..Len(Program) /\ Head(rest) = Program[n + 1]
                             /\ Tail(rest) = SubSeq(Program, n + 2, Len(Program))
<1>1. Program \in Seq(Deeds) /\ Len(Program) \in Nat
  BY RunnersAssumption, LenProperties DEF Program, Runner
<1>2. SubSeq(Program, 1, Len(Program)) = Program
  BY <1>1, SubSeqFull
<1>3. ASSUME NEW n \in 0..Len(Program), SubSeq(Program, n + 1, Len(Program)) # <<>>
      PROVE  /\ n + 1 \in 1..Len(Program)
             /\ Head(SubSeq(Program, n + 1, Len(Program))) = Program[n + 1]
             /\ Tail(SubSeq(Program, n + 1, Len(Program))) = SubSeq(Program, n + 2, Len(Program))
  <2>1. ~(Len(Program) < n + 1)
    BY <1>1, <1>3, SubSeqEmpty
  <2>2. n + 1 \in 1..Len(Program) /\ Len(Program) \in n + 1..Len(Program) /\ (n + 1) + 1 = n + 2
    BY <1>1, <2>1
  <2> QED
    BY <1>1, <2>2, HeadTailOfSubSeq
<1> QED
  BY <1>1, <1>2, <1>3

LEMMA KernelGoesOn ==
  ASSUME \/ ResolvesRunners \/ RefusesRunner \/ RunsFunction \/ RunsRequest \/ CannotSpawn
         \/ TimesOutChild \/ ReadsOutput \/ Aggregates
  PROVE  swarmAt' \in {"dispatch", "done"}
<1>1. ResolvesRunners => swarmAt' \in {"dispatch", "done"}
  BY DEF ResolvesRunners
<1> QED
  BY <1>1 DEF RefusesRunner, RunsFunction, RunsRequest, CannotSpawn, TimesOutChild, ReadsOutput,
              Records, Aggregates

LEMMA WroteByChild ==
  ASSUME SwarmTyped, OnlyWrote, ChildReads \/ ChildWrites \/ ChildLeaves \/ ChildEnds
  PROVE  OnlyWrote'
<1>1. UNCHANGED <<swarmAt, pending>> /\ Program' = Program /\ Current' = Current
  BY DEF ChildReads, ChildWrites, ChildLeaves, ChildEnds, Program, Runner, Current
<1> SUFFICES ASSUME swarmAt = "stdin", ~Leaves(Program)
             PROVE  /\ child'.out \in 0..Len(Program)
                    /\ \A j \in 1..child'.out : Program[j] = "write"
                    /\ child'.program = SubSeq(Program, child'.out + 1, Len(Program))
  BY <1>1 DEF OnlyWrote
<1>2. /\ Current \in DOMAIN Registry /\ child.out \in 0..Len(Program)
      /\ \A j \in 1..child.out : Program[j] = "write"
      /\ child.program = SubSeq(Program, child.out + 1, Len(Program))
  BY DEF OnlyWrote
<1>3. PICK p, i, o, h, c : child = [program |-> p, in |-> i, out |-> o, held |-> h, code |-> c]
  BY DEF SwarmTyped
<1>4. CASE ChildReads \/ ChildEnds
  <2>1. child'.out = o /\ child'.program = p
    <3>1. CASE ChildReads
      <4>1. child' = [child EXCEPT !.in = @ - 1]
        BY <1>1, <3>1 DEF ChildReads
      <4> QED
        BY <1>3, <4>1
    <3>2. CASE ChildEnds
      BY <1>3, <3>2 DEF ChildEnds
    <3> QED
      BY <1>4, <3>1, <3>2
  <2> QED
    BY <1>2, <1>3, <2>1
<1>5. o \in 0..Len(Program) /\ p = SubSeq(Program, o + 1, Len(Program))
      /\ \A j \in 1..o : Program[j] = "write"
  BY <1>2, <1>3
<1>6. p # <<>> => /\ Len(Program) \in Nat /\ o + 1 \in 1..Len(Program) /\ Head(p) = Program[o + 1]
                  /\ Tail(p) = SubSeq(Program, o + 2, Len(Program))
  BY <1>2, <1>5, ProgramIs
<1>7. CASE ChildWrites
  <2>1. child' = [program |-> Tail(p), in |-> i, out |-> o + 1, held |-> h, code |-> c]
        /\ p # <<>> /\ Head(p) = "write"
    BY <1>3, <1>7 DEF ChildWrites
  <2>2. child'.out = o + 1 /\ child'.program = Tail(p)
    BY <2>1
  <2>5. \A j \in 1..(o + 1) : Program[j] = "write"
    <3>1. \A j \in 1..(o + 1) : j \in 1..o \/ j = o + 1
      BY <1>5, <1>6, <2>1
    <3> QED
      BY <2>1, <1>5, <1>6, <3>1
  <2>6. o + 1 \in 0..Len(Program) /\ (o + 1) + 1 = o + 2
    BY <1>5, <1>6, <2>1
  <2> QED
    BY <2>1, <2>2, <1>6, <2>5, <2>6
<1>8. CASE ChildLeaves
  <2>1. p # <<>> /\ Head(p) = "leave"
    BY <1>3, <1>8 DEF ChildLeaves
  <2> QED
    BY <1>6, <2>1 DEF Leaves
<1> QED
  BY <1>4, <1>7, <1>8

LEMMA OnlyWroteNext ==
  ASSUME SwarmTyped, OnlyWrote, [SwarmNext]_swarmVars PROVE OnlyWrote'
<1>1. CASE ChildReads \/ ChildWrites \/ ChildLeaves \/ ChildEnds
  BY <1>1, WroteByChild
<1>2. CASE SpawnsChild
  <2>1. pending' = pending /\ Current \in DOMAIN Registry /\ Program' = Program /\ Current' = Current
    BY <1>2 DEF SpawnsChild, Dispatches, Program, Runner, Current
  <2>2. child'.out = 0 /\ child'.program = Program
    BY <1>2 DEF SpawnsChild, NoChild, Program
  <2>3. 1..0 = {} /\ 0 + 1 = 1 /\ 0 \in 0..Len(Program) /\ SubSeq(Program, 1, Len(Program)) = Program
    BY <2>1, ProgramIs
  <2> QED
    BY <2>1, <2>2, <2>3 DEF OnlyWrote
<1>3. CASE WritesPayload
  <2>1. CASE /\ child' = [child EXCEPT !.in = @ + 1]
             /\ UNCHANGED <<swarmTask, swarmAt, pending, results, verdict, warnings, spent>>
    <3>1. PICK p, i, o, h, c : child = [program |-> p, in |-> i, out |-> o, held |-> h, code |-> c]
      BY DEF SwarmTyped
    <3>2. child'.out = child.out /\ child'.program = child.program
      BY <2>1, <3>1
    <3>3. Program' = Program /\ Current' = Current /\ swarmAt' = swarmAt
      BY <2>1 DEF Program, Runner, Current
    <3> QED
      BY <3>2, <3>3 DEF OnlyWrote
  <2>2. CASE swarmAt' \in {"dispatch", "wait"}
    BY <2>2 DEF OnlyWrote
  <2> QED
    BY <1>3, <2>1, <2>2 DEF WritesPayload, Records
<1>4. CASE UNCHANGED swarmVars
  BY <1>4 DEF swarmVars, OnlyWrote, Program, Runner, Current
<1>5. CASE swarmAt' \in {"dispatch", "done"}
  BY <1>5 DEF OnlyWrote
<1>6. CASE \/ ResolvesRunners \/ RefusesRunner \/ RunsFunction \/ RunsRequest \/ CannotSpawn
           \/ TimesOutChild \/ ReadsOutput \/ Aggregates
  BY <1>5, <1>6, KernelGoesOn
<1> QED
  BY <1>1, <1>2, <1>3, <1>4, <1>6 DEF SwarmNext

LEMMA DoesItsOwnNext ==
  ASSUME SwarmTyped, DoesItsOwn, [SwarmNext]_swarmVars PROVE DoesItsOwn'
<1>1. CASE ChildReads \/ ChildWrites \/ ChildLeaves \/ ChildEnds
  <2>1. UNCHANGED <<swarmAt, pending>> /\ Program' = Program /\ Current' = Current
    BY <1>1 DEF ChildReads, ChildWrites, ChildLeaves, ChildEnds, Program, Runner, Current
  <2> SUFFICES ASSUME swarmAt \in {"stdin", "wait"}
               PROVE  /\ child'.program \in Seq(Deeds)
                      /\ \A j \in 1..Len(child'.program) :
                           \E i \in 1..Len(Program) : child'.program[j] = Program[i]
                      /\ child'.held => Leaves(Program)
    BY <2>1 DEF DoesItsOwn
  <2>2. /\ child.program \in Seq(Deeds)
        /\ child.held => Leaves(Program)
        /\ \A j \in 1..Len(child.program) : \E i \in 1..Len(Program) : child.program[j] = Program[i]
    BY DEF DoesItsOwn
  <2>3. PICK p, i, o, h, c : child = [program |-> p, in |-> i, out |-> o, held |-> h, code |-> c]
    BY DEF SwarmTyped
  <2>4. /\ child'.program \in {p, Tail(p)} /\ (child'.program = Tail(p) /\ Tail(p) # p => p # <<>>)
        /\ child'.held => h \/ (p # <<>> /\ Head(p) = "leave")
    <3>1. CASE ChildReads
      <4>1. CASE i > 0
        BY <2>3, <3>1, <4>1 DEF ChildReads
      <4>2. CASE ~(i > 0)
        <5>1. child' = [program |-> Tail(p), in |-> i, out |-> o, held |-> h, code |-> c] /\ p # <<>>
          BY <2>3, <3>1, <4>2 DEF ChildReads
        <5> QED
          BY <5>1
      <4> QED
        BY <4>1, <4>2
    <3>2. CASE ChildWrites
      <4>1. child' = [program |-> Tail(p), in |-> i, out |-> o + 1, held |-> h, code |-> c] /\ p # <<>>
        BY <2>3, <3>2 DEF ChildWrites
      <4> QED
        BY <4>1
    <3>3. CASE ChildLeaves
      <4>1. child' = [program |-> Tail(p), in |-> i, out |-> o, held |-> TRUE, code |-> c]
            /\ p # <<>> /\ Head(p) = "leave"
        BY <2>3, <3>3 DEF ChildLeaves
      <4> QED
        BY <4>1
    <3>4. CASE ChildEnds
      BY <2>3, <3>4 DEF ChildEnds
    <3> QED
      BY <1>1, <3>1, <3>2, <3>3, <3>4
  <2>5. /\ p \in Seq(Deeds)
        /\ \A j \in 1..Len(p) : \E k \in 1..Len(Program) : p[j] = Program[k]
    BY <2>2, <2>3
  <2>6. ASSUME p # <<>>
        PROVE  /\ Len(p) \in Nat /\ 1 \in 1..Len(p) /\ Head(p) = p[1]
               /\ Tail(p) \in Seq(Deeds)
               /\ \A j \in 1..Len(Tail(p)) : j + 1 \in 1..Len(p) /\ Tail(p)[j] = p[j + 1]
    <3>1. Len(p) \in Nat /\ 1 \in 1..Len(p) /\ Head(p) = p[1]
      BY <2>5, <2>6, EmptySeq, LenProperties
    <3>2. Tail(p) \in Seq(Deeds) /\ Len(Tail(p)) = Len(p) - 1
          /\ \A j \in 1..Len(Tail(p)) : Tail(p)[j] = p[j + 1]
      <4>1. p \in Seq(Deeds)
        BY <2>5
      <4> QED
        BY <2>6, <4>1, HeadTailProperties
    <3> QED
      BY <3>1, <3>2
  <2>7. child'.held => Leaves(Program)
    <3>1. ASSUME p # <<>>, Head(p) = "leave" PROVE Leaves(Program)
      BY <3>1, <2>5, <2>6 DEF Leaves
    <3>2. h => child.held
      BY <2>3
    <3>3. child'.held => h \/ (p # <<>> /\ Head(p) = "leave")
      BY <2>4
    <3>4. child.held => Leaves(Program)
      BY <2>2
    <3> QED
      BY <3>1, <3>2, <3>3, <3>4, Zenon
  <2>8. child'.program = p \/ (child'.program = Tail(p) /\ p # <<>>)
    BY <2>4
  <2>9. CASE child'.program = p
    BY <2>5, <2>7, <2>9
  <2>10. CASE child'.program = Tail(p) /\ p # <<>>
    BY <2>5, <2>6, <2>7, <2>10
  <2> QED
    BY <2>8, <2>9, <2>10
<1>2. CASE SpawnsChild
  <2>1. pending' = pending /\ Current \in DOMAIN Registry /\ Program' = Program /\ Current' = Current
    BY <1>2 DEF SpawnsChild, Dispatches, Program, Runner, Current
  <2>2. child'.program = Program /\ child'.held = FALSE
    BY <1>2 DEF SpawnsChild, NoChild, Program
  <2>3. Program \in Seq(Deeds)
    BY <2>1, ProgramIs
  <2> QED
    BY <2>1, <2>2, <2>3 DEF DoesItsOwn
<1>3. CASE WritesPayload
  <2>1. CASE /\ UNCHANGED <<swarmTask, pending>>
             /\ child' \in {child, [child EXCEPT !.in = @ + 1]}
    <3>1. swarmAt = "stdin" /\ Program' = Program /\ Current' = Current
      BY <1>3, <2>1 DEF WritesPayload, Program, Runner, Current
    <3>2. child'.program = child.program /\ child'.held = child.held
      <4>1. PICK p, i, o, h, c : child = [program |-> p, in |-> i, out |-> o, held |-> h, code |-> c]
        BY DEF SwarmTyped
      <4> QED
        BY <2>1, <4>1
    <3> QED
      BY <3>1, <3>2 DEF DoesItsOwn
  <2>2. CASE swarmAt' = "dispatch"
    BY <2>2 DEF DoesItsOwn
  <2> QED
    BY <1>3, <2>1, <2>2 DEF WritesPayload, Records
<1>4. CASE UNCHANGED swarmVars
  BY <1>4 DEF swarmVars, DoesItsOwn, Program, Runner, Current
<1>5. CASE \/ ResolvesRunners \/ RefusesRunner \/ RunsFunction \/ RunsRequest \/ CannotSpawn
           \/ TimesOutChild \/ ReadsOutput \/ Aggregates
  <2>1. swarmAt' \in {"dispatch", "done"}
    BY <1>5, KernelGoesOn
  <2> QED
    BY <2>1 DEF DoesItsOwn
<1> QED
  BY <1>1, <1>2, <1>3, <1>4, <1>5 DEF SwarmNext

LEMMA StandstillIs ==
  ASSUME SwarmTyped, OnlyWrote, DoesItsOwn, Standstill PROVE Unbounded
<1>1. CASE swarmAt \in {"stdin", "wait"} /\ child.held
  BY <1>1 DEF DoesItsOwn, Unbounded, Program
<1>2. CASE swarmAt = "wait" /\ ~HasLimit
  BY <1>2 DEF HasLimit, Unbounded
<1>3. CASE swarmAt = "stdin" /\ Idles /\ ~Leaves(Program)
  <2>1. Pipe \in Nat /\ Pipe > 0
    BY SwarmAssumption, RunnersAssumption
  <2>2. child.program # <<>> /\ (Head(child.program) = "stay" \/ (Head(child.program) = "write" /\ child.out = Pipe))
    BY <1>3 DEF Idles
  <2>3. /\ Current \in DOMAIN Registry /\ child.out \in 0..Len(Program)
        /\ \A j \in 1..child.out : Program[j] = "write"
        /\ child.program = SubSeq(Program, child.out + 1, Len(Program))
    BY <1>3 DEF OnlyWrote
  <2>4. child.out + 1 \in 1..Len(Program) /\ Program[child.out + 1] = Head(child.program)
    BY <2>2, <2>3, ProgramIs
  <2>5. (child.out + 1) - 1 = child.out /\ (child.out = Pipe => child.out + 1 > Pipe)
    BY <2>1, <2>3
  <2>6. KeepsWaiting(Program)
    BY <2>2, <2>3, <2>4, <2>5 DEF KeepsWaiting
  <2> QED
    BY <2>6 DEF Unbounded, Program
<1>4. CASE Leaves(Program)
  BY <1>4 DEF Unbounded, Program
<1> QED
  BY <1>1, <1>2, <1>3, <1>4 DEF Standstill

\* A kernel that waits for ever has no limit to end the wait, or its child stays or
\* fills its pipe before it has read what it was sent, or left somebody behind that
\* holds its pipes: a limit bounds every other run (run_subprocess).
THEOREM StandstillsHaveTheirReason == SwarmSpec => [](Standstill => Unbounded)
<1> DEFINE Inv == SwarmTyped /\ OnlyWrote /\ DoesItsOwn
<1>1. SwarmInit => Inv
  BY SwarmAssumption DEF SwarmInit, SwarmTyped, SwarmTypeOK, NoChild, OnlyWrote, DoesItsOwn
<1>2. Inv /\ [SwarmNext]_swarmVars => Inv'
  BY SwarmNextTyped, OnlyWroteNext, DoesItsOwnNext
<1>3. Inv => (Standstill => Unbounded)
  BY StandstillIs
<1> QED
  BY <1>1, <1>2, <1>3, PTL DEF SwarmSpec
-----------------------------------------------------------------------------
(* The parts side by side, as they are run.                                *)

\* What a behaviour of all does, each of them does or stands still.
LEMMA PartsAreFollowed ==
  RuntimeSpec => SwarmSpec /\ ToolsSpec /\ CliSpec /\ McpSpec /\ ProcessSpec /\ LspSpec /\ FileSpec
<1>1. RuntimeInit => SwarmInit /\ ToolsInit /\ CliInit /\ McpInit /\ ProcessInit /\ LspInit /\ FileInit
  BY DEF RuntimeInit
<1>2. [RuntimeNext]_runtimeVars =>
        /\ [SwarmNext]_swarmVars /\ [ToolsNext]_toolVars /\ [CliNext]_cliVars /\ [McpNext]_mcpVars
        /\ [ProcessNext]_processVars /\ [LspNext]_lspVars /\ [FileNext]_fileVars
  BY DEF RuntimeNext, runtimeVars, Swarm, Tools, Cli, Credentials, Processes, Lsp, Undoing
<1> QED
  BY <1>1, <1>2, PTL
  DEF RuntimeSpec, SwarmSpec, ToolsSpec, CliSpec, McpSpec, ProcessSpec, LspSpec, FileSpec

\* Every variable of the seven models holds a value of its type.
THEOREM RuntimeTypeCorrect == RuntimeSpec => []RuntimeTypeOK
<1>1. SwarmTypeOK /\ ToolsTypeOK /\ CliTypeOK /\ McpTypeOK /\ ProcessTypeOK /\ LspTypeOK /\ FileTypeOK
        => RuntimeTypeOK
  BY DEF RuntimeTypeOK
<1> QED
  BY <1>1, PartsAreFollowed, SwarmTypeCorrect, ToolTypeCorrect, CliTypeCorrect, CredentialTypeCorrect,
     ProcessTypeCorrect, LspTypeCorrect, FileTypeCorrect, PTL
=============================================================================
