---------------------------- MODULE McpProcesses ----------------------------
(***************************************************************************)
(* Local MCP servers of the HTTP runtime: the registry of long-running     *)
(* processes (runtime/http/src/mcp_runtime.rs) and the tool calls that use *)
(* them (http_runtime.rs).  The registry has a lock; a start gives it back *)
(* while its process comes up, a call holds it until the answer is there.  *)
(* A server's configuration (command, environment, timeout) is a version.  *)
(***************************************************************************)
EXTENDS Naturals, FiniteSets

CONSTANTS
    Locals,       \* the names of local servers
    Versions,     \* the configurations a server may have, from 1
    Callers,      \* requests and turns under way at the same time
    MaxProcesses  \* bound: processes started

ASSUME ProcessAssumption == 0 \notin Versions /\ MaxProcesses \in Nat

VARIABLES
    configured, \* server -> its version in the file, 0 when it has no entry
    registry,   \* server -> the number of its registered process or 0
    process,    \* number -> [version, state]
    doing,      \* caller -> what it does and with which configuration
    ranWith         \* <<version, version>>: what a call wanted, what ran it

processVars == <<configured, registry, process, doing, ranWith>>

NoProcessCall == [op |-> "none"]
FreeCaller(t) == doing[t] = NoProcessCall
Goes(t, j) == doing' = [doing EXCEPT ![t] = j]

Alive(p) == process[p].state = "up"
Closed(p) == [process EXCEPT ![p].state = "closed"]

Configures(s) ==
    /\ \E v \in Versions \cup {0} : configured' = [configured EXCEPT ![s] = v]
    /\ UNCHANGED <<registry, process, doing, ranWith>>

Spawned == CHOOSE p \in 1..MaxProcesses : process[p].state = "unused"
CanSpawn == \E p \in 1..MaxProcesses : process[p].state = "unused"

(* An entry fits a configuration that has its fingerprint, while the       *)
(* process runs.  A mutant does not compare the fingerprints.              *)
SameVersionAlways(p, v) == TRUE
SameVersion(p, v) == process[p].version = v

Fits(p, v) == SameVersion(p, v) /\ Alive(p)

TakesOut(s) ==
    /\ registry' = [registry EXCEPT ![s] = 0]
    /\ process' = Closed(registry[s])

(* mcp_manager_for_server: a request about a server reads its entry.       *)
ReadsServer(t, s) ==
    /\ FreeCaller(t)
    /\ configured[s] # 0
    /\ Goes(t, [op |-> "read", s |-> s, v |-> configured[s]])
    /\ UNCHANGED <<configured, registry, process, ranWith>>

(* mcp_lifecycle_snapshot: an entry that does not fit is closed.           *)
ListsServers(t) ==
    /\ doing[t].op = "read"
    /\ LET s == doing[t].s
       IN IF registry[s] # 0 /\ ~Fits(registry[s], doing[t].v) THEN TakesOut(s)
          ELSE UNCHANGED <<registry, process>>
    /\ Goes(t, NoProcessCall)
    /\ UNCHANGED <<configured, ranWith>>

(* refresh_mcp_lifecycle_server: the registered process lists its tools;   *)
(* one that does not fit, or does not answer, is taken out and that is the *)
(* request's error.                                                        *)
Refreshes(s, v) ==
    /\ registry[s] # 0
    /\ \/ Fits(registry[s], v) /\ UNCHANGED <<registry, process>>
       \/ TakesOut(s)

RefreshesServer(t) ==
    /\ doing[t].op = "read"
    /\ Refreshes(doing[t].s, doing[t].v)
    /\ Goes(t, NoProcessCall)
    /\ UNCHANGED <<configured, ranWith>>

(* mcp_lifecycle_start_server_payload: nothing registered, so one is       *)
(* spawned ...                                                             *)
StartsServer(t) ==
    /\ doing[t].op = "read"
    /\ registry[doing[t].s] = 0 /\ CanSpawn
    /\ process' = [process EXCEPT ![Spawned] = [version |-> doing[t].v, state |-> "up"]]
    /\ Goes(t, [op |-> "start", s |-> doing[t].s, p |-> Spawned])
    /\ UNCHANGED <<configured, registry, ranWith>>

(* ... and, when it has listed its tools, takes the place of what another  *)
(* start registered meanwhile: first that one is stopped ...               *)
Initializes(t) ==
    /\ doing[t].op = "start"
    /\ LET s == doing[t].s
           old == registry[s]
       IN \/ /\ Alive(doing[t].p)
             /\ registry' = [registry EXCEPT ![s] = 0]
             /\ process' = IF old = 0 THEN process ELSE Closed(old)
             /\ Goes(t, [doing[t] EXCEPT !.op = "register"])
          \/ /\ process' = Closed(doing[t].p)
             /\ Goes(t, NoProcessCall)
             /\ UNCHANGED registry
    /\ UNCHANGED <<configured, ranWith>>

(* ... then it is inserted; one inserted in between is dropped unclosed.   *)
Registers(t) ==
    /\ doing[t].op = "register"
    /\ registry' = [registry EXCEPT ![doing[t].s] = doing[t].p]
    /\ process' = IF registry[doing[t].s] = 0 THEN process
                  ELSE [process EXCEPT ![registry[doing[t].s]].state = "dropped"]
    /\ Goes(t, NoProcessCall)
    /\ UNCHANGED <<configured, ranWith>>

(* mcp_lifecycle_stop_server_payload; a restart goes on to the start.      *)
StopsServer(t) ==
    /\ doing[t].op = "read"
    /\ IF registry[doing[t].s] # 0 THEN TakesOut(doing[t].s)
       ELSE UNCHANGED <<registry, process>>
    /\ \/ Goes(t, NoProcessCall)
       \/ configured[doing[t].s] # 0 /\ Goes(t, [doing[t] EXCEPT !.v = configured[doing[t].s]])
    /\ UNCHANGED <<configured, ranWith>>

Exits(p) ==
    /\ Alive(p)
    /\ process' = [process EXCEPT ![p].state = "exited"]
    /\ UNCHANGED <<configured, registry, doing, ranWith>>

-----------------------------------------------------------------------------
(* A turn: register_runtime_mcp_tools reads the file once and the turn     *)
(* calls tools with what it read until it ends.                            *)

BeginsTurn(t) ==
    /\ FreeCaller(t)
    /\ Goes(t, [op |-> "turn", all |-> configured])
    /\ UNCHANGED <<configured, registry, process, ranWith>>

(* register_runtime_mcp_tools: what is registered is refreshed. *)
RefreshesForTurn(t, s) ==
    /\ doing[t].op = "turn"
    /\ doing[t].all[s] # 0
    /\ Refreshes(s, doing[t].all[s])
    /\ UNCHANGED <<configured, doing, ranWith>>

(* execute_runtime_mcp_lifecycle_tool_call, with the registry's lock held  *)
(* for the whole call: the answer of a process that fits ...               *)
Calls(t, s) == doing[t].op = "turn" /\ doing[t].all[s] # 0

CallsRegistered(t, s) ==
    /\ Calls(t, s) /\ registry[s] # 0
    /\ Fits(registry[s], doing[t].all[s])
    /\ ranWith' = ranWith \cup {<<doing[t].all[s], process[registry[s]].version>>}
    /\ UNCHANGED <<configured, registry, process, doing>>

(* ... a process that does not fit is closed.  The fingerprint it is       *)
(* compared with holds the timeout, which the caller has cut down to what  *)
(* is left until the turn's deadline: with less left than is configured    *)
(* no process fits ...                                                     *)
RefusesRegistered(t, s) ==
    /\ Calls(t, s) /\ registry[s] # 0
    /\ \E short \in BOOLEAN : short \/ ~Fits(registry[s], doing[t].all[s])
    /\ TakesOut(s)
    /\ UNCHANGED <<configured, doing, ranWith>>

(* ... and so is one that does not answer.                                 *)
LosesRegistered(t, s) ==
    /\ Calls(t, s) /\ registry[s] # 0
    /\ Fits(registry[s], doing[t].all[s])
    /\ TakesOut(s)
    /\ UNCHANGED <<configured, doing, ranWith>>

(* Without a registered process the call has one to itself. *)
CallsAlone(t, s) ==
    /\ Calls(t, s) /\ registry[s] = 0
    /\ ranWith' = ranWith \cup {<<doing[t].all[s], doing[t].all[s]>>}
    /\ UNCHANGED <<configured, registry, process, doing>>

EndsTurn(t) ==
    /\ doing[t].op = "turn"
    /\ Goes(t, NoProcessCall)
    /\ UNCHANGED <<configured, registry, process, ranWith>>

ProcessInit ==
    /\ configured = [s \in Locals |-> 0]
    /\ registry = [s \in Locals |-> 0]
    /\ process = [p \in 1..MaxProcesses |-> [version |-> 0, state |-> "unused"]]
    /\ doing = [t \in Callers |-> NoProcessCall]
    /\ ranWith = {}

ProcessNext ==
    \/ \E s \in Locals :
         \/ Configures(s)
         \/ \E t \in Callers :
              \/ ReadsServer(t, s) \/ RefreshesForTurn(t, s) \/ CallsRegistered(t, s)
              \/ RefusesRegistered(t, s) \/ LosesRegistered(t, s) \/ CallsAlone(t, s)
    \/ \E t \in Callers :
         \/ ListsServers(t) \/ RefreshesServer(t) \/ StartsServer(t) \/ StopsServer(t)
         \/ Initializes(t) \/ Registers(t) \/ BeginsTurn(t) \/ EndsTurn(t)
    \/ \E p \in 1..MaxProcesses : Exits(p)

ProcessSpec == ProcessInit /\ [][ProcessNext]_processVars

-----------------------------------------------------------------------------
ProcessTypeOK ==
    /\ configured \in [Locals -> Versions \cup {0}]
    /\ registry \in [Locals -> 0..MaxProcesses]
    /\ process \in [1..MaxProcesses ->
                      [version : Versions \cup {0},
                       state : {"unused", "up", "exited", "closed", "dropped"}]]
    /\ \A t \in Callers :
         /\ doing[t].op \in {"none", "read", "start", "register", "turn"}
         /\ doing[t].op = "turn" => doing[t].all \in [Locals -> Versions \cup {0}]
    /\ ranWith \subseteq Versions \X Versions

(* A tool call is run by a process of the configuration its turn has read, *)
(* although processes outlive the file they were configured in; and what   *)
(* is registered has one owner: no request still starts it, no other name  *)
(* holds it, and nobody closed it there.                                   *)
CallsRunAsConfigured ==
    /\ \A pair \in ranWith : pair[1] = pair[2]
    /\ \A s \in Locals : registry[s] # 0 =>
         /\ process[registry[s]].state \in {"up", "exited"}
         /\ \A r \in Locals \ {s} : registry[r] # registry[s]
         /\ \A t \in Callers :
              doing[t].op \in {"start", "register"} => doing[t].p # registry[s]

(* "MCP local lifecycle process config changed": a tool call takes a       *)
(* process out of the registry only when it exited, does not answer, or    *)
(* was started from another configuration than the turn has read.          *)
TakenOutAsChanged ==
    [][\A s \in Locals, t \in Callers :
         RefusesRegistered(t, s) => ~Fits(registry[s], doing[t].all[s])]_processVars
=============================================================================
