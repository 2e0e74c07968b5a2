----------------------------- MODULE MCRuntime ------------------------------
(***************************************************************************)
(* The parts of the runtime that turns, requests and commands share: the   *)
(* swarm kernel, the contexts of tools, the command line's loop, MCP       *)
(* servers and their credentials, language servers and the undo of file    *)
(* changes.  The parts do not interact, so a behaviour runs one of them    *)
(* and leaves the others at rest.                                          *)
(***************************************************************************)
EXTENDS SwarmKernel, ToolContexts, CliLoop, McpCredentials, McpProcesses,
        LspClients, FileChanges

(* Runners of every kind; programs of pieces read and written.             *)
Runs(kind, roles, program, timeout) ==
  [kind |-> kind, roles |-> roles, program |-> program, timeout |-> timeout]
SomeRunners ==
  [f |-> Runs("function", {"dev"}, <<>>, FALSE),
   h |-> Runs("http", {"any"}, <<>>, TRUE),
   quiet |-> Runs("subprocess", {"dev"}, <<"read">>, FALSE),
   loud |-> Runs("subprocess", {"ops"}, <<"read", "write", "write">>, FALSE),
   eager |-> Runs("subprocess", {"ops"}, <<"write", "write", "read">>, TRUE),
   broken |-> Runs("subprocess", {"ops"}, <<"fail">>, TRUE),
   sleeper |-> Runs("subprocess", {"night"}, <<"read", "stay">>, TRUE),
   deaf |-> Runs("subprocess", {"night"}, <<"write", "stay">>, TRUE),
   forker |-> Runs("subprocess", {"night"}, <<"leave", "read", "write">>, TRUE),
   daemon |-> Runs("subprocess", {"night"}, <<"leave">>, TRUE)]

Wants(role, runners, limit, valid) ==
  [role |-> role, runners |-> runners, limit |-> limit, valid |-> valid]
SomeTasks ==
  {Wants("dev", <<>>, TRUE, TRUE), Wants("ops", <<>>, FALSE, TRUE),
   Wants("none", <<"f", "x">>, TRUE, TRUE), Wants("none", <<"f", "loud", "f">>, TRUE, TRUE),
   Wants("dev", <<"f", "h">>, TRUE, FALSE), Wants("ops", <<"loud", "quiet">>, TRUE, TRUE),
   Wants("ops", <<"broken", "eager">>, TRUE, TRUE),
   Wants("night", <<"sleeper", "deaf">>, FALSE, TRUE),
   Wants("night", <<"sleeper", "forker">>, TRUE, TRUE),
   Wants("night", <<"daemon">>, TRUE, TRUE)}

Rule(tool, file, action) == [tool |-> tool, file |-> file, action |-> action]
SomeRules ==
  {<<>>, <<Rule("*", "*", "allow")>>,
   <<Rule("*", "*", "deny"), Rule("read", "*", "allow")>>,
   <<Rule("*", "*", "ask"), Rule("read", "*", "allow")>>,
   <<Rule("*", "*", "allow"), Rule("write", "f", "deny"), Rule("skill", "*", "ask")>>}
SomeSkills ==
  {[bans |-> {"write"}, only |-> {}], [bans |-> {}, only |-> {"read", "edit"}],
   [bans |-> {"edit"}, only |-> {}]}

SomeBatches == {<<"plain", "ask">>, <<"question">>, <<"task">>, <<"again">>, <<"queued">>}

OneServer == {<<"x">>}

(* A file to be made and one that is no text.                              *)
SomeDisks == {[f |-> Absent, g |-> Binary]}

(* Bounds of the run: a session at work in two copies; three changes of    *)
(* files, by turns and by others together.                                 *)
MaxCopies == 1
MaxTouches == 3

VARIABLE part             \* which of the parts this behaviour is about

runtimeVars == <<swarmVars, toolVars, cliVars, mcpVars, processVars, lspVars, fileVars, part>>

(* A part at rest stays in one initial state.                              *)
RuntimeInit ==
  /\ part \in {"swarm", "tools", "cli", "credentials", "processes", "lsp", "files"}
  /\ SwarmInit /\ ToolsInit /\ CliInit /\ McpInit /\ ProcessInit /\ LspInit /\ FileInit
  /\ part # "swarm" => swarmTask = CHOOSE t \in SwarmTasks : TRUE
  /\ part # "tools" => rulebook = <<>> /\ ~skipping /\ \A f \in Workspace : onDisk[f] = 0
  /\ disk \in IF part = "files" THEN SomeDisks ELSE {[f \in Files |-> Absent]}
-----------------------------------------------------------------------------
Swarm == part = "swarm" /\ SwarmNext
         /\ UNCHANGED <<toolVars, cliVars, mcpVars, processVars, lspVars, fileVars, part>>
Tools == part = "tools" /\ ToolsNext
         /\ UNCHANGED <<swarmVars, cliVars, mcpVars, processVars, lspVars, fileVars, part>>
Cli == part = "cli" /\ CliNext /\ copies' <= MaxCopies
       /\ UNCHANGED <<swarmVars, toolVars, mcpVars, processVars, lspVars, fileVars, part>>
Credentials == part = "credentials" /\ McpNext
       /\ UNCHANGED <<swarmVars, toolVars, cliVars, processVars, lspVars, fileVars, part>>
Processes == part = "processes" /\ ProcessNext
       /\ UNCHANGED <<swarmVars, toolVars, cliVars, mcpVars, lspVars, fileVars, part>>
Lsp == part = "lsp" /\ LspNext
       /\ UNCHANGED <<swarmVars, toolVars, cliVars, mcpVars, processVars, fileVars, part>>
Undoing == part = "files" /\ FileNext /\ changes' + outside' <= MaxTouches
       /\ UNCHANGED <<swarmVars, toolVars, cliVars, mcpVars, processVars, lspVars, part>>

RuntimeNext == Swarm \/ Tools \/ Cli \/ Credentials \/ Processes \/ Lsp \/ Undoing

RuntimeSpec == RuntimeInit /\ [][RuntimeNext]_runtimeVars
-----------------------------------------------------------------------------
(* Every variable of the models holds a value of its type.                 *)
RuntimeTypeOK ==
  /\ SwarmTypeOK /\ ToolsTypeOK /\ CliTypeOK /\ McpTypeOK
  /\ ProcessTypeOK /\ LspTypeOK /\ FileTypeOK
=============================================================================
