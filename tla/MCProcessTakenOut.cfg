CONSTANTS
  Registry <- SomeRunners
  SwarmTasks <- SomeTasks
  Pipe = 1
  Payload = 2
  WorkersMax = 2
  TokensMax = 1
  Workspace = {"f", "g"}
  Rulebooks <- SomeRules
  Skills <- SomeSkills
  MaxVersion = 2
  MaxPauses = 1
  Agents = {"g"}
  MaxDepth = 2
  MaxSessions = 3
  MaxCalls = 3
  CliSteps = 1
  Batches <- SomeBatches
  MaxFaults = 1
  MaxCommands = 4
  Remotes = {"r"}
  Urls = {1, 2}
  Threads = {1, 2}
  MaxTokens = 2
  MaxLogins = 2
  Locals = {"l"}
  Versions = {1, 2}
  Callers = {1, 2}
  MaxProcesses = 3
  Servers = {"x"}
  Selections <- OneServer
  MaxEdits = 2
  MaxIds = 3
  PipeHolds = 2
  MaxPushed = 1
  Files = {"f", "g"}
  Texts = {1, 2}
  Large = {"g"}
  StackHolds = 2
  MaxRuns = 2
  MaxChanges = 2
  MaxOutside = 1
SPECIFICATION RuntimeSpec
PROPERTY TakenOutAsChanged

CHECK_DEADLOCK FALSE
