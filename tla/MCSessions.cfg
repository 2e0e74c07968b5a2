CONSTANTS
  Programs = {"bridge"}
  MaxTold = 3
  MaxParts = 2
  MaxLog = 11
  MaxKills = 1
  Savers = {"a", "b"}
  MaxSaves = 3
  MaxDeaths = 1
  Turns = 2
  MaxLines = 2
  MaxClock = 3
  MaxTears = 1
  Runtimes = {"a", "b"}
  Ttl = 2
  LeaseClock = 4
  MaxBoots = 4
  Responders = {"r1"}
  Models = 2
  Retries = 1
  MaxSteps = 2
  MaxToolCalls = 2
  MaxTokens = 2
  Batches <- SomeBatches
  Given <- SomeGiven
  MaxInterrupts = 1
  MaxRestarts = 1
  Fixed <- SomeFixed
  SessionItems <- SomeSessionItems
  Floors <- SomeFloors
  HardFloor = 1
  Limits = {0, 5, 9}
  Overhead = 1
  Questions <- SomeQuestions
  Replies <- SomeReplies
  Preview = 3
  SummaryMax = 3
  PruneKeepTurns = 2
  OverflowKeepTurns = 1
  KeepRecent = 2
  MinNew = 2
  MemoriesHold = 2
  MemoriesShown = 1
  IdSchemes = {"fresh"}
  MaxMessages = 6
  Profiles = {"a", "b"}
  MaxDepth = 2
  MaxTasks = 2
  MaxRuns = 3
  MaxStops = 1
SPECIFICATION SessionsSpec
INVARIANTS SessionsTypeOK TranscriptIsShown OneAtATimeKeepsAll StreamsLoseNothing StartedByOne
INVARIANTS EndsWhole StepsAddUp PacksAreSound TreeIsGoverned
PROPERTY LoopsRestThere
\* A session that is left alone, and a program that died, make no more steps.
CHECK_DEADLOCK FALSE
