CONSTANTS
  Fixed <- SomeFixed
  SessionItems <- SomeSessionItems
  Floors <- SomeFloors
  HardFloor = 1
  Limits = {0, 5, 9}
  Overhead = 1
  Questions <- SomeQuestions
  Replies <- SomeReplies
  Preview = 3
  SummaryMax = 3
  PruneKeepTurns = 2
  OverflowKeepTurns = 1
  KeepRecent = 2
  MinNew = 2
  MemoriesHold = 2
  MemoriesShown = 1
  IdSchemes = {"restarting"}
  MaxMessages = 5
SPECIFICATION PackSpec
INVARIANT TraceExplainsAll
\* The transcript is bounded.
CHECK_DEADLOCK FALSE
