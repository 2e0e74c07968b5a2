CONSTANTS
  Responders = {"r1"}
  Models = 2
  Retries = 1
  MaxSteps = 2
  MaxToolCalls = 2
  MaxTokens = 2
  Batches <- SomeBatches
  Given <- SomeGiven
  MaxInterrupts = 1
  MaxRestarts = 1
SPECIFICATION LoopSpec

PROPERTY InterruptDenies
\* A session whose turn has ended, or whose program died, is left alone.
CHECK_DEADLOCK FALSE
