\* One transition to a session with lower frame counters.
CONSTANTS
  ReadyChunks = 2
  SourceCapacity = 2
  EngineCapacity = 2
  FrameRanges = {1, 2}
  MaxOpens = 1
  MaxTransitions = 1
SPECIFICATION FairSpec
PROPERTY DeferredResetHappens
CHECK_DEADLOCK FALSE
