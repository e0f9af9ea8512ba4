\* No transition: only start, underruns and production.
CONSTANTS
  ReadyChunks = 2
  SourceCapacity = 2
  EngineCapacity = 2
  FrameRanges = {1}
  MaxOpens = 1
  MaxTransitions = 0
SPECIFICATION FairSpec
PROPERTY PrefillRebuilt
CHECK_DEADLOCK FALSE
