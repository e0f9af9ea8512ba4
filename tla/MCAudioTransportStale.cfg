\* One transition over a full engine.
CONSTANTS
  ReadyChunks = 1
  SourceCapacity = 2
  EngineCapacity = 2
  FrameRanges = {1}
  MaxOpens = 1
  MaxTransitions = 1
SPECIFICATION Spec
INVARIANT NoStaleOutput
CHECK_DEADLOCK FALSE
