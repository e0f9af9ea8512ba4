\* Two usable ready blocks, a device that is reopened and one transition, which may
\* put the frame counters back; one MIDI voice and a queue of two messages; two
\* samples a packet of either chip, eight and four samples in all, three writes.
CONSTANTS
  ReadyChunks = 2
  SourceCapacity = 1
  EngineCapacity = 2
  FrameRanges = {1, 2}
  MaxOpens = 2
  MaxTransitions = 1
  MidiVoices = {v1}
  QueueSlots = 3
  MaxMessages = 5
  MaxMidiEvents = 2
  MaxFrame = 1
  MaxAttaches = 1
  SoundVoices = {"pulse1", "wave"}
  FullLength = 2
  MaxVolume = 1
  TimerSize = 2
  MaxFrequency = 3
  FrameChunk = 2
  EventSlots = 8
  MaxSoundWrites = 3
  MaxSamples = 8
  Tones = {0}
  PsgChunk = 2
  MaxPsgWrites = 3
  MaxPsgFrames = 4
SPECIFICATION SoundSpec
INVARIANTS HeardRight ResetIsSafe NotesDelivered NotesFollow
PROPERTIES SessionsInOrder WaitersReturn PacketsInOrder
CHECK_DEADLOCK FALSE
