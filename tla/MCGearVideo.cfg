\* Six frames through the mailbox.  Rows of two images after two register writes; two
\* accesses of a program to a chip of seven short lines.
CONSTANTS
  MaxFrames = 6
  VramByte <- ImageByte
  Screens <- TwoImages
  Views <- BothSizes
  RegisterWrites <- Writes
  MaxRegisterWrites = 2
  Rows = {9, 33}
  LineCycles = 14
  FrameLines = 7
  CounterLines = 6
  ActiveLines <- FewActiveLines
  CounterTop <- FewCounterTop
  SpriteStatus <- LineSprites
  Colors = 2
  SampleCycles = 14
  ChipValues = {1, 192}
  Prologues <- ControlBytes
  ProgramCycles = {10}
  InterruptCycles = 12
  MaxAccesses = 2
SPECIFICATION PartsSpec
INVARIANTS NoTornFrame PictureRight ChipHonest
PROPERTIES FrameArrives ImplementsRegister
CHECK_DEADLOCK FALSE
