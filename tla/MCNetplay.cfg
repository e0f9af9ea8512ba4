SPECIFICATION Spec
CONSTANTS
  Window = 2
  Frames = 2
  QueueCapacity = 2
  Inputs <- MCInputs
  BindingChoices <- MCBindings
  NoPacket = NoPacket
  NoInput = NoInput
INVARIANTS
  NoFalseFault
  PassedMeansPeerPlayed
CHECK_DEADLOCK FALSE
PROPERTIES
  ImplementsSharedGame
  Terminates
  LossIsRepaired
