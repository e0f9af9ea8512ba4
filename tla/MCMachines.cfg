SPECIFICATION MachinesSpec
CONSTANTS
    RomSize = 1
    RamSize = 2
    HighSize = 1
    PageSize = 2
    MaxBlocks = 2
    MaxInstructions = 2
    Stores = {"wide", "halt", "other"}
    MaxStores = 1
    MaxGenerations = 1
    LineDots = 4
    SearchDots = 1
    DrawDots = 2
    VisibleLines = 1
    TotalLines = 2
    TimerPeriod = 4
    TimerSize = 2
    InstructionCycles = {3}
    IdleCycles = 1
    EntryCycles = 3
    IeValues = {{"vblank"}, {"timer"}}
    StatValues = {{"hblank", "lyc"}}
    MaxOperations = 3
    AluBytes = {0, 9, 153, 255}
    FlagBytes = {16, 32, 80, 128}
    Pointers = {65284, 49152}
    Immediates = {4, 153, 203}
    Stepped = {39, 128, 54, 203}
    MaxExecuted = 1
    Programs <- MCPrograms
    MaxRaised = 2
    MaxRetired = 45
    MaxIrInstructions = 16
    MaxIrCacheEntries = 3
    Cartridges <- MCCartridges
    Registers = {0, 8448, 12288, 16384, 24576}
    BusValues = {0, 3, 8, 10}
    Addresses = {0, 255, 256, 16383, 16384, 32767, 40960, 49152, 57343, 57344, 65408, 65534}
    ViewSizes = {1, 2}
    MaxBusSteps = 5
    GearCartridges <- MCGearCartridges
    GearAddresses = {0, 220, 1024, 16384, 32768, 40960, 49152, 65532, 65534}
    GearValues = {0, 13, 129}
    MaxGearSteps = 5
INVARIANTS NoStaleCode LcdsAgree InstructionsAgree BoundariesHold BusesAgree
PROPERTIES CodeMovesOpenly HaltEnds
CHECK_DEADLOCK FALSE
