----------------------------- MODULE GameBoyBus -----------------------------
(***************************************************************************)
(* A Game Boy cartridge as the machine keeps it: twice.  GameBoyMapper     *)
(* holds the bank registers that decide which 16 KiB of the ROM GameBoyMe- *)
(* moryMap has copied into its two windows; GameBoyCartridge holds its own *)
(* bank registers, the external RAM and the clock, and hears of every      *)
(* write a second time, from the memory map's write observer.  Saved       *)
(* states carry both, and the windows.                                     *)
(*                                                                         *)
(* A bank's bytes are its number; a bank of external RAM is one byte.      *)
(***************************************************************************)
EXTENDS Integers, Sequences, FiniteSetsExt

CONSTANTS
    Cartridges,     \* ROMs: what mapperForType makes of the type byte, whether
                    \* that byte is zero, banks of ROM and RAM, battery, clock
    Registers,      \* addresses below 0x8000 that are written
    BusValues,      \* values written there
    Addresses,      \* addresses that are read
    ViewSizes,      \* lengths of code looked at in one piece
    MaxBusSteps     \* bound: operations on the bus

\* What the machine takes of a ROM's header; the smallest ROM there is has two
\* banks, and a register is a byte.
Headers ==
    [mapper: {"None", "MBC1", "MBC2", "MBC3", "MBC5"}, zero: BOOLEAN, banks: Nat \ {0, 1},
     ramBanks: Nat, battery: BOOLEAN, rtc: BOOLEAN]

ASSUME CartridgesAssumption ==
    /\ Cartridges \subseteq Headers
    /\ Registers \cup BusValues \cup Addresses \cup ViewSizes \subseteq Nat
    /\ (\A a \in Registers : a < 32768) /\ (\A v \in BusValues : v < 256)
    /\ (\A a \in Addresses : a < 65536)

VARIABLES
    game,       \* the cartridge in the machine
    mapper,     \* GameBoyMapper's registers
    board,      \* GameBoyCartridge's registers
    store,      \* external RAM, the clock's registers, the dirty flag
    windows,    \* the banks copied to 0x0000 and 0x4000, the boot ROM overlay
    savFile,    \* the .sav and .rtc files of the cartridge
    stateFile,  \* the saved state
    busSteps,   \* bounded history: operations so far
    rewound     \* history: a state was loaded since the save was last written

busVars == <<game, mapper, board, store, windows, savFile, stateFile, busSteps, rewound>>

Between(address, first, last) == first <= address /\ address <= last
NoGame == [mapper |-> "None", zero |-> TRUE, banks |-> 0, ramBanks |-> 0,
           battery |-> FALSE, rtc |-> FALSE]
NothingSaved == [game |-> NoGame]
RtcRegisters == 8 .. 12
NoRtc == 255
NoClock == [registers |-> << >>]

-----------------------------------------------------------------------------
(* GameBoyMapper.                                                          *)

MapperReset == [low |-> 1, bank |-> 1, upper |-> 0, mode |-> 0]

\* copyRomBankWindow of a whole number of banks, two at least.
RomBankCount(g) == Max({g.banks, 2})
Clamped(bank, count) == IF bank >= count THEN count - 1 ELSE bank
NonZero(bank) == IF bank = 0 THEN 1 ELSE bank

Mbc1Bank(upper, low, count) ==
    LET bank == (upper * 32 + low) % count
        skipped == IF bank % 32 = 0 THEN (bank + 1) % count ELSE bank
    IN  IF skipped = 0 THEN 1 % count ELSE skipped

UpdateMbc1Banking(g, m) == [m EXCEPT !.bank = Mbc1Bank(m.upper, m.low, RomBankCount(g))]
UpdateMbc5Banking(g, m) == [m EXCEPT !.bank = Clamped(m.low, RomBankCount(g))]

CurrentFixedRomBank(g, m) ==
    IF g.mapper # "MBC1" \/ m.mode = 0 THEN 0 ELSE (m.upper * 32) % RomBankCount(g)

\* RAM is never read from the mapper: its enable bit is left out.
MapperWrite(g, m, address, value) ==
    CASE g.mapper = "MBC1" /\ Between(address, 8192, 16383) ->
           UpdateMbc1Banking(g, [m EXCEPT !.low = NonZero(value % 32)])
      [] g.mapper = "MBC1" /\ Between(address, 16384, 24575) ->
           UpdateMbc1Banking(g, [m EXCEPT !.upper = value % 4])
      [] g.mapper = "MBC1" /\ address >= 24576 ->
           UpdateMbc1Banking(g, [m EXCEPT !.mode = value % 2])
      [] g.mapper = "MBC2" /\ address < 16384 /\ (address \div 256) % 2 = 1 ->
           [m EXCEPT !.low = NonZero(value % 16),
                     !.bank = NonZero(value % 16) % RomBankCount(g)]
      [] g.mapper = "MBC3" /\ Between(address, 8192, 16383) ->
           [m EXCEPT !.low = NonZero(value % 128),
                     !.bank = Clamped(NonZero(value % 128), RomBankCount(g))]
      [] g.mapper = "MBC3" /\ Between(address, 16384, 24575) -> [m EXCEPT !.upper = value]
      [] g.mapper = "MBC5" /\ Between(address, 8192, 12287) ->
           UpdateMbc5Banking(g, [m EXCEPT !.low = (m.low \div 256) * 256 + value])
      [] g.mapper = "MBC5" /\ Between(address, 12288, 16383) ->
           UpdateMbc5Banking(g, [m EXCEPT !.low = (value % 2) * 256 + (m.low % 256)])
      [] g.mapper = "MBC5" /\ Between(address, 16384, 24575) -> [m EXCEPT !.upper = value % 16]
      [] OTHER -> m

\* Mutant: only the lower register maps the switchable window again.
RomBankChanged_LowOnly(g, address) == Between(address, 8192, 16383)

\* Bank registers whose write copies the switchable window again.
RomBankChanged(g, address) ==
    \/ g.mapper = "MBC1" /\ address >= 8192
    \/ g.mapper = "MBC2" /\ address < 16384 /\ (address \div 256) % 2 = 1
    \/ g.mapper \in {"MBC3", "MBC5"} /\ Between(address, 8192, 16383)

-----------------------------------------------------------------------------
(* GameBoyCartridge.                                                       *)

\* A type byte nobody knows, on a ROM of more than two banks, is taken for
\* MBC1: by the cartridge alone.
BoardMapper(g) == IF g.mapper = "None" /\ ~g.zero /\ g.banks > 2 THEN "MBC1" ELSE g.mapper

BoardReset(g) ==
    [romBank |-> IF g.banks > 1 THEN 1 ELSE 0, ramBank |-> 0, ramOn |-> FALSE, rtcSelect |-> NoRtc,
     low |-> 1, upper |-> 0, mode |-> 0]

BankCount(g) == Max({g.banks, 1})

FixedBankIndex(g, b) ==
    IF BoardMapper(g) = "MBC1" /\ b.mode = 1 THEN (b.upper * 32) % BankCount(g) ELSE 0

SwitchableBankIndex(g, b) ==
    CASE BankCount(g) = 1 -> 0
      [] BoardMapper(g) = "None" -> 1
      [] BoardMapper(g) = "MBC1" -> Mbc1Bank(b.upper, b.low, BankCount(g))
      [] BoardMapper(g) = "MBC3" -> NonZero(b.romBank % BankCount(g)) % BankCount(g)
      [] OTHER -> b.romBank % BankCount(g)

SelectedRamBankIndex(g, b) ==
    CASE g.ramBanks = 0 -> 0
      [] BoardMapper(g) = "MBC1" -> IF b.mode = 1 THEN b.upper % g.ramBanks ELSE 0
      [] BoardMapper(g) \in {"MBC3", "MBC5"} -> b.ramBank % g.ramBanks
      [] OTHER -> 0

RtcRegisterSelected(g, b) == g.rtc /\ b.rtcSelect \in RtcRegisters

Enables(value) == value % 16 = 10

WriteControl(g, b, address, value) ==
    CASE BoardMapper(g) \in {"MBC1", "MBC3", "MBC5"} /\ address < 8192 ->
           [b EXCEPT !.ramOn = Enables(value)]
      [] BoardMapper(g) = "MBC1" /\ Between(address, 8192, 16383) ->
           [b EXCEPT !.low = NonZero(value % 32)]
      [] BoardMapper(g) = "MBC1" /\ Between(address, 16384, 24575) -> [b EXCEPT !.upper = value % 4]
      [] BoardMapper(g) = "MBC1" /\ address >= 24576 -> [b EXCEPT !.mode = value % 2]
      [] BoardMapper(g) = "MBC2" /\ address < 16384 ->
           IF (address \div 256) % 2 = 0 THEN [b EXCEPT !.ramOn = Enables(value)]
                                         ELSE [b EXCEPT !.romBank = NonZero(value % 16)]
      [] BoardMapper(g) = "MBC3" /\ Between(address, 8192, 16383) ->
           [b EXCEPT !.romBank = NonZero(value % 128)]
      [] BoardMapper(g) = "MBC3" /\ Between(address, 16384, 24575) ->
           IF value <= 3 THEN [b EXCEPT !.ramBank = value, !.rtcSelect = NoRtc]
           ELSE IF g.rtc /\ value \in RtcRegisters THEN [b EXCEPT !.rtcSelect = value]
           ELSE b
      [] BoardMapper(g) = "MBC5" /\ Between(address, 8192, 12287) ->
           [b EXCEPT !.romBank = (b.romBank \div 256) * 256 + value]
      [] BoardMapper(g) = "MBC5" /\ Between(address, 12288, 16383) ->
           [b EXCEPT !.romBank = (value % 2) * 256 + (b.romBank % 256)]
      [] BoardMapper(g) = "MBC5" /\ Between(address, 16384, 24575) -> [b EXCEPT !.ramBank = value % 16]
      [] OTHER -> b

\* Writes from 0x6000 on latch an MBC3's clock, which is part of the save.
Latched(g, s, address, value) ==
    IF BoardMapper(g) = "MBC3" /\ address >= 24576 /\ s.latched # (value % 2 = 1)
    THEN [s EXCEPT !.latched = ~s.latched, !.dirty = s.dirty \/ (g.rtc /\ g.battery)]
    ELSE s

\* Mutant: the clock's registers are not part of what is saved.
WriteExternalArea_ClockClean(g, b, s, value) ==
    LET bank == SelectedRamBankIndex(g, b) IN
    IF BoardMapper(g) = "None" \/ ~b.ramOn THEN s
    ELSE IF RtcRegisterSelected(g, b) THEN [s EXCEPT !.rtc[b.rtcSelect] = value]
    ELSE IF g.ramBanks = 0 THEN s
    ELSE [s EXCEPT !.ram[bank] = value, !.dirty = @ \/ g.battery]

\* writeExternalArea: stored only where it differs, which marks the save dirty.
WriteExternalArea(g, b, s, value) ==
    LET bank == SelectedRamBankIndex(g, b) IN
    CASE BoardMapper(g) = "None" \/ ~b.ramOn -> s
      [] BoardMapper(g) # "None" /\ b.ramOn /\ RtcRegisterSelected(g, b) ->
           IF s.rtc[b.rtcSelect] = value THEN s
           ELSE [s EXCEPT !.rtc[b.rtcSelect] = value, !.dirty = s.dirty \/ g.battery]
      [] OTHER ->
           IF g.ramBanks = 0 \/ s.ram[bank] = value THEN s
           ELSE [s EXCEPT !.ram[bank] = value, !.dirty = s.dirty \/ g.battery]

EmptyStore(g) == [ram |-> [bank \in 0 .. g.ramBanks - 1 |-> 0], rtc |-> [r \in RtcRegisters |-> 0],
                  latched |-> FALSE, dirty |-> FALSE]

\* The clock is saved, and restored, only of a cartridge that has one.
SaveData(g, s) ==
    [ram |-> s.ram,
     clock |-> IF g.rtc THEN [registers |-> s.rtc, latched |-> s.latched] ELSE NoClock]
ImportSaveData(g, save) ==
    IF g.rtc
    THEN [ram |-> save.ram, rtc |-> save.clock.registers, latched |-> save.clock.latched, dirty |-> FALSE]
    ELSE [EmptyStore(g) EXCEPT !.ram = save.ram]
ImportStore(g, s, saved) ==
    IF g.rtc THEN saved ELSE [saved EXCEPT !.rtc = s.rtc, !.latched = s.latched]

-----------------------------------------------------------------------------
(* The memory map: what a read of an address finds, as a named cell; the   *)
(* executors' view of a stretch of code; and the name S.P.A.C.E. and the   *)
(* debugger give to the place.                                             *)

Offset(address) == address % 16384
ResolveEchoAddress(address) == IF Between(address, 57344, 65023) THEN address - 8192 ELSE address

\* A byte past the end of the ROM reads as 0xFF, as does what is not there.
RomCell(bank, address) ==
    IF bank < game.banks THEN <<"rom", bank, Offset(address)>> ELSE <<"open">>

ExternalCell(address) ==
    CASE BoardMapper(game) = "None" \/ ~board.ramOn -> <<"open">>
      [] BoardMapper(game) # "None" /\ board.ramOn /\ RtcRegisterSelected(game, board) ->
           <<"rtc", board.rtcSelect>>
      [] OTHER ->
           IF game.ramBanks = 0 THEN <<"open">>
           ELSE <<"external", SelectedRamBankIndex(game, board),
                  (address - 40960) % (IF BoardMapper(game) = "MBC2" THEN 512 ELSE 8192)>>

\* readRaw.
Cell(address) ==
    CASE windows.boot /\ address < 256 -> <<"boot", address>>
      [] ~(windows.boot /\ address < 256) /\ address < 16384 -> RomCell(windows.fixed, address)
      [] Between(address, 16384, 32767) -> RomCell(windows.switchable, address)
      [] Between(address, 32768, 40959) -> <<"video", address>>
      [] Between(address, 40960, 49151) -> ExternalCell(address)
      [] Between(address, 49152, 57343) -> <<"work", address - 49152>>
      [] Between(address, 57344, 65023) -> <<"work", address - 57344>>
      [] Between(address, 65024, 65183) -> <<"oam", address>>
      [] Between(address, 65184, 65279) -> <<"open">>
      [] OTHER -> <<"high", address>>

Read(address) == Cell(ResolveEchoAddress(address))

\* Mutant: the view reaches past the end of its window.
CodeViewEnd_Short(address) ==
    CASE address < 32768 -> 32768
      [] Between(address, 49152, 57343) -> 57344
      [] Between(address, 65408, 65534) -> 65535
      [] OTHER -> 0

\* checkedCodeView: where the storage a view of this address lies in ends; 0
\* where there is no view.
CodeViewEnd(address) ==
    CASE windows.boot /\ address < 256 -> 256
      [] ~(windows.boot /\ address < 256) /\ address < 16384 -> 16384
      [] Between(address, 16384, 32767) -> 32768
      [] Between(address, 49152, 57343) -> 57344
      [] Between(address, 65408, 65534) -> 65535
      [] OTHER -> 0

\* The bytes of the view follow each other in the storage of the first.
CodeView(address, i) ==
    LET first == Cell(address) IN
    IF first[1] = "open" THEN first ELSE [first EXCEPT ![Len(first)] = @ + i]

\* analysisLocation.
Location(address) ==
    LET a == ResolveEchoAddress(address) IN
    CASE windows.boot /\ a < 256 -> <<2, 0, a>>
      [] ~(windows.boot /\ a < 256) /\ a < 32768 ->
           <<1, IF a < 16384 THEN CurrentFixedRomBank(game, mapper) ELSE mapper.bank, Offset(a)>>
      [] Between(a, 40960, 49151) ->
           IF ExternalCell(a)[1] = "external" THEN <<3, ExternalCell(a)[2], ExternalCell(a)[3]>>
           ELSE <<0, 0, a>>
      [] Between(a, 32768, 40959) \/ Between(a, 65024, 65183) -> <<4, 0, a>>
      [] Between(a, 65184, 65279) -> <<0, 0, a>>
      [] Between(a, 49152, 57343) \/ Between(a, 65408, 65534) -> <<3, 0, a>>
      [] OTHER -> <<5, 0, a>>

-----------------------------------------------------------------------------
(* The machine.                                                            *)

Counted == busSteps < MaxBusSteps /\ busSteps' = busSteps + 1

BusInit ==
    /\ game = NoGame /\ mapper = MapperReset /\ board = BoardReset(NoGame) /\ store = EmptyStore(NoGame)
    /\ windows = [fixed |-> 0, switchable |-> 0, boot |-> FALSE]
    /\ savFile = << >> /\ stateFile = NothingSaved /\ busSteps = 0 /\ rewound = FALSE

\* The .sav file after a flush; a cartridge without a battery has none.
Flushed == IF game.battery /\ store.dirty THEN [savFile EXCEPT ![game] = SaveData(game, store)] ELSE savFile

\* loadRom and applyProviderBootRom, after which a boot ROM may cover the
\* first window.
LoadCartridge ==
    /\ Counted
    /\ \E g \in Cartridges, boot \in BOOLEAN :
         /\ game' = g
         /\ mapper' = MapperReset /\ board' = BoardReset(g)
         /\ savFile' = IF game = NoGame THEN [c \in Cartridges |-> SaveData(c, EmptyStore(c))] ELSE Flushed
         /\ store' = ImportSaveData(g, savFile'[g])
         /\ windows' = [fixed |-> CurrentFixedRomBank(g, mapper'), switchable |-> mapper'.bank, boot |-> boot]
    /\ rewound' = FALSE
    /\ UNCHANGED stateFile

\* A write below 0x8000: handleSpecialWrite, then the observer.
WriteRegister ==
    /\ Counted /\ game # NoGame
    /\ \E address \in Registers, value \in BusValues :
         LET next == MapperWrite(game, mapper, address, value)
             fixed == CurrentFixedRomBank(game, next)
         IN  /\ mapper' = next
             /\ board' = WriteControl(game, board, address, value)
             /\ store' = Latched(game, store, address, value)
             /\ windows' = [windows EXCEPT
                    !.switchable = IF RomBankChanged(game, address) THEN next.bank ELSE @,
                    !.fixed = IF fixed # CurrentFixedRomBank(game, mapper) THEN fixed ELSE @]
    /\ UNCHANGED <<game, savFile, stateFile, rewound>>

\* A write to 0xA000..0xBFFF reaches the cartridge through the memory map and
\* again through the observer, which finds it done.
WriteRam ==
    /\ Counted /\ game # NoGame
    /\ \E value \in BusValues :
         LET once == WriteExternalArea(game, board, store, value)
         IN  store' = WriteExternalArea(game, board, once, value)
    /\ UNCHANGED <<game, mapper, board, windows, savFile, stateFile, rewound>>

\* A write of 0xFF50 that is not zero.
DisableBootRom ==
    /\ Counted /\ windows.boot
    /\ windows' = [windows EXCEPT !.boot = FALSE]
    /\ UNCHANGED <<game, mapper, board, store, savFile, stateFile, rewound>>

\* The periodic flush of a dirty save (CartridgeSaves has its steps).
FlushCartridgeSave ==
    /\ Counted /\ game.battery /\ store.dirty
    /\ savFile' = Flushed /\ store' = [store EXCEPT !.dirty = FALSE] /\ rewound' = FALSE
    /\ UNCHANGED <<game, mapper, board, windows, stateFile>>

SaveState ==
    /\ Counted /\ game # NoGame
    /\ stateFile' = [game |-> game, mapper |-> mapper, board |-> board, store |-> store,
                     windows |-> windows]
    /\ UNCHANGED <<game, mapper, board, store, windows, savFile, rewound>>

\* What the two importState functions refuse, of a state with intact checksum.
MapperAccepts(g, m) == m.bank < RomBankCount(g) /\ m.mode <= 1
BoardAccepts(g, b) ==
    /\ IF BankCount(g) = 1 THEN b.romBank = 0
       ELSE CASE BoardMapper(g) = "MBC3" -> b.romBank \in 1 .. 127
              [] BoardMapper(g) = "MBC5" -> b.romBank <= 511
              [] BoardMapper(g) = "MBC2" -> b.romBank \in 1 .. 15
              [] OTHER -> b.romBank \in 1 .. 127
    /\ CASE BoardMapper(g) = "MBC3" -> b.ramBank < 4
         [] BoardMapper(g) = "MBC5" -> b.ramBank < 16
         [] OTHER -> b.ramBank = 0
    /\ b.rtcSelect = NoRtc \/ RtcRegisterSelected(g, b)

\* load_state: everything is imported into copies before any is put in place.
\* The mapper turns a low bank of 0 into 1; the fixed window is copied again.
LoadState ==
    /\ Counted /\ game # NoGame /\ stateFile.game = game
    /\ MapperAccepts(game, stateFile.mapper) /\ BoardAccepts(game, stateFile.board)
    /\ mapper' = [stateFile.mapper EXCEPT !.low = NonZero(@)]
    /\ board' = [stateFile.board EXCEPT !.low = NonZero(@)]
    /\ store' = ImportStore(game, store, stateFile.store)
    /\ windows' = [stateFile.windows EXCEPT !.fixed = CurrentFixedRomBank(game, mapper')]
    /\ rewound' = TRUE
    /\ UNCHANGED <<game, savFile, stateFile>>

BusNext ==
    \/ LoadCartridge \/ WriteRegister \/ WriteRam \/ DisableBootRom
    \/ FlushCartridgeSave \/ SaveState \/ LoadState

-----------------------------------------------------------------------------
(* Properties.                                                             *)

\* The bank a register pair selects, for the mapper and for the cartridge,
\* unless the program selected bank 0 of an MBC5 and a state made of it was
\* loaded: GameBoyMapper::importState then makes it bank 1.
SameSelection ==
    \/ game.mapper = "MBC1" /\ mapper.low = board.low /\ mapper.upper = board.upper /\ mapper.mode = board.mode
    \/ game.mapper \in {"MBC2", "MBC3", "MBC5"} /\ mapper.low = board.romBank
    \/ game.mapper = "MBC5" /\ board.romBank % 256 = 0 /\ mapper.low = board.romBank + 1
    \/ game.mapper = "None"

\* Whatever is written, saved and loaded, the two windows show the banks the
\* mapper's registers select (which is where S.P.A.C.E. and the debugger say
\* the CPU is), and the cartridge, which heard of the writes on another path,
\* has made the same selection of every bank the ROM has.
RomViewsAgree ==
    game # NoGame =>
        /\ windows.fixed = CurrentFixedRomBank(game, mapper)
        /\ windows.switchable = mapper.bank
        /\ SameSelection
        /\ game.mapper = BoardMapper(game) =>
               /\ CurrentFixedRomBank(game, mapper) = FixedBankIndex(game, board)
               /\ mapper.low = board.romBank /\ board.romBank < BankCount(game) =>
                      mapper.bank = SwitchableBankIndex(game, board)
               /\ game.mapper = "MBC1" => mapper.bank = SwitchableBankIndex(game, board)

\* Code that is executed or compared in one piece is the code the CPU reads
\* byte by byte, and two addresses with one name are one piece of storage.
CodeIsWhatIsRead ==
    game # NoGame =>
        /\ \A a \in Addresses, size \in ViewSizes :
             a + size <= CodeViewEnd(a) => \A i \in 0 .. size - 1 : CodeView(a, i) = Read(a + i)
        /\ \A a, b \in Addresses :
             Location(a) = Location(b) /\ Location(a)[1] \in {1, 2, 3} => Read(a) = Read(b)

\* A state the machine has saved is one it will load again: what the import
\* functions refuse is never reached by writing registers.
OwnStatesLoad ==
    stateFile # NothingSaved =>
        MapperAccepts(stateFile.game, stateFile.mapper) /\ BoardAccepts(stateFile.game, stateFile.board)

\* A cartridge with a battery that counts as clean holds what its save file
\* holds, unless a state was loaded since: load_state brings back the dirty
\* flag of the time the state was saved.
CleanMeansSaved ==
    (game.battery /\ ~store.dirty /\ ~rewound) => SaveData(game, store) = savFile[game]

=============================================================================
