---------------------------- MODULE GameGearBus -----------------------------
(***************************************************************************)
(* What the Game Gear's CPU finds at an address: the BIOS, a bank of the   *)
(* cartridge, the cartridge's RAM or the work RAM, as the mapper the facto-*)
(* ry chose for the ROM arranges them.  The generation of the mapping is   *)
(* what tells an executor that the code it holds may be somewhere else now.*)
(*                                                                         *)
(* A window of cartridge RAM is one byte.  The mappers for Sega's chips    *)
(* differ in nothing but that a 315-5365 is never saved.                   *)
(***************************************************************************)
EXTENDS Integers, Sequences

CONSTANTS
    GearCartridges, \* ROMs: banks, and the mapper the file's name, the ROM's
                    \* text and its size ask for
    GearAddresses,  \* addresses that are read and written
    GearValues,     \* values written
    MaxGearSteps    \* bound: operations on the bus

Chips == {"5208", "5235", "5365"}
Hints == Chips \cup {"codemasters", "none"}

\* What a ROM tells the factory: a size alone never asks for the Codemasters
\* mapper.
RomHints == [banks: Nat \ {0}, name: Hints, text: Hints, size: Chips]

ASSUME GearAssumption ==
    /\ GearCartridges \subseteq RomHints
    /\ GearAddresses \cup GearValues \subseteq Nat
    /\ (\A a \in GearAddresses : a < 65536) /\ (\A v \in GearValues : v < 256)

VARIABLES
    rom,            \* the ROM in the machine
    gear,           \* its mapper: kind, bank and control registers, RAM
    bios,           \* whether there is a BIOS, and the port that disables it
    codeGeneration,     \* codeMappingGeneration_
    gearFile,       \* the .sav file of each ROM
    gearState,      \* the saved state
    gearSteps,      \* bounded history: operations so far
    gearRewound     \* history: a state was loaded since the save was last written

gearVars == <<rom, gear, bios, codeGeneration, gearFile, gearState, gearSteps, gearRewound>>

NoRom == [banks |-> 1, name |-> "none", text |-> "none", size |-> "none"]
NoRam == -1         \* the Codemasters RAM before it is first mapped
NoSave == [sram |-> <<NoRam, NoRam>>, extra |-> NoRam]
NoGearState == [rom |-> NoRom]

\* createMapperFromRom, which looks at the file's name first.
MapperKind(r, withPath) ==
    CASE withPath /\ r.name # "none" -> r.name
      [] ~(withPath /\ r.name # "none") /\ r.text # "none" -> r.text
      [] OTHER -> r.size

Codemasters(g) == g.kind = "codemasters"

\* reset; a mapper's RAM lives on, the Codemasters RAM does not.
Reset(r, g) ==
    [g EXCEPT !.banks = IF Codemasters(g) THEN <<0, 1, 0>> ELSE <<0, 1 % r.banks, 2 % r.banks>>,
              !.control = 0, !.dirty = FALSE, !.extra = NoRam, !.extraMapped = FALSE, !.extraDirty = FALSE]

\* load.
NewMapper(r, kind) ==
    Reset(r, [kind |-> kind, banks |-> <<0, 0, 0>>, control |-> 0, sram |-> <<0, 0>>, dirty |-> FALSE,
              extra |-> NoRam, extraMapped |-> FALSE, extraDirty |-> FALSE])

SupportsSaveData(g) == g.kind # "5365"
HasDirtySaveData(g) == g.dirty \/ (Codemasters(g) /\ g.extraDirty)
ExportSaveData(g) ==
    IF Codemasters(g) /\ g.extra # NoRam THEN [sram |-> <<NoRam, NoRam>>, extra |-> g.extra]
    ELSE [sram |-> g.sram, extra |-> NoRam]
MarkSaveClean(g) == [g EXCEPT !.dirty = FALSE, !.extraDirty = FALSE]

\* importSaveData tells the Codemasters RAM by its size.
ImportSave(g, save) ==
    CASE save = NoSave \/ ~SupportsSaveData(g) -> MarkSaveClean(g)
      [] save # NoSave /\ SupportsSaveData(g) /\ Codemasters(g) /\ save.extra # NoRam ->
           [g EXCEPT !.extra = save.extra, !.extraDirty = FALSE]
      [] OTHER -> [g EXCEPT !.sram = IF save.extra # NoRam THEN <<save.extra, 0>> ELSE save.sram,
                            !.dirty = FALSE]

-----------------------------------------------------------------------------
(* Where an address leads.                                                 *)

SramEnabled(g) == (g.control \div 8) % 2 = 1
SramWindow(g) == 1 + ((g.control \div 4) % 2)
ExtraAt(g, address) == Codemasters(g) /\ g.extraMapped /\ 40960 <= address /\ address < 49152

\* pageBank, the low bits of the control register shifting by eight banks.
PageBank(r, g, page) == (g.banks[page + 1] + 8 * (g.control % 4)) % r.banks

HandlesControlWrite(g, address) ==
    IF Codemasters(g) THEN address < 49152 /\ ~ExtraAt(g, address) ELSE address >= 65532
HandlesMappedWrite(g, address) ==
    ExtraAt(g, address) \/ (32768 <= address /\ address < 49152 /\ SramEnabled(g))

\* The cartridge's read, as the place that is read.
CartridgeCell(r, g, address) ==
    CASE ExtraAt(g, address) -> <<"extra", address - 40960>>
      [] ~ExtraAt(g, address) /\ address >= 32768 /\ SramEnabled(g) ->
           <<"sram", SramWindow(g), address - 32768>>
      [] ~ExtraAt(g, address) /\ ~(address >= 32768 /\ SramEnabled(g)) ->
           <<"rom", IF address < 1024 THEN 0 ELSE PageBank(r, g, address \div 16384), address % 16384>>

BiosMapped == bios.present /\ (bios.control \div 8) % 2 = 0
InputPorts == {220, 221}

\* readCanonical.
ReadCell(address) ==
    CASE BiosMapped /\ address < 1024 -> <<"bios", address>>
      [] ~(BiosMapped /\ address < 1024) /\ address \in InputPorts -> <<"input">>
      [] ~(BiosMapped /\ address < 1024) /\ address \notin InputPorts /\ address < 49152 ->
           CartridgeCell(rom, gear, address)
      [] address >= 49152 /\ address < 65024 -> <<"ram", (address - 49152) % 8192>>
      [] OTHER -> <<"device", address>>

\* Mutant: the ports where a pad is read count as code.
CodeCell_Ports(address) ==
    CASE address >= 65024 -> <<"none">>
      [] address < 65024 /\ BiosMapped /\ address < 1024 -> <<"bios", address>>
      [] ~(BiosMapped /\ address < 1024) /\ address < 49152 -> CartridgeCell(rom, gear, address)
      [] OTHER -> <<"ram", (address - 49152) % 8192>>

\* peekCodeByte: no code where a read would disturb a device.
CodeCell(address) ==
    CASE address \in InputPorts \/ address >= 65024 -> <<"none">>
      [] address \notin InputPorts /\ BiosMapped /\ address < 1024 -> <<"bios", address>>
      [] address \notin InputPorts /\ ~(BiosMapped /\ address < 1024) /\ address < 49152 ->
           CartridgeCell(rom, gear, address)
      [] address >= 49152 /\ address < 65024 -> <<"ram", (address - 49152) % 8192>>

\* analysisLocation of a read: kind of storage, bank, offset.
GearLocation(address) ==
    CASE BiosMapped /\ address < 1024 -> <<2, 0, address>>
      [] ~(BiosMapped /\ address < 1024) /\ address \in InputPorts -> <<6, 0, address>>
      [] ExtraAt(gear, address) -> <<3, 3, address - 40960>>
      [] ~ExtraAt(gear, address) /\ 32768 <= address /\ address < 49152 /\ SramEnabled(gear) ->
           <<3, SramWindow(gear), address - 32768>>
      [] address >= 49152 -> <<3, 0, 49152 + (address % 8192)>>
      [] OTHER -> <<1, CartridgeCell(rom, gear, address)[2], address % 16384>>

-----------------------------------------------------------------------------
(* Writes.                                                                 *)

\* GameGearCartridge::write at 0xFFFC..0xFFFF, the control register first.
WriteBank(g, register, value) ==
    IF register = 0 THEN [g EXCEPT !.control = value] ELSE [g EXCEPT !.banks[register] = value]

\* CodemastersMapper::write anywhere in a slot; bit 7 maps its RAM.
WriteSlot(g, slot, value) ==
    LET banked == WriteBank(g, slot + 1, value % 128) IN
    IF slot # 1 THEN banked
    ELSE [banked EXCEPT !.extraMapped = value >= 128,
                        !.extra = IF value >= 128 /\ @ = NoRam THEN 0 ELSE @]

ControlWrite(g, address, value) ==
    IF Codemasters(g) THEN WriteSlot(g, address \div 16384, value)
    ELSE WriteBank(g, address - 65532, value)

\* Mutant: the first window's byte is compared whichever is written.
MappedWrite_FirstWindow(g, address, value) ==
    IF ExtraAt(g, address) THEN [g EXCEPT !.extra = value, !.extraDirty = TRUE]
    ELSE [g EXCEPT !.sram[SramWindow(g)] = value, !.dirty = @ \/ g.sram[1] # value]

MappedWrite(g, address, value) ==
    IF ExtraAt(g, address) THEN [g EXCEPT !.extra = value, !.extraDirty = TRUE]
    ELSE IF g.sram[SramWindow(g)] = value THEN g
    ELSE [g EXCEPT !.sram[SramWindow(g)] = value, !.dirty = TRUE]

-----------------------------------------------------------------------------
(* The machine.                                                            *)

GearInit ==
    /\ rom = NoRom /\ gear = NewMapper(NoRom, "none")
    /\ bios = [present |-> FALSE, control |-> 255]
    /\ codeGeneration = 1 /\ gearFile = << >> /\ gearState = NoGearState
    /\ gearSteps = 0 /\ gearRewound = FALSE

GearCounted == gearSteps < MaxGearSteps /\ gearSteps' = gearSteps + 1
HasRom == rom # NoRom

Saved(r, g, files) ==
    IF r # NoRom /\ SupportsSaveData(g) /\ HasDirtySaveData(g)
    THEN [files EXCEPT ![r] = ExportSaveData(g)] ELSE files

\* loadRom: the save is read into the new mapper before the memory map, and
\* with it the mapper, is reset.
Started(r, save) == Reset(r, ImportSave(NewMapper(r, MapperKind(r, TRUE)), save))

InsertRom ==
    /\ GearCounted
    /\ \E r \in GearCartridges :
         /\ rom' = r
         /\ gearFile' = IF HasRom THEN Saved(rom, gear, gearFile) ELSE [c \in GearCartridges |-> NoSave]
         /\ gear' = Started(r, gearFile'[r])
    /\ bios' = [bios EXCEPT !.control = IF bios.present THEN 247 ELSE 255]
    /\ codeGeneration' = codeGeneration + 2 /\ gearRewound' = FALSE
    /\ UNCHANGED gearState

\* loadExternalBootRom, which does not touch the port.
InsertBios ==
    /\ GearCounted /\ ~bios.present
    /\ bios' = [bios EXCEPT !.present = TRUE] /\ codeGeneration' = codeGeneration + 1
    /\ UNCHANGED <<rom, gear, gearFile, gearState, gearRewound>>

\* Mutant: only a write at the top of memory counts as a new mapping.
WriteMemory_TopOnly ==
    /\ GearCounted /\ HasRom
    /\ \E address \in GearAddresses, value \in GearValues :
         \/ /\ HandlesControlWrite(gear, address)
            /\ gear' = ControlWrite(gear, address, value)
            /\ codeGeneration' = codeGeneration + (IF address >= 65532 THEN 1 ELSE 0)
         \/ /\ ~HandlesControlWrite(gear, address) /\ HandlesMappedWrite(gear, address)
            /\ gear' = MappedWrite(gear, address, value) /\ UNCHANGED codeGeneration
    /\ UNCHANGED <<rom, bios, gearFile, gearState, gearRewound>>

\* writeCanonical, where the cartridge takes the write.
WriteMemory ==
    /\ GearCounted /\ HasRom
    /\ \E address \in GearAddresses, value \in GearValues :
         \/ /\ HandlesControlWrite(gear, address)
            /\ gear' = ControlWrite(gear, address, value) /\ codeGeneration' = codeGeneration + 1
         \/ /\ ~HandlesControlWrite(gear, address) /\ HandlesMappedWrite(gear, address)
            /\ gear' = MappedWrite(gear, address, value) /\ UNCHANGED codeGeneration
    /\ UNCHANGED <<rom, bios, gearFile, gearState, gearRewound>>

\* writeIoCanonical, the memory control port.
WriteMemoryControl ==
    /\ GearCounted /\ HasRom
    /\ \E value \in GearValues :
         /\ bios' = [bios EXCEPT !.control = value]
         /\ codeGeneration' = IF bios.control # value THEN codeGeneration + 1 ELSE codeGeneration
    /\ UNCHANGED <<rom, gear, gearFile, gearState, gearRewound>>

\* The periodic flush of a dirty save.
FlushGearSave ==
    /\ GearCounted /\ HasRom /\ SupportsSaveData(gear) /\ HasDirtySaveData(gear)
    /\ gearFile' = Saved(rom, gear, gearFile) /\ gear' = MarkSaveClean(gear)
    /\ gearRewound' = FALSE
    /\ UNCHANGED <<rom, bios, codeGeneration, gearState>>

SaveGearState ==
    /\ GearCounted /\ HasRom
    /\ gearState' = [rom |-> rom, gear |-> gear, bios |-> bios]
    /\ UNCHANGED <<rom, gear, bios, codeGeneration, gearFile, gearRewound>>

\* importState: the Codemasters mapper writes more than the others read, and
\* reads more than they write.
Imports(kind, g) == (kind = "codemasters") <=> Codemasters(g)

\* load_state makes a new mapper without the file's name, and imports into it.
LoadGearState ==
    /\ GearCounted /\ HasRom /\ gearState.rom = rom
    /\ Imports(MapperKind(rom, FALSE), gearState.gear)
    /\ gear' = [gearState.gear EXCEPT !.kind = MapperKind(rom, FALSE)]
    /\ bios' = gearState.bios
    /\ codeGeneration' = codeGeneration + 2 /\ gearRewound' = TRUE
    /\ UNCHANGED <<rom, gearFile, gearState>>

GearNext ==
    \/ InsertRom \/ InsertBios \/ WriteMemory \/ WriteMemoryControl
    \/ FlushGearSave \/ SaveGearState \/ LoadGearState

-----------------------------------------------------------------------------
(* Properties.                                                             *)

\* What an executor may take for code is what the CPU reads there, and no
\* device; two addresses with one name are one piece of storage.
GearCodeIsWhatIsRead ==
    HasRom =>
        \A a \in GearAddresses :
            /\ CodeCell(a)[1] # "none" => CodeCell(a) = ReadCell(a)
            /\ \A b \in GearAddresses :
                 GearLocation(a) = GearLocation(b) /\ GearLocation(a)[1] \in {1, 2} => ReadCell(a) = ReadCell(b)

\* Code never moves without the generation of the mapping moving: it is what
\* a lowered or translated block is checked against.
CodeMovesOpenly ==
    [][ (HasRom /\ \E a \in GearAddresses : CodeCell(a)' # CodeCell(a))
            => codeGeneration' # codeGeneration ]_gearVars

\* A clean cartridge holds what the next start will load from its save file,
\* unless a state was loaded since, the mapper the next start makes is one that
\* is never saved, or the RAM is a Codemasters cartridge's, which loadRom
\* resets after it has read the file into it.
GearCleanMeansSaved ==
    LET next == Started(rom, gearFile[rom]) IN
    (HasRom /\ ~HasDirtySaveData(gear) /\ ~gearRewound /\ SupportsSaveData(next)
        /\ gear.extra = NoRam /\ gearFile[rom].extra = NoRam) => gear.sram = next.sram

\* A saved state can be loaded again into the ROM it is of, unless the mapper
\* was chosen by the file's name, which load_state does not look at.
GearOwnStatesLoad ==
    gearState # NoGearState =>
        \/ Imports(MapperKind(gearState.rom, FALSE), gearState.gear)
        \/ gearState.rom.name # "none"
=============================================================================
