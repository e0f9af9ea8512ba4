----------------------------- MODULE GameGearVdp -----------------------------
(***************************************************************************)
(* The Game Gear's video chip while a program runs: its ports and latches, *)
(* the palette decoded from colour memory, the line counter, interrupts    *)
(* and frames, save states, and the pilot that lets a halted machine sleep *)
(* through several polls at once (GameGearMachine::runSlice).  What a      *)
(* frame looks like is GearPicture's.                                      *)
(*                                                                         *)
(* Lines and colours are fewer here.  A byte of video memory that was not  *)
(* written is zero, except the hidden sprites of a reset.                  *)
(***************************************************************************)
EXTENDS GearPicture

CONSTANTS
    LineCycles,         \* CPU cycles of a scanline
    FrameLines,         \* scanlines of a frame
    CounterLines,       \* values of the vertical counter
    ActiveLines,        \* by display mode 192, 224, 240: lines with a picture
    CounterTop,         \* by display mode: last line before the counter steps back
    SpriteStatus,       \* by line: what its sprites set, of "overflow", "collision"
    Colors,             \* entries of the palette
    SampleCycles,       \* CPU cycles of an audio sample
    ChipValues,         \* bytes the program sends to the ports
    Prologues,          \* bytes the program has sent to the control port to begin with
    ProgramCycles,      \* cycles of an instruction
    InterruptCycles,    \* cycles of taking an interrupt
    MaxAccesses         \* accesses of the program

\* Instructions are shorter than a line, and the lines of every mode end before the
\* frame does.
ASSUME VdpAssumption ==
    /\ {LineCycles, FrameLines, SampleCycles, Colors, MaxAccesses} \subseteq Nat \ {0}
    /\ CounterLines \in Nat /\ 4 <= LineCycles
    /\ ProgramCycles \cup {InterruptCycles} \subseteq 1 .. LineCycles
    /\ ChipValues \subseteq 0 .. 255 /\ \A bytes \in Prologues : bytes \in Seq(0 .. 255)
    /\ {192, 224, 240} \subseteq DOMAIN ActiveLines
    /\ \A height \in {192, 224, 240} :
          ActiveLines[height] \in Nat /\ ActiveLines[height] + 1 < FrameLines

VARIABLES
    chip,       \* the video chip
    cpu,        \* halted; enabled: it takes interrupts; requested: the machine's flag
    psgPhase,   \* cycles since the last audio sample
    saved,      \* a saved state
    accesses,   \* number of accesses so far
    past        \* history: lines since VBlank, register 10 and mode of the frame, ports

vdpVars == <<chip, cpu, psgPhase, saved, accesses, past>>

LOCAL Has(f, bit) == (f \div bit) % 2 = 1
Nothing == -1      \* no number, in the history
-----------------------------------------------------------------------------
(* Registers, palette and interrupts.                                      *)

Active(c) == ActiveLines[DisplayLines(c)]

VCounter(c) ==
    IF c.line <= CounterTop[DisplayLines(c)] THEN c.line
    ELSE IF DisplayLines(c) = 240 THEN c.line % CounterLines
    ELSE c.line - (FrameLines - CounterLines)

IrqAsserted(c) ==
    \/ c.frameIrq /\ Has(c.regs[1], 32)
    \/ c.lineIrq /\ Has(c.regs[0], 16)
WithIrq(c) == [c EXCEPT !.irq = IrqAsserted(c)]

\* A colour from two bytes on the Game Gear and from one in Master System mode.
DecodedColor(c, i) ==
    LET even == c.cram[2 * i]
        odd == c.cram[2 * i + 1]
        byte == c.cram[i]
    IN  IF c.sms THEN <<(byte % 4) * 85, ((byte \div 4) % 4) * 85, ((byte \div 16) % 4) * 85>>
        ELSE <<(even % 16) * 17, (even \div 16) * 17, (odd % 16) * 17>>

UpdateDecodedCramEntry(c, i) == [c EXCEPT !.decoded[i] = DecodedColor(c, i)]
RecomputeDecodedCramCache(c) == [c EXCEPT !.decoded = [i \in 0 .. Colors - 1 |-> DecodedColor(c, i)]]
SetSmsMode(c, sms) == RecomputeDecodedCramCache([c EXCEPT !.sms = sms])

VramOf(c, address) ==
    IF address \in DOMAIN c.vram THEN c.vram[address]
    ELSE IF address \in 16128 .. 16191 THEN 224 ELSE 0

Reset(sms) ==
    RecomputeDecodedCramCache(
      [vram |-> <<>>,
       regs |-> [r \in 0 .. 10 |-> IF r \in {2, 5, 6} THEN 255 ELSE 0],
       cram |-> [i \in 0 .. 2 * Colors - 1 |-> <<254, 13, 200, 7>>[(i % 4) + 1]],
       decoded |-> [i \in 0 .. Colors - 1 |-> <<>>],
       cycles |-> 0, line |-> 0, lastReady |-> 0, ready |-> FALSE, vblank |-> FALSE,
       frameIrq |-> FALSE, lineIrq |-> FALSE, irq |-> FALSE,
       overflow |-> FALSE, collision |-> FALSE, statusLine |-> 255, consumed |-> TRUE,
       addr |-> 0, low |-> 0, buffer |-> 0, mode |-> 0, latch |-> FALSE,
       lineCounter |-> 0, scroll |-> 0, sms |-> sms])

WriteCompatRegister(c, r, v) ==
    IF r > 10 THEN c
    ELSE LET w == [c EXCEPT !.regs[r] = v]
         IN  WithIrq([w EXCEPT
                 !.scroll = IF r = 9 /\ c.line > Active(w) THEN v ELSE @,
                 !.lineCounter = IF r = 10 /\ c.line = 0 THEN v ELSE @])
-----------------------------------------------------------------------------
(* The ports.                                                              *)

NextAddress(c) == [c EXCEPT !.addr = (@ + 1) % 16384]

ReadDataPort(c) == NextAddress([c EXCEPT !.latch = FALSE, !.buffer = VramOf(c, c.addr)])

EvaluateScanlineStatus(c, line) ==
    [c EXCEPT !.statusLine = line, !.consumed = FALSE,
              !.overflow = @ \/ "overflow" \in SpriteStatus[line],
              !.collision = @ \/ "collision" \in SpriteStatus[line]]

ReadControlPort(c) ==
    LET line == VCounter(c)
        looked == IF line < Active(c) /\ (~c.consumed \/ line # c.statusLine)
                  THEN EvaluateScanlineStatus(c, line) ELSE c
    IN  WithIrq([looked EXCEPT !.latch = FALSE, !.frameIrq = FALSE, !.lineIrq = FALSE,
                               !.overflow = FALSE, !.collision = FALSE,
                               !.statusLine = line, !.consumed = TRUE])

WriteCram(c, v) ==
    LET size == IF c.sms THEN Colors ELSE 2 * Colors
        i == c.addr % size
    IN  IF c.sms THEN UpdateDecodedCramEntry([c EXCEPT !.cram[i] = v % 64], i)
        ELSE UpdateDecodedCramEntry([c EXCEPT !.cram[i] = v], i \div 2)

WriteDataPort(c, v) ==
    LET taken == [c EXCEPT !.latch = FALSE, !.buffer = v]
    IN  IF c.mode = 3 THEN NextAddress(WriteCram(taken, v))
        ELSE NextAddress([taken EXCEPT !.vram = (c.addr :> v) @@ @])

\* The first byte is latched, and is the low half of the address already.
WriteControlPort(c, v) ==
    LET command == v \div 64
        second == [c EXCEPT !.latch = FALSE, !.mode = command, !.addr = (v % 64) * 256 + c.low]
    IN  IF ~c.latch
        THEN [c EXCEPT !.low = v, !.addr = ((@ \div 256) % 64) * 256 + v, !.latch = TRUE]
        ELSE CASE command = 2 -> WriteCompatRegister(second, v % 16, c.low)
               [] command = 0 -> NextAddress([second EXCEPT !.buffer = VramOf(second, second.addr)])
               [] OTHER -> second

\* The sprite table as the addresses of a Game Boy's, and the registers as its.
OamPlace(c, sprite, field) ==
    LET base == SpriteTableBase(c)
    IN  CASE field = 0 -> base + sprite
          [] field = 1 -> (base + 128 + sprite * 2) % 16384
          [] field = 2 -> (base + 129 + sprite * 2) % 16384
WriteOam(c, sprite, field, v) ==
    IF field = 3 THEN c ELSE [c EXCEPT !.vram = (OamPlace(c, sprite, field) :> v) @@ @]
-----------------------------------------------------------------------------
(* Time.                                                                   *)

LineEnds(c, displayOn) ==
    LET shown == IF displayOn /\ c.line < Active(c)
                 THEN [EvaluateScanlineStatus(c, VCounter(c)) EXCEPT
                          !.lastReady = VCounter(c), !.ready = TRUE]
                 ELSE c
        next == [shown EXCEPT !.line = (@ + 1) % FrameLines]
        counted ==
            CASE next.line > Active(c) ->
                   [next EXCEPT !.lineCounter = c.regs[10], !.scroll = c.regs[9]]
              [] next.line <= Active(c) /\ c.lineCounter = 0 ->
                   WithIrq([next EXCEPT !.lineCounter = c.regs[10], !.lineIrq = TRUE])
              [] OTHER -> [next EXCEPT !.lineCounter = @ - 1]
    IN  IF next.line = Active(c) + 1
        THEN WithIrq([counted EXCEPT !.vblank = TRUE, !.frameIrq = TRUE])
        ELSE counted

\* The chip after each of some lines; the display is on or off for all of them.
LinesEnd(c, lines) ==
    LET after[n \in 0 .. lines] ==
          IF n = 0 THEN c ELSE LineEnds(after[n - 1], DisplayEnabled(c))
    IN  after

StepVdp(c, cycles) ==
    LET ended == (c.cycles + cycles) \div LineCycles
    IN  [LinesEnd(c, ended)[ended] EXCEPT !.cycles = (c.cycles + cycles) % LineCycles]

HasPendingRetirementEvent(c) == c.ready \/ c.vblank \/ c.irq

ImportState(c) == WithIrq(RecomputeDecodedCramCache(c))
-----------------------------------------------------------------------------
(* The machine.                                                            *)

\* The past after a step from c to d: whether the frame so far kept its height and
\* its line counter's period, its lines, and those of the last whole frame.
Followed(c, d) ==
    LET undisturbed == past.height # Nothing /\ Active(d) = past.height
    IN  IF d.vblank
        THEN [past EXCEPT !.last = IF undisturbed THEN past.lines + 1 ELSE Nothing,
                          !.lines = 0, !.height = Active(d), !.period = d.regs[10]]
        ELSE [past EXCEPT !.lines = IF undisturbed /\ d.line # c.line THEN @ + 1 ELSE @,
                          !.height = IF undisturbed THEN @ ELSE Nothing,
                          !.period = IF d.regs[10] = @ THEN @ ELSE Nothing]

\* onInstructionRetired after an instruction that left the chip as c.
OnInstructionRetired(c, cycles, asked) ==
    LET d == StepVdp(c, cycles)
    IN  /\ chip' = [d EXCEPT !.ready = FALSE, !.vblank = FALSE]
        /\ psgPhase' = (psgPhase + cycles) % SampleCycles
        /\ past' = [Followed(chip, d) EXCEPT
                      !.reading = asked,
                      !.period = IF c.lineCounter = chip.lineCounter THEN @ ELSE Nothing]

CountAccess == accesses < MaxAccesses /\ accesses' = accesses + 1

\* An instruction of the program that leaves the chip as c, and the address whose
\* byte the data port is going to return.
Access(c, asked) ==
    /\ ~cpu.halted
    /\ CountAccess
    /\ \E cycles \in ProgramCycles : OnInstructionRetired(c, cycles, asked)
    /\ cpu' = [cpu EXCEPT !.requested = @ \/ chip'.irq]
    /\ UNCHANGED saved

ReadsData ==
    Access(ReadDataPort(chip),
           IF past.reading = Nothing THEN Nothing ELSE (past.reading + 1) % 16384)
ReadsStatus == Access(ReadControlPort(chip), past.reading)
WritesData(v) == Access(WriteDataPort(chip, v), Nothing)
WritesCommand(v) ==
    LET c == WriteControlPort(chip, v)
    IN  Access(c, IF chip.latch /\ v \div 64 = 0 THEN (v % 64) * 256 + chip.low ELSE Nothing)
WritesOam(sprite, field, v) == Access(WriteOam(chip, sprite, field, v), Nothing)
WritesRegister(r, v) == Access(WriteCompatRegister(chip, r, v), past.reading)

\* An instruction without an access, or the taking of an interrupt.
Executes ==
    /\ ~cpu.halted
    /\ \E cycles \in ProgramCycles : OnInstructionRetired(chip, cycles, past.reading)
    /\ cpu' = [cpu EXCEPT !.requested = (IF cpu.enabled THEN FALSE ELSE @) \/ chip'.irq]
    /\ UNCHANGED <<saved, accesses>>

\* EI or DI, or HALT.  That EI takes effect one instruction later is left out.
Controls(halted, enabled) ==
    /\ ~cpu.halted
    /\ halted => enabled = cpu.enabled
    /\ CountAccess
    /\ OnInstructionRetired(chip, 4, past.reading)
    /\ cpu' = [halted |-> halted, enabled |-> enabled, requested |-> cpu.requested \/ chip'.irq]
    /\ UNCHANGED saved

\* A poll of a halted CPU: it wakes for an interrupt it takes.
PollsHalted ==
    /\ cpu.halted
    /\ LET wakes == cpu.enabled /\ chip.irq
       IN  /\ OnInstructionRetired(chip, IF wakes THEN InterruptCycles ELSE 4, past.reading)
           /\ cpu' = [halted |-> ~wakes, enabled |-> cpu.enabled /\ ~wakes,
                      requested |-> (IF cpu.enabled THEN FALSE ELSE cpu.requested) \/ chip'.irq]
    /\ UNCHANGED <<saved, accesses>>

\* Mutant: a poll that ends on the scanline's or the sample's last cycle is slept through.
BulkPolls_Touching ==
    LET lineLeft == LineCycles - chip.cycles
        sampleLeft == SampleCycles - psgPhase
    IN  IF HasPendingRetirementEvent(chip) \/ cpu.requested THEN 0
        ELSE (IF lineLeft <= sampleLeft THEN lineLeft ELSE sampleLeft) \div 4

\* The polls that lie strictly before the next scanline and the next sample.
BulkPolls ==
    LET lineLeft == LineCycles - chip.cycles
        sampleLeft == SampleCycles - psgPhase
    IN  IF HasPendingRetirementEvent(chip) \/ cpu.requested THEN 0
        ELSE ((IF lineLeft <= sampleLeft THEN lineLeft ELSE sampleLeft) - 1) \div 4

\* With a budget of instructions a slice may stop earlier.
SleepsThrough(polls) ==
    /\ cpu.halted
    /\ polls >= 2 /\ polls <= BulkPolls
    /\ chip' = StepVdp(chip, 4 * polls)
    /\ psgPhase' = (psgPhase + 4 * polls) % SampleCycles
    /\ UNCHANGED <<cpu, saved, accesses, past>>

SavesState ==
    /\ saved = << >> /\ CountAccess
    /\ saved' = <<[chip |-> chip, cpu |-> cpu]>>
    /\ UNCHANGED <<chip, cpu, psgPhase, past>>

LoadsState ==
    /\ saved # << >> /\ CountAccess
    /\ chip' = ImportState(saved[1].chip)
    /\ cpu' = saved[1].cpu
    /\ past' = [past EXCEPT !.height = Nothing, !.period = Nothing, !.reading = Nothing, !.last = Nothing]
    /\ UNCHANGED <<psgPhase, saved>>

\* Only tests switch the chip to Master System mode.
SwitchesMode(sms) ==
    /\ CountAccess
    /\ chip' = SetSmsMode(chip, sms)
    /\ past' = [past EXCEPT !.height = IF Active(chip') = @ THEN @ ELSE Nothing]
    /\ UNCHANGED <<cpu, psgPhase, saved>>

\* The chip after each byte of the prologue, with the screen switched on before.
Commanded(bytes) ==
    LET sent[n \in 0 .. Len(bytes)] ==
          IF n = 0 THEN WriteCompatRegister(Reset(FALSE), 1, 64)
          ELSE WriteControlPort(sent[n - 1], bytes[n])
    IN  sent

VdpInit ==
    /\ \E bytes \in Prologues : chip = Commanded(bytes)[Len(bytes)]
    /\ cpu = [halted |-> FALSE, enabled |-> FALSE, requested |-> FALSE]
    /\ psgPhase = 0 /\ saved = << >> /\ accesses = 0
    /\ past = [lines |-> 0, height |-> Nothing, period |-> Nothing, last |-> Nothing, reading |-> Nothing]

VdpNext ==
    \/ Executes \/ PollsHalted \/ SavesState \/ LoadsState
    \/ ReadsData \/ ReadsStatus
    \/ \E v \in ChipValues :
          WritesData(v) \/ WritesCommand(v) \/ WritesRegister(10, v) \/ WritesOam(0, 1, v)
    \/ \E halted, enabled \in BOOLEAN : Controls(halted, enabled)
    \/ \E polls \in 2 .. LineCycles \div 4 : SleepsThrough(polls)
    \/ \E sms \in BOOLEAN \ {chip.sms} : SwitchesMode(sms)

VdpSpec == VdpInit /\ [][VdpNext]_vdpVars
-----------------------------------------------------------------------------
\* The interrupt line says what the flags and enables say (recomputeIrqAsserted).
IrqFollowsFlags == chip.irq = IrqAsserted(chip)

\* The palette is colour memory, decoded in the mode of now (updateDecodedCramEntry).
PaletteFresh == chip.decoded = RecomputeDecodedCramCache(chip).decoded

\* After an address for reading, the data port returns the bytes from there on
\* (readBuffer_).
ReadsInOrder == past.reading # Nothing => chip.buffer = VramOf(chip, past.reading)

\* A frame whose height does not change is announced after all its lines (step).
FramesWhole ==
    /\ past.last \in {Nothing, FrameLines}
    /\ past.height # Nothing => past.lines < FrameLines

\* Line interrupts are as far apart as register 10 says, counted from the frame's
\* first line; a write of the register on that line restarts the count
\* (lineCounter_, writeCompatRegister).
LinesCounted ==
    past.height # Nothing /\ past.period # Nothing /\ chip.line <= Active(chip) =>
        chip.lineCounter = past.period - ((chip.line + 1) % (past.period + 1))

\* Polls slept through change what so many single polls would have, and no event
\* of the chip falls among them (the comment "Strict interior only: no sample,
\* scanline, IRQ or plugin boundary crossed" in GameGearMachine::runSlice).
SleepInvisible ==
    \A polls \in 2 .. BulkPolls :
        LET alone[i \in 0 .. polls] == IF i = 0 THEN chip ELSE StepVdp(alone[i - 1], 4)
        IN  /\ StepVdp(chip, 4 * polls) = alone[polls]
            /\ ~HasPendingRetirementEvent(alone[polls]) /\ alone[polls].line = chip.line
            /\ psgPhase + 4 * polls < SampleCycles

ChipHonest ==
    /\ IrqFollowsFlags /\ PaletteFresh /\ ReadsInOrder
    /\ FramesWhole /\ LinesCounted /\ SleepInvisible
=============================================================================
