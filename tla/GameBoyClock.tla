---------------------------- MODULE GameBoyClock ----------------------------
(***************************************************************************)
(* What the Game Boy's clock drives while a program runs: interrupts, HALT *)
(* and STOP, the divider and timer, and the LCD, which the machine keeps   *)
(* twice.  The CPU counts dots to raise its interrupts and to answer       *)
(* reads; the PPU counts them to render lines and to announce frames.      *)
(* Each is advanced by the cycles of every retired instruction.            *)
(*                                                                         *)
(* The machine attaches the CPU to its memory map, so a register written   *)
(* by the program is stored there and copied to the CPU's register.  The   *)
(* handlers of the CPU's own store (OAM DMA by cycles, serial transfers, a *)
(* reset of the divider, a restart of LY) do not run in the machine.       *)
(*                                                                         *)
(* The program is any sequence of instructions; the ones that change a     *)
(* device are counted.  Memory, the program counter, sound and the pixels  *)
(* are left out.                                                           *)
(***************************************************************************)
EXTENDS Integers, FiniteSets

CONSTANTS
    LineDots, SearchDots, DrawDots,     \* 456; modes 2 and 3 end at 80 and 252
    VisibleLines, TotalLines,           \* 144 and 154
    TimerPeriod, TimerSize,             \* cycles of a timer tick, ticks to an overflow
    InstructionCycles,                  \* what an instruction may cost
    IdleCycles, EntryCycles,            \* 4 and 20
    IeValues, StatValues,               \* what the program writes to IE and STAT
    MaxOperations                       \* bound: instructions that change a device

\* An instruction is shorter than a line.
ASSUME ClockAssumption ==
    /\ {SearchDots, DrawDots, LineDots} \subseteq Nat \ {0}
    /\ SearchDots < DrawDots /\ DrawDots < LineDots
    /\ VisibleLines \in Nat \ {0} /\ TotalLines \in Nat /\ VisibleLines < TotalLines
    /\ {TimerPeriod, TimerSize} \subseteq Nat \ {0}
    /\ InstructionCycles \cup {IdleCycles, EntryCycles} \subseteq 1 .. LineDots - 1
    /\ MaxOperations \in Nat

VARIABLES
    cpu,        \* LR3592_DMG: interrupt state, devices, its own LCD
    ppu,        \* GameBoyPPU
    operations, \* instructions that have changed a device so far
    last,       \* history: the VBlank interrupt and the frame event of the last
                \* step, and whether the frame was complete
    apart       \* history: the two LCDs were set apart (see LcdsAgree)

clockVars == <<cpu, ppu, operations, last, apart>>

\* The order in which pending interrupts are served.
Priority == <<"vblank", "stat", "timer", "serial", "joypad">>

-----------------------------------------------------------------------------
(* The state after reset.                                                  *)

NewPpu == [dot |-> 0, ly |-> 0, mode |-> "draw", captured |-> {}, on |-> FALSE]

\* What loadRom sets in the cpu, and what it leaves.
Loaded(s) ==
    [s EXCEPT !.ime = FALSE, !.enabling = FALSE, !.delay = 0, !.halt = FALSE, !.stop = FALSE,
              !.enabled = {}, !.requested = {"vblank"},
              !.timer = FALSE, !.tima = 0, !.divider = 0,
              !.sources = {}, !.lyc = 0, !.lcd = TRUE]

NewCore ==
    Loaded([ime |-> FALSE, enabling |-> FALSE, delay |-> 0, halt |-> FALSE, stop |-> FALSE,
            enabled |-> {}, requested |-> {}, timer |-> FALSE, tima |-> 0, divider |-> 0,
            sources |-> {}, lyc |-> 0, lcd |-> TRUE,
            dot |-> 0, lcdLast |-> FALSE, latched |-> FALSE])

NoEvent == [interrupt |-> FALSE, frame |-> FALSE, complete |-> TRUE]

ClockInit ==
    /\ cpu = NewCore /\ ppu = NewPpu
    /\ operations = 0 /\ last = NoEvent /\ apart = FALSE

-----------------------------------------------------------------------------
(* One cycle of the core's devices, in retireInstruction.                  *)

\* The timer ticks when its bit of the divider falls; TIMA, when it overflows,
\* is reloaded (with zero here) and raises its interrupt.
Signal(s, divider) == s.timer /\ divider >= TimerPeriod \div 2
Falls(s, divider) == Signal(s, s.divider) /\ ~Signal(s, divider)
TimerInterrupt(s, divider) == {i \in {"timer"} : Falls(s, divider) /\ s.tima = TimerSize - 1}
DividerSet(s, divider) ==
    [s EXCEPT !.divider = divider,
              !.tima = IF Falls(s, divider) THEN (@ + 1) % TimerSize ELSE @,
              !.requested = @ \cup TimerInterrupt(s, divider)]

ModeAt(dot) ==
    LET line == dot % LineDots IN
    IF dot \div LineDots >= VisibleLines THEN "vblank"
    ELSE IF line < SearchDots THEN "search" ELSE IF line < DrawDots THEN "draw" ELSE "hblank"

\* The core's LCD: switched on, it starts at the first dot.
From(s) == IF s.lcdLast THEN s.dot ELSE 0
NextDot(s) == IF s.lcd THEN (From(s) + 1) % (TotalLines * LineDots) ELSE 0
StatLine(s) ==
    /\ s.lcd
    /\ \/ "lyc" \in s.sources /\ NextDot(s) \div LineDots = s.lyc
       \/ ModeAt(NextDot(s)) \in s.sources
LcdInterrupts(s) ==
    {i \in {"stat"} : StatLine(s) /\ ~(s.latched /\ s.lcdLast)}
    \cup {i \in {"vblank"} : /\ s.lcd /\ From(s) \div LineDots # VisibleLines
                             /\ NextDot(s) \div LineDots = VisibleLines}

Tick(s) ==
    [DividerSet(s, (s.divider + 1) % TimerPeriod) EXCEPT
        !.dot = NextDot(s), !.latched = StatLine(s), !.lcdLast = s.lcd,
        !.requested = @ \cup LcdInterrupts(s)]

\* EI takes effect when the instruction after it retires.
Enabling(s) ==
    IF ~s.enabling THEN s
    ELSE IF s.delay > 0 THEN [s EXCEPT !.delay = @ - 1]
    ELSE [s EXCEPT !.ime = TRUE, !.enabling = FALSE]

\* retireInstruction, the cycles one by one.  (The sets of one element have TLC
\* evaluate each state once.)
Retired(s, cycles) ==
    LET run[i \in 0 .. cycles] ==
            IF i = 0 THEN {s} ELSE {Tick(t) : t \in run[i - 1]} IN
    {Enabling(t) : t \in run[cycles]}

-----------------------------------------------------------------------------
(* The PPU, in onInstructionRetired.                                       *)

Capture(p) ==
    [p EXCEPT !.captured = IF p.ly < VisibleLines /\ p.dot >= SearchDots THEN @ \cup {p.ly} ELSE @]

\* The end of a line; with the last one the captured lines are forgotten.
NextLine(p) ==
    LET ly == (p.ly + 1) % TotalLines IN
    [p EXCEPT !.dot = @ - LineDots, !.ly = ly,
              !.captured = IF ly = 0 THEN {} ELSE @,
              !.mode = IF ly < VisibleLines THEN "draw" ELSE "vblank"]

\* Mutant: switching the LCD off leaves the dots of the line.
PpuOff_KeepsDots(p) == [p EXCEPT !.ly = 0, !.mode = "hblank", !.captured = {}, !.on = FALSE]

PpuOff(p) == [p EXCEPT !.dot = 0, !.ly = 0, !.mode = "hblank", !.captured = {}, !.on = FALSE]

PpuOn(p, cycles) ==
    LET drawn == Capture([p EXCEPT !.dot = @ + cycles, !.on = TRUE])
        there == IF drawn.dot >= LineDots THEN Capture(NextLine(drawn)) ELSE drawn IN
    IF there.ly < VisibleLines THEN [there EXCEPT !.mode = ModeAt(there.dot)] ELSE there

PpuStep(p, on, cycles) == IF on THEN PpuOn(p, cycles) ELSE PpuOff(p)

\* The frame event: the line after the last visible one begins.
EntersVBlank(p, on, cycles) ==
    on /\ p.ly = VisibleLines - 1 /\ p.dot + cycles >= LineDots

-----------------------------------------------------------------------------
(* A step of the machine: fetch, execute, retire.                          *)

Pending(s) == s.requested \cap s.enabled

\* The step takes this many cycles on the cpu as execution left it.
Retires(s, cycles) ==
    LET frame == EntersVBlank(ppu, s.lcd, cycles) IN
    /\ cpu' \in Retired(s, cycles)
    /\ ppu' = PpuStep(ppu, s.lcd, cycles)
    /\ last' = [interrupt |-> "vblank" \in cpu'.requested \ s.requested, frame |-> frame,
                complete |-> frame => ppu'.captured = 0 .. VisibleLines - 1]

Fetches == ~cpu.stop /\ ~(cpu.halt /\ Pending(cpu) = {})

\* Mutant: a step without an instruction costs nothing.
IdleStep_Free ==
    /\ ~Fetches
    /\ UNCHANGED clockVars

\* fetchInto finds nothing to execute: stopped, or halted with nothing pending.
\* Time passes.
IdleStep ==
    /\ ~Fetches
    /\ Retires(cpu, IdleCycles)
    /\ UNCHANGED <<operations, apart>>

\* serviceInterruptIfPending: the first in priority, and no other until EI.
ServiceInterrupt ==
    LET served == Priority[CHOOSE i \in DOMAIN Priority :
                      /\ Priority[i] \in Pending(cpu)
                      /\ \A j \in 1 .. i - 1 : Priority[j] \notin Pending(cpu)] IN
    /\ Fetches /\ cpu.ime /\ Pending(cpu) # {}
    /\ Retires([cpu EXCEPT !.halt = FALSE, !.ime = FALSE, !.enabling = FALSE, !.delay = 0,
                            !.requested = @ \ {served}], EntryCycles)
    /\ UNCHANGED <<operations, apart>>

Running == [cpu EXCEPT !.halt = FALSE]
Decodes == Fetches /\ ~(cpu.ime /\ Pending(cpu) # {})

\* An instruction that touches no device.
Instruction(cycles) ==
    /\ Decodes /\ Retires(Running, cycles)
    /\ UNCHANGED <<operations, apart>>

\* One that does.
Changes(s, cycles) ==
    /\ Decodes /\ operations < MaxOperations /\ operations' = operations + 1
    /\ Retires(s, cycles)

SetIme(b) == [Running EXCEPT !.ime = b, !.enabling = FALSE, !.delay = 0]
ScheduleImeEnable == [Running EXCEPT !.enabling = TRUE, !.delay = 1]

CpuControls(cycles) ==
    /\ \E s \in {SetIme(FALSE), SetIme(TRUE), ScheduleImeEnable,
                 [Running EXCEPT !.halt = TRUE], [Running EXCEPT !.stop = TRUE]} :
            Changes(s, cycles)
    /\ UNCHANGED apart

\* A device's register is written: IE, IF, STAT's sources, LYC or TAC.  (DIV,
\* LY, DMA and the serial port keep nothing the clock reads.)
DeviceWrites(cycles) ==
    /\ \E s \in {[Running EXCEPT !.enabled = v] : v \in IeValues}
             \cup {[Running EXCEPT !.requested = {}]}
             \cup {[Running EXCEPT !.sources = v] : v \in StatValues}
             \cup {[Running EXCEPT !.lyc = (@ + 1) % TotalLines]}
             \cup {[Running EXCEPT !.timer = ~@]} :
            Changes(s, cycles)
    /\ UNCHANGED apart

\* LCDC: switching off brings both LCDs to the first dot.
WriteLcdc(cycles) ==
    /\ Changes([Running EXCEPT !.lcd = ~@], cycles)
    /\ apart' = (apart /\ ~cpu.lcd)

\* setJoypadState: a new key ends STOP, and may raise the interrupt.
PressKey ==
    /\ operations < MaxOperations /\ operations' = operations + 1
    /\ \E raised \in SUBSET {"joypad"} :
          cpu' = [cpu EXCEPT !.stop = FALSE, !.requested = @ \cup raised]
    /\ last' = NoEvent /\ UNCHANGED <<ppu, apart>>

\* loadRom on a machine that has run: the PPU starts anew, the CPU's LCD does
\* not.
LoadRom ==
    /\ operations < MaxOperations /\ operations' = operations + 1
    /\ cpu' = Loaded(DividerSet(cpu, 0)) /\ ppu' = NewPpu
    /\ last' = NoEvent /\ apart' = cpu.lcdLast

ClockStep ==
    \/ IdleStep \/ ServiceInterrupt
    \/ \E cycles \in InstructionCycles :
          \/ Instruction(cycles) \/ CpuControls(cycles)
          \/ DeviceWrites(cycles) \/ WriteLcdc(cycles)

ClockNext == ClockStep \/ PressKey \/ LoadRom

\* The machine lane goes on stepping.
ClockFairness == WF_clockVars(ClockStep)

ClockSpec == ClockInit /\ [][ClockNext]_clockVars /\ ClockFairness

-----------------------------------------------------------------------------
\* The two LCDs are one: after every step they are at the same dot in the same
\* mode, the VBlank interrupt comes with the frame event, and every line of
\* the frame announced has been rendered; however LCDC is switched, whatever
\* instruction crosses the end of a line.  One thing sets them apart until the
\* LCD is next switched off: loading a program into a machine whose LCD is on.
LcdsAgree ==
    /\ last.complete
    /\ ~apart =>
          /\ cpu.dot = ppu.ly * LineDots + ppu.dot
          /\ ppu.on => ppu.mode = ModeAt(cpu.dot)
          /\ last.interrupt => last.frame
          /\ last.frame => "vblank" \in cpu.requested

\* A program that waits with HALT for an interrupt that will come goes on:
\* VBlank with the LCD on, or the timer while it runs, whether or not
\* interrupts are enabled, and however the two clocks stand when it halts.
Awaited ==
    \/ "vblank" \in cpu.enabled /\ cpu.lcd
    \/ "timer" \in cpu.enabled /\ cpu.timer

HaltEnds == cpu.halt /\ Awaited ~> ~cpu.halt
=============================================================================
