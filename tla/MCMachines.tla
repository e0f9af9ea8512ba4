----------------------------- MODULE MCMachines -----------------------------
(***************************************************************************)
(* What is inside the machines, checked together: instructions of both     *)
(* processors by every path (InstructionPaths, GameGearExecution), what    *)
(* S.P.A.C.E. says of them (SpaceOperands), translated blocks, the Game    *)
(* Boy's clock and both cartridge buses.  They share no state here, so a   *)
(* behaviour moves one of them.                                            *)
(***************************************************************************)
EXTENDS TranslatedBlocks, GameBoyClock, InstructionPaths, GameGearExecution, CartridgeBuses,
        SpaceOperands

VARIABLE focus      \* the part that moves

\* Programs for the Game Gear, each with an interrupt handler that reads the
\* video chip's status: one that increments the constant of its own loop, and
\* one of everything the interpreter does.
At(address, bytes) == [a \in address .. address + Len(bytes) - 1 |-> bytes[a - address + 1]]
Handler == At(\h38, <<\hF5, \hDB, \hBF, \hF1, \hFB, \hED, \h4D>>)
SelfModifying ==
    Handler @@ At(0, <<\hFB, \hC3, 0, \hC0>>)
    @@ At(\hC000, <<\h21, 8, \hC0, \h3C, \h34, \h7F, \h80, 6, 0, \h18, \hF8>>)
Mixture ==
    Handler @@ At(0, <<\hFB, \h21, 0, \hC0, \h11, \h10, \hC0, 1, 2, 0, \hED, \hB0, \hDD, \h21, 8, \hC0,
                       \hDD, \h36, 1, \h5A, \hDD, \hCB, 1, \h16, \hE5, \hD1, \hD9, 8, \h3E, \h99, \hC6, 1,
                       \h27, \hD3, \h7F, \h76, \hC3, \h50, 0>>)
    @@ At(\h50, <<\hFD, \h29, \hED, \h6F, \hCD, \h60, 0, \hFB, \h37, \h18, \hFE>>)
    @@ At(\h60, <<\hED, \h44, \hC9>>)
MCPrograms == {SelfModifying, Mixture}

\* One cartridge for every mapper, and one whose type byte is not known.
Cart(chip, banks, ramBanks, battery, rtc) ==
    [mapper |-> chip, zero |-> FALSE, banks |-> banks, ramBanks |-> ramBanks,
     battery |-> battery, rtc |-> rtc]
MCCartridges ==
    {Cart("MBC1", 64, 4, TRUE, FALSE), Cart("MBC2", 4, 1, TRUE, FALSE), Cart("MBC3", 8, 2, TRUE, TRUE),
     Cart("MBC3", 8, 1, TRUE, FALSE), Cart("MBC5", 512, 2, FALSE, FALSE), Cart("None", 4, 1, FALSE, FALSE)}
GearCart(banks, name, text, size) == [banks |-> banks, name |-> name, text |-> text, size |-> size]
MCGearCartridges ==
    {GearCart(16, "none", "none", "5208"), GearCart(32, "codemasters", "none", "5235"),
     GearCart(8, "none", "codemasters", "5208"), GearCart(8, "5365", "none", "5208")}
-----------------------------------------------------------------------------
Parts == {"blocks", "clock", "instructions", "gamegear", "bus", "gearbus", "operands"}

\* A part that does not move has one initial state, whichever.
MachinesInit ==
    /\ focus \in Parts
    /\ BlocksInit
    /\ focus = "blocks" => /\ \A a \in DOMAIN memory : memory[a] # "other"
                           /\ \A a, b \in DOMAIN memory : memory[a] = "halt" /\ memory[b] = "halt" => a = b
    /\ focus # "blocks" =>
          /\ pc = 0 /\ policy = "baseline"
          /\ \A a \in DOMAIN memory : memory[a] = CHOOSE byte \in Stores : TRUE
    /\ ClockInit
    /\ IF focus = "instructions" THEN InstructionsInit
       ELSE executed = MaxExecuted /\ processor = CHOOSE p \in InstructionStates : TRUE
    /\ IF focus = "gamegear" THEN ExecutionInit
       ELSE /\ z80 = << >> /\ alone = << >> /\ irCache = << >> /\ irSession = NoSession
            /\ lowering = FALSE /\ handlers = 1 /\ raised = 0 /\ retired = 0
    /\ BusInit
    /\ GearInit
    /\ IF focus = "operands" THEN CapturedInit ELSE captured = NothingCaptured(0)

\* Every part but p stays as it is.
OthersStay(p) ==
    /\ IF p = "blocks" THEN TRUE ELSE UNCHANGED blockVars
    /\ IF p = "clock" THEN TRUE ELSE UNCHANGED clockVars
    /\ IF p = "instructions" THEN TRUE ELSE UNCHANGED instructionVars
    /\ IF p = "gamegear" THEN TRUE ELSE UNCHANGED ggVars
    /\ IF p = "bus" THEN TRUE ELSE UNCHANGED busVars
    /\ IF p = "gearbus" THEN TRUE ELSE UNCHANGED gearVars
    /\ IF p = "operands" THEN TRUE ELSE UNCHANGED captured

MachinesNext ==
    /\ UNCHANGED focus
    /\ \/ focus = "blocks" /\ BlocksNext /\ OthersStay("blocks")
       \/ focus = "clock" /\ ClockNext /\ OthersStay("clock")
       \/ focus = "instructions" /\ InstructionsNext /\ OthersStay("instructions")
       \/ focus = "gamegear" /\ ExecutionNext /\ OthersStay("gamegear")
       \/ focus = "bus" /\ BusNext /\ OthersStay("bus")
       \/ focus = "gearbus" /\ GearNext /\ OthersStay("gearbus")
       \/ focus = "operands" /\ CaptureInstruction /\ OthersStay("operands")

machineVars ==
    <<focus, blockVars, clockVars, instructionVars, ggVars, busVars, gearVars, captured>>

\* The clock is scheduled as its module says (ClockFairness), in the behaviours
\* that are about it.
MachinesSpec ==
    MachinesInit /\ [][MachinesNext]_machineVars /\ WF_clockVars(focus = "clock" /\ ClockStep)

-----------------------------------------------------------------------------
(* Properties that go together.                                            *)

\* An instruction does the same by every path that executes it, decimal
\* arithmetic with DAA is right (gameboy.cpp), and what the decoders list as
\* read and written is all the registers it reads and writes
\* (space/CoreModel.cpp).
InstructionsAgree == PathsAgree /\ DecimalArithmetic /\ OperandsAreEnough

\* Interrupts, rewritten code and the cache leave the program where the
\* interpreter alone would, and handlers do not nest (GameGearMachine.cpp
\* tryStepIr, Z80Interpreter.cpp handleInterrupts).
BoundariesHold == ProgramUndisturbed /\ HandlersNeverNest
=============================================================================
