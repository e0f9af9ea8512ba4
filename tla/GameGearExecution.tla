------------------------- MODULE GameGearExecution --------------------------
(***************************************************************************)
(* GameGearRuntimeContext: each step of the Game Gear interprets one       *)
(* instruction or executes one of a lowered span of code, while the video  *)
(* chip asserts interrupts between instructions and the program writes     *)
(* over its own code.  alone is the same program, interpreted instruction  *)
(* by instruction by a CPU that nobody interrupts.                         *)
(***************************************************************************)
EXTENDS Z80Interpreter, SequencesExt

CONSTANTS
    Programs,               \* initial contents of memory
    MaxRaised,              \* bound: interrupts the video chip asserts
    MaxRetired,             \* bound: instructions executed
    MaxIrInstructions,      \* Limits::kMaxInstructions
    MaxIrCacheEntries       \* kMaxIrCacheEntries

VARIABLES
    z80,            \* the CPU, memory and ports
    lowering,       \* whether the policy's backend executes lowered code
    irCache,        \* the lowered span that starts at an address
    irSession,      \* the span being executed and the next index, or none
    handlers,       \* interrupt handlers entered and not yet left
    raised,         \* interrupts asserted so far
    retired,        \* instructions executed so far
    alone           \* the CPU nobody interrupts

ggVars == <<z80, lowering, irCache, irSession, handlers, raised, retired, alone>>

NoSession == << >>
-----------------------------------------------------------------------------
\* buildBoundedIrSpan: the instructions that can be lowered, from the program
\* counter to a jump, a store or the end of the page.
IrLength(op) ==
    IF op = 0 \/ (op \in \h40 .. \hBF /\ op # \h76) \/ (op < \h40 /\ op % 8 \in {4, 5}) THEN 1
    ELSE IF (op < \h40 /\ op % 8 = 6) \/ op = \h18 THEN 2 ELSE 0

IsPotentialMemoryStore(op) == op \in {\h34, \h35, \h36, \h77} \cup \h70 .. \h75
\* Mutant: a store does not end a span.
EndsSpan_JumpsOnly(op) == op = \h18

EndsSpan(op) == op = \h18 \/ IsPotentialMemoryStore(op)

SourceInstruction(s, address) ==
    [address |-> address, bytes |-> [n \in 1 .. IrLength(Peek(s, address)) |-> Peek(s, Word(address + n - 1))]]

LowerableAt(s, address, page) ==
    /\ address \div 256 = page
    /\ IrLength(Peek(s, address)) > 0
    /\ (address + IrLength(Peek(s, address)) - 1) \div 256 = page

\* span[n]: the first n instructions at most.
BoundedSpan(s) ==
    LET page == s.pc \div 256
        span[n \in 0 .. MaxIrInstructions] ==
            IF n = 0 THEN << >>
            ELSE LET before == span[n - 1]
                     latest == before[Len(before)]
                     next == IF before = << >> THEN s.pc ELSE latest.address + Len(latest.bytes)
                     ended == Len(before) # n - 1 \/ (before # << >> /\ EndsSpan(latest.bytes[1]))
                 IN IF ended \/ ~LowerableAt(s, next, page) THEN before
                    ELSE Append(before, SourceInstruction(s, next))
    IN span[MaxIrInstructions]

CodeBytes(block) == FlattenSeq([n \in DOMAIN block |-> block[n].bytes])

\* A cached span serves if its bytes begin the span that is there now.
CacheMatches(s, span) ==
    s.pc \in DOMAIN irCache /\ IsPrefix(CodeBytes(irCache[s.pc]), CodeBytes(span))

Cached(address, block) ==
    LET kept == IF address \notin DOMAIN irCache /\ Cardinality(DOMAIN irCache) >= MaxIrCacheEntries
                THEN << >> ELSE irCache
    IN [a \in DOMAIN kept \cup {address} |-> IF a = address THEN block ELSE kept[a]]

\* guardsMatch, on the bytes of the code.
GuardsMatch(s, block) ==
    \A n \in DOMAIN block : SourceInstruction(s, block[n].address) = block[n]

\* lowerInstruction and the operations of GameGearIrHost: the bytes are the
\* ones the span was lowered from.
LoweredStep(s, instruction) ==
    LET op == instruction.bytes[1]
        y == (op \div 8) % 8
        z == op % 8
        t == [Refreshed(s, 1) EXCEPT !.pc = Word(instruction.address + Len(instruction.bytes))]
        before == ReadReg8(s, y)
    IN CASE op = 0 -> Took(t, 4)
         [] op \in \h40 .. \h7F -> Took(WriteReg8(t, y, ReadReg8(t, z)), IF y = 6 \/ z = 6 THEN 7 ELSE 4)
         [] op \in \h80 .. \hBF -> Took(Alu(t, y, ReadReg8(t, z)), IF z = 6 THEN 7 ELSE 4)
         [] op < \h40 /\ z = 6 -> Took(WriteReg8(t, y, instruction.bytes[2]), IF y = 6 THEN 10 ELSE 7)
         [] op < \h40 /\ z = 4 ->
              Took(WriteReg8(SetF(t, ComputeIncFlags(s, before)), y, Byte8(before + 1)), IF y = 6 THEN 11 ELSE 4)
         [] op < \h40 /\ z = 5 ->
              Took(WriteReg8(SetF(t, ComputeDecFlags(s, before)), y, Byte8(before - 1)), IF y = 6 THEN 11 ELSE 4)
         [] op = \h18 -> Took([t EXCEPT !.pc = Word(@ + Signed(instruction.bytes[2]))], 12)
-----------------------------------------------------------------------------
\* Halted, interrupt pending or an interrupt enable not yet in force.
ExecutionState(s) == s.halted \/ s.requested \/ s.irq \/ s.delay > 0

ContinuationIsValid(s) ==
    /\ irSession # NoSession
    /\ s.pc = irSession.block[irSession.next].address

\* What alone does when z80 executes an instruction of the program.
AloneFollows(program) == alone' = IF program THEN InterpreterStep(alone) ELSE alone

\* onInstructionRetired: the video chip may assert its interrupt.
OnInstructionRetired(s, asserted) ==
    /\ retired < MaxRetired
    /\ asserted => raised < MaxRaised
    /\ z80' = [s EXCEPT !.irq = @ \/ asserted, !.requested = @ \/ asserted]
    /\ raised' = IF asserted THEN raised + 1 ELSE raised
    /\ retired' = retired + 1
    /\ UNCHANGED lowering

\* Execute the instruction next of the block; a jump or the last one ends it.
ExecuteSpan(block, next, asserted) ==
    /\ OnInstructionRetired(LoweredStep(z80, block[next]), asserted)
    /\ irSession' = IF next = Len(block) \/ block[next].bytes[1] = \h18
                    THEN NoSession ELSE [block |-> block, next |-> next + 1]
    /\ AloneFollows(handlers = 0)
    /\ UNCHANGED handlers

IrContinue(asserted) ==
    /\ lowering /\ ~ExecutionState(z80) /\ ContinuationIsValid(z80)
    /\ ExecuteSpan(irSession.block, irSession.next, asserted)
    /\ UNCHANGED irCache

SpanBlock(s, span) == IF CacheMatches(s, span) THEN irCache[s.pc] ELSE span
StartsSpan == lowering /\ ~ExecutionState(z80) /\ ~ContinuationIsValid(z80)

IrStart(asserted) ==
    LET span == BoundedSpan(z80)
        block == SpanBlock(z80, span)
    IN /\ StartsSpan
       /\ span # << >>
       /\ GuardsMatch(z80, block)
       /\ ExecuteSpan(block, 1, asserted)
       /\ irCache' = IF CacheMatches(z80, span) THEN irCache ELSE Cached(z80.pc, block)

\* tryStepIr declines, and forgets the span it has just found to be wrong.
GuardFails ==
    /\ StartsSpan
    /\ BoundedSpan(z80) # << >>
    /\ ~GuardsMatch(z80, SpanBlock(z80, BoundedSpan(z80)))

IrFallsBack ==
    /\ lowering => ExecutionState(z80) \/ (~ContinuationIsValid(z80) /\ BoundedSpan(z80) = << >>) \/ GuardFails
    /\ irCache' = IF GuardFails THEN Restrict(irCache, DOMAIN irCache \ {z80.pc}) ELSE irCache
    /\ irSession' = NoSession

\* An interrupt ends a HALT of alone too, and does nothing else to it.
TakeInterrupt(asserted) ==
    /\ IrFallsBack
    /\ CanInterrupt(z80)
    /\ OnInstructionRetired(InterpreterStep(z80), asserted)
    /\ handlers' = handlers + 1
    /\ alone' = [alone EXCEPT !.halted = FALSE]

\* RETI leaves a handler.
Returns(s) == Imm8(s) = \hED /\ Peek(s, Word(s.pc + 1)) = \h4D

Interpret(asserted) ==
    /\ IrFallsBack
    /\ ~CanInterrupt(z80)
    /\ OnInstructionRetired(InterpreterStep(z80), asserted)
    /\ handlers' = IF Returns(z80) THEN handlers - 1 ELSE handlers
    /\ AloneFollows(handlers = 0)

\* beginExecutionSlice and endExecutionSlice.
SliceEnds ==
    /\ irSession # NoSession
    /\ irSession' = NoSession
    /\ UNCHANGED <<z80, lowering, irCache, handlers, raised, retired, alone>>

ExecutionInit ==
    /\ \E p \in Programs : z80 = ResetState(p)
    /\ lowering \in BOOLEAN
    /\ irCache = << >>
    /\ irSession = NoSession
    /\ handlers = 0 /\ raised = 0 /\ retired = 0
    /\ alone = z80

ExecutionNext ==
    \/ \E asserted \in BOOLEAN :
          IrContinue(asserted) \/ IrStart(asserted) \/ TakeInterrupt(asserted) \/ Interpret(asserted)
    \/ SliceEnds
-----------------------------------------------------------------------------
\* What a program sees of the machine: everything but time, the refresh
\* register, the bytes below its stack, the interrupt line and an enable of
\* what is already enabled.
Seen(s) ==
    [s EXCEPT !.mem = [a \in {a \in DOMAIN s.mem : a \notin s.sp - 64 .. s.sp - 1} |-> s.mem[a]],
              !.refresh = 0, !.cycles = 0, !.irq = FALSE, !.requested = FALSE,
              !.delay = IF s.ime THEN 0 ELSE @]

\* Whatever interrupts come, and whether its code is interpreted or was
\* lowered, cached and then written over, the program is in the state the
\* interpreter alone would have reached
\* (GameGearMachine.cpp tryStepIr, Z80Interpreter.cpp handleInterrupts).
ProgramUndisturbed == handlers = 0 => Seen(z80) = Seen(alone)

\* A handler that ends with EI and RETI is never interrupted itself, so the
\* stack never holds two of them (Z80Interpreter.cpp imeEnableDelay_).
HandlersNeverNest == handlers <= 1
=============================================================================
