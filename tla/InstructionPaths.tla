-------------------------- MODULE InstructionPaths --------------------------
(***************************************************************************)
(* One instruction of the Game Boy CPU and the three ways the core has to  *)
(* execute it: the opcode table (the canonical path), the byte fast path   *)
(* and the lowered operations of the intermediate representation.  Which   *)
(* one runs is a matter of configuration and of what is cached, so they    *)
(* must have the same effect.                                              *)
(*                                                                         *)
(* Bytes are 8 bits wide and addresses 16.  Memory is plain RAM but for    *)
(* the divider: what a read or write of another address does is left out.  *)
(***************************************************************************)
EXTENDS Bytes, FiniteSets, SequencesExt

CONSTANTS
    AluBytes,           \* the values of the accumulator and of the first operand
    FlagBytes,          \* the values of F: multiples of 16
    Pointers,           \* the values of HL, SP and the 16-bit immediates
    Immediates,         \* the values of the 8-bit immediates
    Stepped,            \* the opcodes that are executed; every opcode is compared
    MaxExecuted         \* bound: instructions executed

ASSUME InstructionAssumption ==
    /\ AluBytes \subseteq 0 .. 255 /\ Immediates \subseteq 0 .. 255
    /\ FlagBytes \subseteq {16 * n : n \in 0 .. 15}
    /\ Pointers \subseteq 0 .. 65535 /\ Stepped \subseteq 0 .. 255
    /\ MaxExecuted \in Nat

VARIABLES
    processor,          \* registers, memory and the CPU's latches
    executed            \* instructions executed

instructionVars == <<processor, executed>>

DivAddress == \hFF04

\* Registers are numbered as the opcodes number them: B C D E H L, 7 is A.
\* Code 6 is the byte that HL points to, register 6 holds F.
Pair(s, code) == 256 * s.r[2 * code] + s.r[2 * code + 1]
HL(s) == Pair(s, 2)
AF(s) == 256 * s.r[7] + s.r[6]
SetPair(s, code, w) == [s EXCEPT !.r[2 * code] = HighByte(w), !.r[2 * code + 1] = LowByte(w)]

\* Address 0xFF04 reads as the divider register; RAM never written reads 0xFF.
Read8(s, address) == IF address \in DOMAIN s.mem THEN s.mem[address] ELSE 255

Read16(s, address) == Read8(s, address) + 256 * Read8(s, Word(address + 1))

Store(s, address, byte) ==
    [s EXCEPT !.mem = [a \in DOMAIN s.mem \cup {address} |-> IF a = address THEN byte ELSE s.mem[a]]]

\* resetDivider: in an instruction that declared itself active the reset is an
\* event at its end, otherwise it happens now.
ResetDivider(s) ==
    IF s.active THEN [s EXCEPT !.resets = Append(@, s.endOffset)] ELSE [s EXCEPT !.divider = 0]

Write8(s, address, byte) ==
    IF address = DivAddress THEN ResetDivider(s) ELSE Store(s, address, byte)

\* A 16-bit write is one access of two bytes; only single bytes reach the
\* divider's handler.
Write16(s, address, w) == Store(Store(s, address, LowByte(w)), Word(address + 1), HighByte(w))

\* The flags: bits 7 to 4 of F.
FlagZ == \h80
FlagN == \h40
FlagH == \h20
FlagC == \h10
FlagByte(z, n, h, c) == Bit(z, FlagZ) + Bit(n, FlagN) + Bit(h, FlagH) + Bit(c, FlagC)

\* What an opcode byte encodes.
Dest(op) == (op \div 8) % 8
Src(op) == op % 8
PairCode(op) == (op \div 16) % 4
ConditionCode(op) == (op \div 8) % 4

IncOps == {op \in \h00 .. \h3F : op % 8 = 4}
DecOps == {op \in \h00 .. \h3F : op % 8 = 5}
LoadImmediateOps == {op \in \h00 .. \h3F : op % 8 = 6}
MathImmediateOps == {op \in \hC0 .. \hFF : op % 8 = 6}
RstOps == {op \in \hC0 .. \hFF : op % 8 = 7}
UndefinedOps == {\hD3, \hDB, \hDD, \hE3, \hE4, \hEB, \hEC, \hED, \hF4, \hFC, \hFD}

\* Lengths and cycles of the opcode table.
LengthOf(op) ==
    CASE op \in {\h01, \h11, \h21, \h31, \h08, \hC2, \hCA, \hD2, \hDA, \hC3, \hC4, \hCC, \hD4, \hDC, \hCD, \hEA, \hFA} -> 3
      [] op \in LoadImmediateOps \cup MathImmediateOps
              \cup {\h10, \h18, \h20, \h28, \h30, \h38, \hCB, \hE0, \hF0, \hE8, \hF8} -> 2
      [] OTHER -> 1

UsesHL(op) == Src(op) = 6 \/ (op \in \h40 .. \h7F /\ Dest(op) = 6)

Cycles(op) ==
    CASE op \in {\h20, \h28, \h30, \h38} -> [notTaken |-> 8, taken |-> 12]
      [] op \in {\hC0, \hC8, \hD0, \hD8} -> [notTaken |-> 8, taken |-> 20]
      [] op \in {\hC2, \hCA, \hD2, \hDA} -> [notTaken |-> 12, taken |-> 16]
      [] op \in {\hC4, \hCC, \hD4, \hDC} -> [notTaken |-> 12, taken |-> 24]
      [] OTHER ->
            LET n == CASE op \in {\h08} -> 20
                       [] op = \hCD -> 24
                       [] op \in {\hC3, \hC5, \hD5, \hE5, \hF5, \hC9, \hD9, \hE8, \hEA, \hFA} \cup RstOps -> 16
                       [] op \in {\h01, \h11, \h21, \h31, \h18, \h34, \h35, \h36, \hC1, \hD1, \hE1, \hF1, \hE0, \hF0, \hF8} -> 12
                       [] op = \h76 -> 4
                       [] op \in LoadImmediateOps \cup MathImmediateOps \cup {\hE2, \hF2, \hF9} -> 8
                       [] op \in \h00 .. \h3F /\ op % 8 \in {1, 2, 3} -> 8
                       [] op \in \h40 .. \hBF /\ UsesHL(op) -> 8
                       [] OTHER -> 4
            IN [notTaken |-> n, taken |-> n]

CbCycles(code) ==
    LET n == IF Src(code) # 6 THEN 8 ELSE IF code \in \h40 .. \h7F THEN 12 ELSE 16
    IN [notTaken |-> n, taken |-> n]
-----------------------------------------------------------------------------
(***************************************************************************)
(* The opcode table.                                                       *)
(***************************************************************************)
ReadR8(s, code) == IF code = 6 THEN Read8(s, HL(s)) ELSE s.r[code]

WriteR8(s, code, byte) ==
    IF code = 6 THEN Write8(s, HL(s), byte) ELSE [s EXCEPT !.r[code] = byte]

AccessR16(s, code) == IF code = 3 THEN s.sp ELSE Pair(s, code)
AssignR16(s, code, w) == IF code = 3 THEN [s EXCEPT !.sp = w] ELSE SetPair(s, code, w)

AccessStackR16(s, code) == IF code = 3 THEN AF(s) ELSE Pair(s, code)
AssignStackR16(s, code, w) ==
    IF code = 3 THEN [s EXCEPT !.r[7] = HighByte(w), !.r[6] = LowByte(w)] ELSE SetPair(s, code, w)

ConditionHolds(s, code) ==
    Has(s.r[6], IF code < 2 THEN FlagZ ELSE FlagC) <=> code \in {1, 3}

SetFlags(s, z, n, h, c) == [s EXCEPT !.r[6] = FlagByte(z, n, h, c)]

UpdateControlFlowPc(s, target, length) == [s EXCEPT !.pc = Word(target - length)]

Pop16(s) == [value |-> Read16(s, s.sp), state |-> [s EXCEPT !.sp = Word(@ + 2)]]
Push16(s, w) == Write16([s EXCEPT !.sp = Word(@ - 2)], Word(s.sp - 2), w)

Return(s) == LET popped == Pop16(s) IN UpdateControlFlowPc(popped.state, popped.value, 1)

\* addMathOp.
TableMath(s, code, rhs) ==
    LET lhs == s.r[7]
        carry == Bit(Has(s.r[6], FlagC), 1)
        result == CASE code = 0 -> Byte8(lhs + rhs)
                    [] code = 1 -> Byte8(lhs + rhs + carry)
                    [] code = 2 -> Byte8(lhs - rhs)
                    [] code = 3 -> Byte8(lhs - (rhs + carry))
                    [] code = 4 -> lhs & rhs
                    [] code = 5 -> lhs ^^ rhs
                    [] code = 6 -> lhs | rhs
                    [] code = 7 -> lhs
        half == CASE code = 0 -> Nibble(lhs) + Nibble(rhs) > \hF
                  [] code = 1 -> Nibble(lhs) + Nibble(rhs) + carry > \hF
                  [] code \in {2, 7} -> Nibble(lhs) < Nibble(rhs)
                  [] code = 3 -> Nibble(lhs) < Nibble(rhs) + carry
                  [] OTHER -> code = 4
        full == CASE code = 0 -> lhs + rhs > \hFF
                  [] code = 1 -> lhs + rhs + carry > \hFF
                  [] code \in {2, 7} -> lhs < rhs
                  [] code = 3 -> lhs < rhs + carry
                  [] OTHER -> FALSE
        zero == IF code = 7 THEN lhs = rhs ELSE result = 0
    IN SetFlags([s EXCEPT !.r[7] = result], zero, code \in {2, 3, 7}, half, full)

Rotated(s, code, value) ==
    LET carry == Bit(Has(s.r[6], FlagC), 1)
    IN CASE code = 0 -> Byte8(2 * value) + (value \div 128)
         [] code = 1 -> (value \div 2) + 128 * (value % 2)
         [] code = 2 -> Byte8(2 * value) + carry
         [] code = 3 -> (value \div 2) + 128 * carry

TableRotate(s, code) ==
    LET a == s.r[7]
    IN SetFlags([s EXCEPT !.r[7] = Rotated(s, code, a)], FALSE, FALSE, FALSE,
                Has(a, IF code \in {0, 2} THEN 128 ELSE 1))

TableDaa_HalfCarryOnly(s) ==
    LET a == s.r[7]
        n == Has(s.r[6], FlagN)
        high == Has(s.r[6], FlagC) \/ (~n /\ a > \h99)
        adjust == Bit(Has(s.r[6], FlagH), 6) + Bit(high, \h60)
        result == Byte8(IF n THEN a - adjust ELSE a + adjust)
    IN SetFlags([s EXCEPT !.r[7] = result], result = 0, n, FALSE, high)

TableDaa(s) ==
    LET a == s.r[7]
        n == Has(s.r[6], FlagN)
        low == Has(s.r[6], FlagH) \/ (~n /\ Nibble(a) > 9)
        high == Has(s.r[6], FlagC) \/ (~n /\ a > \h99)
        adjust == Bit(low, 6) + Bit(high, \h60)
        result == Byte8(IF n THEN a - adjust ELSE a + adjust)
    IN SetFlags([s EXCEPT !.r[7] = result], result = 0, n, FALSE, high)

\* executeCbOpcode.
ExecuteCb(s, code) ==
    LET reg == Src(code)
        value == ReadR8(s, reg)
        mask == 2 ^ Dest(code)
        kind == Dest(code)
        shifted == CASE kind \in 0 .. 3 -> Rotated(s, kind, value)
                     [] kind = 4 -> Byte8(2 * value)
                     [] kind = 5 -> (value \div 2) + Bit(Has(value, 128), 128)
                     [] kind = 6 -> (value \div 16) + 16 * Nibble(value)
                     [] kind = 7 -> value \div 2
        out == CASE kind \in {0, 2, 4} -> Has(value, 128)
                 [] kind = 6 -> FALSE
                 [] OTHER -> Has(value, 1)
    IN CASE code < 64 -> WriteR8(SetFlags(s, shifted = 0, FALSE, FALSE, out), reg, shifted)
         [] code \in \h40 .. \h7F -> SetFlags(s, ~Has(value, mask), FALSE, TRUE, Has(s.r[6], FlagC))
         [] code \in \h80 .. \hBF -> WriteR8(s, reg, value - Bit(Has(value, mask), mask))
         [] code \in \hC0 .. \hFF -> WriteR8(s, reg, value + Bit(~Has(value, mask), mask))

AddHl(s, w) ==
    LET hl == HL(s)
    IN SetPair(SetFlags(s, Has(s.r[6], FlagZ), FALSE, (hl % \h1000) + (w % \h1000) > \hFFF, hl + w > \hFFFF),
               2, Word(hl + w))

\* ADD SP,e and LD HL,SP+e set the flags from the low byte.
OffsetFlags(s, i8) ==
    SetFlags(s, FALSE, FALSE, Nibble(s.sp) + Nibble(i8) > \hF, LowByte(s.sp) + i8 > \hFF)

\* LD (rr),A and LD A,(rr); HL moves by one.
TableIndirect(s, op) ==
    LET address == IF op < \h20 THEN Pair(s, PairCode(op)) ELSE HL(s)
        t == IF Dest(op) % 2 = 0
             THEN Write8(s, address, s.r[7])
             ELSE [s EXCEPT !.r[7] = Read8(s, address)]
        moved == CASE op \in {\h22, \h2A} -> Word(HL(t) + 1)
                   [] op \in {\h32, \h3A} -> Word(HL(t) - 1)
                   [] OTHER -> HL(t)
    IN SetPair(t, 2, moved)

\* The 0xCB prefix, high memory, the stack pointer, the interrupt latch and
\* the opcodes that lock the CPU.
TableHigh(s, op, i8, i16) ==
    CASE op = \hCB -> ExecuteCb(s, i8)
      [] op = \hE0 -> Write8(s, \hFF00 + i8, s.r[7])
      [] op = \hF0 -> [s EXCEPT !.r[7] = Read8(s, \hFF00 + i8)]
      [] op = \hE2 -> Write8(s, \hFF00 + s.r[1], s.r[7])
      [] op = \hF2 -> [s EXCEPT !.r[7] = Read8(s, \hFF00 + s.r[1])]
      [] op = \hE8 -> [OffsetFlags(s, i8) EXCEPT !.sp = Word(@ + Signed(i8))]
      [] op = \hF8 -> SetPair(OffsetFlags(s, i8), 2, Word(s.sp + Signed(i8)))
      [] op = \hF9 -> [s EXCEPT !.sp = HL(s)]
      [] op = \hEA -> Write8(s, i16, s.r[7])
      [] op = \hFA -> [s EXCEPT !.r[7] = Read8(s, i16)]
      [] op = \hF3 -> [s EXCEPT !.ime = FALSE, !.imeSoon = FALSE]
      [] op = \hFB -> [s EXCEPT !.imeSoon = TRUE]
      [] op \in UndefinedOps -> [s EXCEPT !.locked = TRUE]
      [] OTHER -> s     \* a condition that does not hold

\* Returns, the stack, jumps and calls.
TableControl(s, op, i8, i16) ==
    CASE op \in {\hC0, \hC8, \hD0, \hD8} /\ ConditionHolds(s, ConditionCode(op)) -> Return(s)
      [] op = \hC9 -> Return(s)
      [] op = \hD9 -> [Return(s) EXCEPT !.ime = TRUE, !.imeSoon = FALSE]
      [] op \in {\hC1, \hD1, \hE1, \hF1} ->
            LET popped == Pop16(s)
                value == IF PairCode(op) = 3 THEN popped.value - Nibble(popped.value) ELSE popped.value
            IN AssignStackR16(popped.state, PairCode(op), value)
      [] op \in {\hC5, \hD5, \hE5, \hF5} -> Push16(s, AccessStackR16(s, PairCode(op)))
      [] op = \hC3 \/ (op \in {\hC2, \hCA, \hD2, \hDA} /\ ConditionHolds(s, ConditionCode(op))) ->
            UpdateControlFlowPc(s, i16, 3)
      [] op = \hE9 -> UpdateControlFlowPc(s, HL(s), 1)
      [] op = \hCD \/ (op \in {\hC4, \hCC, \hD4, \hDC} /\ ConditionHolds(s, ConditionCode(op))) ->
            UpdateControlFlowPc(Push16(s, Word(s.pc + 3)), i16, 3)
      [] op \in RstOps -> UpdateControlFlowPc(Push16(s, Word(s.pc + 1)), 8 * Dest(op), 1)
      [] OTHER -> TableHigh(s, op, i8, i16)

\* CPL, SCF, CCF and the relative jumps.
TableJump(s, op, i8, i16) ==
    CASE op = \h2F -> SetFlags([s EXCEPT !.r[7] = 255 - @],
                             Has(s.r[6], FlagZ), TRUE, TRUE, Has(s.r[6], FlagC))
      [] op = \h37 -> SetFlags(s, Has(s.r[6], FlagZ), FALSE, FALSE, TRUE)
      [] op = \h3F -> SetFlags(s, Has(s.r[6], FlagZ), FALSE, FALSE, ~Has(s.r[6], FlagC))
      [] op = \h18 \/ (op \in {\h20, \h28, \h30, \h38} /\ ConditionHolds(s, ConditionCode(op))) ->
            UpdateControlFlowPc(s, Word(s.pc + 2 + Signed(i8)), 2)
      [] OTHER -> TableControl(s, op, i8, i16)

\* NOP, STOP, HALT, 16-bit arithmetic, increments and immediates.
TableLow(s, op, i8, i16) ==
    CASE op = \h00 -> s
      [] op = \h10 -> [s EXCEPT !.stop = TRUE]
      [] op = \h76 -> [s EXCEPT !.halt = TRUE]
      [] op \in {\h01, \h11, \h21, \h31} -> AssignR16(s, PairCode(op), i16)
      [] op \in {\h03, \h13, \h23, \h33} -> AssignR16(s, PairCode(op), Word(AccessR16(s, PairCode(op)) + 1))
      [] op \in {\h0B, \h1B, \h2B, \h3B} -> AssignR16(s, PairCode(op), Word(AccessR16(s, PairCode(op)) - 1))
      [] op = \h08 -> Write16(s, i16, s.sp)
      [] op \in {\h09, \h19, \h29, \h39} -> AddHl(s, AccessR16(s, PairCode(op)))
      [] op \in IncOps ->
            LET old == ReadR8(s, Dest(op))
                t == WriteR8(s, Dest(op), Byte8(old + 1))
            IN SetFlags(t, Byte8(old + 1) = 0, FALSE, Nibble(old) + 1 > \hF, Has(t.r[6], FlagC))
      [] op \in DecOps ->
            LET old == ReadR8(s, Dest(op))
                t == WriteR8(s, Dest(op), Byte8(old - 1))
            IN SetFlags(t, Byte8(old - 1) = 0, TRUE, Nibble(old) = 0, Has(t.r[6], FlagC))
      [] op \in LoadImmediateOps -> WriteR8(s, Dest(op), i8)
      [] OTHER -> TableJump(s, op, i8, i16)

\* populateOpcodes: the accumulator, the register transfers and the ALU, then
\* the groups above.
TableStep(s, op, i8, i16) ==
    CASE op \in {\h07, \h0F, \h17, \h1F} -> TableRotate(s, ConditionCode(op))
      [] op = \h27 -> TableDaa(s)
      [] op \in \h40 .. \h7F \ {\h76} -> WriteR8(s, Dest(op), ReadR8(s, Src(op)))
      [] op \in {\h02, \h12, \h22, \h32, \h0A, \h1A, \h2A, \h3A} -> TableIndirect(s, op)
      [] op \in \h80 .. \hBF -> TableMath(s, Dest(op), ReadR8(s, Src(op)))
      [] op \in MathImmediateOps -> TableMath(s, Dest(op), i8)
      [] OTHER -> TableLow(s, op, i8, i16)

\* retireInstruction, as far as the divider goes: the clock advances, and a
\* reset happens when the cycle it was scheduled for has passed.
Retire(s, cycles) ==
    [s EXCEPT !.divider = IF s.resets = <<>> THEN (@ + cycles) % 65536
                          ELSE cycles - s.resets[Len(s.resets)],
              !.resets = <<>>,
              !.cycles = cycles,
              !.active = FALSE,
              !.endOffset = 0]

\* execute: the step, then the program counter, which stays one behind under
\* the HALT bug, then the cycles, chosen by where the program counter went.
ExecuteTable(s, op, i8, i16) ==
    LET cost == IF op = \hCB THEN CbCycles(i8) ELSE Cycles(op)
        t == TableStep([s EXCEPT !.active = TRUE, !.endOffset = cost.notTaken], op, i8, i16)
        pc == Word(t.pc + LengthOf(op) - Bit(s.haltBug, 1))
    IN Retire([t EXCEPT !.pc = pc, !.haltBug = FALSE],
              IF pc # Word(s.pc + LengthOf(op)) THEN cost.taken ELSE cost.notTaken)
-----------------------------------------------------------------------------
(***************************************************************************)
(* The byte fast path.                                                     *)
(***************************************************************************)
SupportsFastOpcode(op) == op # \hCB /\ op \notin UndefinedOps

CachedReadR8(s, code) ==
    CASE code \in {0, 2, 4} -> HighByte(Pair(s, code \div 2))
      [] code \in {1, 3, 5} -> LowByte(Pair(s, code \div 2))
      [] code = 6 -> Read8(s, HL(s))
      [] code = 7 -> s.r[7]

CachedWriteR8(s, code, byte) ==
    CASE code \in {0, 2, 4} -> SetPair(s, code \div 2, 256 * byte + s.r[code + 1])
      [] code \in {1, 3, 5} -> SetPair(s, code \div 2, 256 * s.r[code - 1] + byte)
      [] code = 6 -> Write8(s, HL(s), byte)
      [] code = 7 -> [s EXCEPT !.r[7] = byte]

CachedR16(s, code) == CASE code < 3 -> Pair(s, code) [] OTHER -> s.sp
SetCachedR16(s, code, w) == CASE code < 3 -> SetPair(s, code, w) [] OTHER -> [s EXCEPT !.sp = w]

CachedStackR16(s, code) == CASE code < 3 -> Pair(s, code) [] OTHER -> AF(s)
SetCachedStackR16(s, code, w) ==
    CASE code < 3 -> SetPair(s, code, w)
      [] OTHER -> [s EXCEPT !.r[7] = HighByte(w), !.r[6] = LowByte(w)]

CachedConditionHolds(s, code) ==
    \/ code = 0 /\ ~Has(s.r[6], FlagZ)
    \/ code = 1 /\ Has(s.r[6], FlagZ)
    \/ code = 2 /\ ~Has(s.r[6], FlagC)
    \/ code = 3 /\ Has(s.r[6], FlagC)

CachedSetFlags(s, z, n, h, c) == [s EXCEPT !.r[6] = FlagByte(z, n, h, c)]

CachedPush16(s, w) == Write16([s EXCEPT !.sp = Word(@ - 2)], Word(s.sp - 2), w)
CachedPop16(s) == [value |-> Read16(s, s.sp), state |-> [s EXCEPT !.sp = Word(@ + 2)]]

FastReturn(s) == LET popped == CachedPop16(s) IN [popped.state EXCEPT !.pc = Word(popped.value - 1)]

FastMath_NoCarryHalf(s, code, rhs) ==
    LET lhs == s.r[7]
        carry == Bit(Has(s.r[6], FlagC), 1)
        sum == lhs + rhs + Bit(code = 1, carry)
    IN IF code \in {0, 1}
       THEN CachedSetFlags([s EXCEPT !.r[7] = Byte8(sum)], Byte8(sum) = 0, FALSE,
                           Nibble(lhs) + Nibble(rhs) > \hF, sum > \hFF)
       ELSE TableMath(s, code, rhs)

\* executeMathOp: one alternative per operation.
FastMath(s, code, rhs) ==
    LET lhs == s.r[7]
        carry == Bit(Has(s.r[6], FlagC), 1)
        Set(result, n, h, c) ==
            CachedSetFlags([s EXCEPT !.r[7] = Byte8(result)], Byte8(result) = 0, n, h, c)
    IN CASE code = 0 -> Set(lhs + rhs, FALSE, Nibble(lhs) + Nibble(rhs) > \hF, lhs + rhs > \hFF)
         [] code = 1 -> Set(lhs + rhs + carry, FALSE, Nibble(lhs) + Nibble(rhs) + carry > \hF,
                            lhs + rhs + carry > \hFF)
         [] code = 2 -> Set(lhs - rhs, TRUE, Nibble(lhs) < Nibble(rhs), lhs < rhs)
         [] code = 3 -> Set(lhs - (rhs + carry), TRUE, Nibble(lhs) < Nibble(rhs) + carry,
                            lhs < rhs + carry)
         [] code = 4 -> Set(lhs & rhs, FALSE, TRUE, FALSE)
         [] code = 5 -> Set(lhs ^^ rhs, FALSE, FALSE, FALSE)
         [] code = 6 -> Set(lhs | rhs, FALSE, FALSE, FALSE)
         [] code = 7 -> CachedSetFlags(s, lhs = rhs, TRUE, Nibble(lhs) < Nibble(rhs), lhs < rhs)

FastRotate(s, code) ==
    LET a == s.r[7]
        carry == Bit(Has(s.r[6], FlagC), 1)
        Set(result, c) == CachedSetFlags([s EXCEPT !.r[7] = result], FALSE, FALSE, FALSE, c)
    IN CASE code = 0 -> Set(Byte8(2 * a) + (a \div 128), Has(a, 128))
         [] code = 1 -> Set((a \div 2) + 128 * (a % 2), Has(a, 1))
         [] code = 2 -> Set(Byte8(2 * a) + carry, Has(a, 128))
         [] code = 3 -> Set((a \div 2) + 128 * carry, Has(a, 1))

FastDaa(s) ==
    LET a == s.r[7]
        h == Has(s.r[6], FlagH)
        c == Has(s.r[6], FlagC)
        Set(result, n, carry) ==
            CachedSetFlags([s EXCEPT !.r[7] = Byte8(result)], Byte8(result) = 0, n, FALSE, carry)
    IN IF Has(s.r[6], FlagN)
       THEN Set(a - (Bit(h, 6) + Bit(c, \h60)), TRUE, c)
       ELSE Set(a + Bit(h \/ Nibble(a) > 9, 6) + Bit(c \/ a > \h99, \h60), FALSE, c \/ a > \h99)

FastIndirect(s, op) ==
    LET address == CASE op \in {\h02, \h0A} -> Pair(s, 0)
                     [] op \in {\h12, \h1A} -> Pair(s, 1)
                     [] OTHER -> HL(s)
        t == IF Has(op, 8) THEN [s EXCEPT !.r[7] = Read8(s, address)]
                           ELSE Write8(s, address, s.r[7])
    IN CASE op \in {\h22, \h2A} -> SetPair(t, 2, Word(HL(t) + 1))
         [] op \in {\h32, \h3A} -> SetPair(t, 2, Word(HL(t) - 1))
         [] OTHER -> t

\* A case of the switch ends with the bytes that finalizeFast is told.
Fast(t, length) == [state |-> t, length |-> length]

\* finalizeFast adds the length again.
JumpBack(t, target, length) == Fast([t EXCEPT !.pc = Word(target - length)], length)

\* CPL, SCF, CCF, immediates, RST, increments.
FastLast(s, op, i8, i16) ==
    CASE op = \h2F -> Fast([s EXCEPT !.r[7] = 255 - @,
                                 !.r[6] = (@ & (FlagZ + FlagC)) + FlagN + FlagH], 1)
      [] op = \h37 -> Fast([s EXCEPT !.r[6] = (@ & FlagZ) + FlagC], 1)
      [] op = \h3F -> Fast([s EXCEPT !.r[6] = (@ & FlagZ) + Bit(~Has(@, FlagC), FlagC)], 1)
      [] op \in MathImmediateOps -> Fast(FastMath(s, Dest(op), i8), 2)
      [] op \in RstOps -> JumpBack(CachedPush16(s, Word(s.pc + 1)), op & \h38, 1)
      [] op \in IncOps ->
            LET old == CachedReadR8(s, Dest(op))
            IN Fast(CachedSetFlags(CachedWriteR8(s, Dest(op), Byte8(old + 1)), Byte8(old + 1) = 0, FALSE,
                                 Nibble(old) + 1 > \hF, Has(s.r[6], FlagC)), 1)
      [] op \in DecOps ->
            LET old == CachedReadR8(s, Dest(op))
            IN Fast(CachedSetFlags(CachedWriteR8(s, Dest(op), Byte8(old - 1)), Byte8(old - 1) = 0, TRUE,
                                 Nibble(old) = 0, Has(s.r[6], FlagC)), 1)
      [] op \in LoadImmediateOps -> Fast(CachedWriteR8(s, Dest(op), i8), 2)

\* High memory, the stack pointer and the interrupt latch.
FastHigh(s, op, i8, i16) ==
    CASE op = \hE0 -> Fast(Write8(s, \hFF00 + i8, s.r[7]), 2)
      [] op = \hF0 -> Fast([s EXCEPT !.r[7] = Read8(s, \hFF00 + i8)], 2)
      [] op = \hE2 -> Fast(Write8(s, \hFF00 + s.r[1], s.r[7]), 1)
      [] op = \hF2 -> Fast([s EXCEPT !.r[7] = Read8(s, \hFF00 + s.r[1])], 1)
      [] op \in {\hE8, \hF8} ->
            LET sum == Word(s.sp + Signed(i8))
                t == IF op = \hE8 THEN [s EXCEPT !.sp = sum] ELSE SetPair(s, 2, sum)
            IN Fast(CachedSetFlags(t, FALSE, FALSE, Nibble(s.sp) + Nibble(i8) > \hF,
                                 LowByte(s.sp) + i8 > \hFF), 2)
      [] op = \hF9 -> Fast([s EXCEPT !.sp = HL(s)], 1)
      [] op = \hEA -> Fast(Write8(s, i16, s.r[7]), 3)
      [] op = \hFA -> Fast([s EXCEPT !.r[7] = Read8(s, i16)], 3)
      [] op = \hF3 -> Fast([s EXCEPT !.ime = FALSE, !.imeSoon = FALSE], 1)
      [] op = \hFB -> Fast([s EXCEPT !.imeSoon = TRUE], 1)
      [] OTHER -> FastLast(s, op, i8, i16)

\* Jumps, calls, returns and the stack.
FastControl(s, op, i8, i16) ==
    CASE op = \h18 -> JumpBack(s, s.pc + 2 + Signed(i8), 2)
      [] op \in {\h20, \h28, \h30, \h38} ->
            IF CachedConditionHolds(s, ConditionCode(op)) THEN JumpBack(s, s.pc + 2 + Signed(i8), 2) ELSE Fast(s, 2)
      [] op = \hC3 -> JumpBack(s, i16, 3)
      [] op \in {\hC2, \hCA, \hD2, \hDA} -> IF CachedConditionHolds(s, ConditionCode(op)) THEN JumpBack(s, i16, 3) ELSE Fast(s, 3)
      [] op = \hC9 -> Fast(FastReturn(s), 1)
      [] op = \hD9 -> Fast([FastReturn(s) EXCEPT !.ime = TRUE, !.imeSoon = FALSE], 1)
      [] op \in {\hC0, \hC8, \hD0, \hD8} -> Fast(IF CachedConditionHolds(s, ConditionCode(op)) THEN FastReturn(s) ELSE s, 1)
      [] op = \hCD -> JumpBack(CachedPush16(s, Word(s.pc + 3)), i16, 3)
      [] op \in {\hC4, \hCC, \hD4, \hDC} ->
            IF CachedConditionHolds(s, ConditionCode(op)) THEN JumpBack(CachedPush16(s, Word(s.pc + 3)), i16, 3) ELSE Fast(s, 3)
      [] op \in {\hC1, \hD1, \hE1, \hF1} ->
            LET popped == CachedPop16(s)
                value == IF PairCode(op) = 3 THEN 16 * (popped.value \div 16) ELSE popped.value
            IN Fast(SetCachedStackR16(popped.state, PairCode(op), value), 1)
      [] op \in {\hC5, \hD5, \hE5, \hF5} -> Fast(CachedPush16(s, CachedStackR16(s, PairCode(op))), 1)
      [] op = \hE9 -> JumpBack(s, HL(s), 1)
      [] OTHER -> FastHigh(s, op, i8, i16)

\* NOP, STOP, HALT and 16-bit arithmetic.
FastLow(s, op, i8, i16) ==
    CASE op = \h00 -> Fast(s, 1)
      [] op = \h10 -> Fast([s EXCEPT !.stop = TRUE], 2)
      [] op = \h76 -> Fast([s EXCEPT !.halt = TRUE], 1)
      [] op \in {\h01, \h11, \h21, \h31} -> Fast(SetCachedR16(s, PairCode(op), i16), 3)
      [] op \in {\h03, \h13, \h23, \h33} -> Fast(SetCachedR16(s, PairCode(op), Word(CachedR16(s, PairCode(op)) + 1)), 1)
      [] op \in {\h0B, \h1B, \h2B, \h3B} -> Fast(SetCachedR16(s, PairCode(op), Word(CachedR16(s, PairCode(op)) - 1)), 1)
      [] op = \h08 -> Fast(Write16(s, i16, s.sp), 3)
      [] op \in {\h09, \h19, \h29, \h39} ->
            LET lhs == HL(s)
                rhs == CachedR16(s, PairCode(op))
            IN Fast(CachedSetFlags(SetPair(s, 2, Word(lhs + rhs)), Has(s.r[6], FlagZ), FALSE,
                                 (lhs % \h1000) + (rhs % \h1000) > \hFFF, lhs + rhs > \hFFFF), 1)
      [] OTHER -> FastControl(s, op, i8, i16)

\* tryFastExecuteBytes: the register transfers and the ALU before the switch,
\* the accumulator in it, the indirect loads after it.
FastStep(s, op, i8, i16) ==
    CASE op \in \h40 .. \h7F \ {\h76} -> Fast(CachedWriteR8(s, Dest(op), CachedReadR8(s, Src(op))), 1)
      [] op \in \h80 .. \hBF -> Fast(FastMath(s, Dest(op), CachedReadR8(s, Src(op))), 1)
      [] op \in {\h07, \h0F, \h17, \h1F} -> Fast(FastRotate(s, ConditionCode(op)), 1)
      [] op = \h27 -> Fast(FastDaa(s), 1)
      [] op \in {\h02, \h12, \h22, \h32, \h0A, \h1A, \h2A, \h3A} -> Fast(FastIndirect(s, op), 1)
      [] OTHER -> FastLow(s, op, i8, i16)

\* finalizeFast.
ExecuteFast(s, op, i8, i16) ==
    LET done == FastStep([s EXCEPT !.active = TRUE, !.endOffset = Cycles(op).notTaken], op, i8, i16)
        pc == Word(done.state.pc + done.length - Bit(s.haltBug, 1))
    IN Retire([done.state EXCEPT !.pc = pc, !.haltBug = FALSE],
              IF pc # Word(s.pc + done.length) THEN Cycles(op).taken ELSE Cycles(op).notTaken)
-----------------------------------------------------------------------------
(***************************************************************************)
(* The intermediate representation: lowerInstruction turns an instruction  *)
(* into operations on named values, which an interpreter executes.         *)
(***************************************************************************)
LowerableOp(op) ==
    \/ op \in {\h00, \h18} \cup (\h40 .. \hBF \ {\h76})
    \/ op \in IncOps \cup DecOps \cup LoadImmediateOps

EmitReadR8(code, to) ==
    IF code # 6 THEN <<[op |-> "readRegister", reg |-> code, to |-> to]>>
    ELSE <<[op |-> "readHL", to |-> "address"],
           [op |-> "loadMemory", at |-> "address", to |-> to]>>

EmitWriteR8(code, from) ==
    IF code # 6 THEN <<[op |-> "writeRegister", reg |-> code, from |-> from]>>
    ELSE <<[op |-> "readHL", to |-> "address"],
           [op |-> "storeMemory", at |-> "address", from |-> from]>>

EmitNextPc(next) == <<[op |-> "setProgramCounter", target |-> next]>>

Lowered(op, i8, address) ==
    LET next == Word(address + LengthOf(op))
        Operations ==
            CASE op = \h00 -> EmitNextPc(next)
              [] op \in \h40 .. \h7F -> EmitReadR8(Src(op), "value") \o EmitWriteR8(Dest(op), "value")
                                     \o EmitNextPc(next)
              [] op \in LoadImmediateOps ->
                    <<[op |-> "constant", value |-> i8, to |-> "value"]>>
                    \o EmitWriteR8(Dest(op), "value") \o EmitNextPc(next)
              [] op \in IncOps \cup DecOps ->
                    EmitReadR8(Dest(op), "old")
                    \o <<[op |-> "constant", value |-> 1, to |-> "one"],
                         [op |-> IF op \in DecOps THEN "subtract" ELSE "add",
                          lhs |-> "old", rhs |-> "one", to |-> "new"],
                         [op |-> IF op \in DecOps THEN "decrementFlags" ELSE "incrementFlags",
                          old |-> "old", new |-> "new"]>>
                    \o EmitWriteR8(Dest(op), "new") \o EmitNextPc(next)
              [] op \in \h80 .. \hBF ->
                    <<[op |-> "readRegister", reg |-> 7, to |-> "lhs"]>>
                    \o EmitReadR8(Src(op), "rhs")
                    \o <<[op |-> "alu", code |-> Dest(op), lhs |-> "lhs", rhs |-> "rhs", to |-> "value"]>>
                    \o (IF Dest(op) = 7 THEN <<>> ELSE EmitWriteR8(7, "value"))
                    \o EmitNextPc(next)
              [] op = \h18 -> <<[op |-> "branch", target |-> Word(next + Signed(i8))]>>
        cycles ==
            CASE op \in \h40 .. \h7F -> IF Src(op) = 6 \/ Dest(op) = 6 THEN 8 ELSE 4
              [] op \in LoadImmediateOps -> IF Dest(op) = 6 THEN 12 ELSE 8
              [] op \in IncOps \cup DecOps -> IF Dest(op) = 6 THEN 12 ELSE 4
              [] op \in \h80 .. \hBF -> IF Src(op) = 6 THEN 8 ELSE 4
              [] op = \h18 -> 12
              [] OTHER -> 4
    IN [operations |-> Operations, cycles |-> cycles]

\* The ExecuteAlu8 helper: sets the flags and returns the result.
HelperAlu(s, code, lhs, rhs) ==
    LET carry == IF Has(s.r[6], FlagC) THEN 1 ELSE 0
        total == CASE code = 0 -> lhs + rhs
                   [] code = 1 -> lhs + rhs + carry
                   [] code \in {2, 7} -> lhs - rhs
                   [] code = 3 -> lhs - (rhs + carry)
                   [] code = 4 -> lhs & rhs
                   [] code = 5 -> lhs ^^ rhs
                   [] code = 6 -> lhs | rhs
        borrowIn == IF code \in {1, 3} THEN carry ELSE 0
        half == CASE code \in {0, 1} -> Nibble(lhs) + Nibble(rhs) + borrowIn > \hF
                  [] code \in {2, 3, 7} -> Nibble(lhs) < Nibble(rhs) + borrowIn
                  [] OTHER -> code = 4
    IN [state |-> CachedSetFlags(s, Byte8(total) = 0, code \in {2, 3, 7}, half, total \notin 0 .. 255),
        result |-> IF code = 7 THEN lhs ELSE Byte8(total)]

\* One operation on the machine m.s and the values m.v.
ExecuteOperation(m, o) ==
    LET Value(name, n) == [m.v EXCEPT ![name] = n]
    IN CASE o.op = "constant" -> [m EXCEPT !.v = Value(o.to, o.value)]
         [] o.op = "readRegister" -> [m EXCEPT !.v = Value(o.to, CachedReadR8(m.s, o.reg))]
         [] o.op = "readHL" -> [m EXCEPT !.v = Value(o.to, HL(m.s))]
         [] o.op = "writeRegister" -> [m EXCEPT !.s = CachedWriteR8(m.s, o.reg, m.v[o.from])]
         [] o.op = "loadMemory" -> [m EXCEPT !.v = Value(o.to, Read8(m.s, m.v[o.at]))]
         [] o.op = "storeMemory" -> [m EXCEPT !.s = Write8(m.s, m.v[o.at], m.v[o.from])]
         [] o.op = "add" -> [m EXCEPT !.v = Value(o.to, Byte8(m.v[o.lhs] + m.v[o.rhs]))]
         [] o.op = "subtract" -> [m EXCEPT !.v = Value(o.to, Byte8(m.v[o.lhs] - m.v[o.rhs]))]
         [] o.op = "incrementFlags" ->
               [m EXCEPT !.s = CachedSetFlags(m.s, m.v[o.new] = 0, FALSE,
                                              Nibble(m.v[o.old]) + 1 > \hF, Has(m.s.r[6], FlagC))]
         [] o.op = "decrementFlags" ->
               [m EXCEPT !.s = CachedSetFlags(m.s, m.v[o.new] = 0, TRUE,
                                              Nibble(m.v[o.old]) = 0, Has(m.s.r[6], FlagC))]
         [] o.op = "alu" ->
               LET called == HelperAlu(m.s, o.code, m.v[o.lhs], m.v[o.rhs])
               IN [s |-> called.state, v |-> Value(o.to, called.result)]
         [] o.op \in {"setProgramCounter", "branch"} -> [m EXCEPT !.s.pc = o.target]

NoValues == [name \in {"address", "value", "old", "new", "one", "lhs", "rhs"} |-> 0]

\* executePortableIrInstruction.  Nothing marks the instruction as active.
ExecuteLowered(s, op, i8, i16) ==
    LET block == Lowered(op, i8, s.pc)
    IN Retire(FoldLeft(ExecuteOperation, [s |-> s, v |-> NoValues], block.operations).s, block.cycles)
-----------------------------------------------------------------------------
\* The first operand is in B, the pointers are HL and SP, the byte at HL is
\* the operand too; the other registers are told apart.
InstructionStates ==
    {[r |-> [n \in 0 .. 7 |-> CASE n = 0 -> b [] n = 1 -> 4 [] n = 2 -> 18 [] n = 3 -> 52
                                [] n = 4 -> HighByte(hl) [] n = 5 -> LowByte(hl) [] n = 6 -> f
                                [] n = 7 -> a],
      sp |-> sp, pc |-> 256, mem |-> [address \in {hl} \ {DivAddress} |-> b],
      ime |-> FALSE, imeSoon |-> FALSE, halt |-> FALSE, stop |-> FALSE, locked |-> FALSE,
      haltBug |-> bug, active |-> FALSE, endOffset |-> 0, resets |-> <<>>,
      divider |-> 100, cycles |-> 0] :
         a \in AluBytes, b \in AluBytes, f \in FlagBytes, hl \in Pointers, sp \in Pointers,
         bug \in BOOLEAN}

InstructionsInit == executed = 0 /\ processor \in InstructionStates

AllOpcodes == \h00 .. \hFF
IrCanExecute == ~processor.halt /\ ~processor.stop /\ ~processor.locked /\ executed < MaxExecuted

StepTable(op, i8, i16) ==
    /\ IrCanExecute
    /\ processor' = ExecuteTable(processor, op, i8, i16)
    /\ executed' = executed + 1

StepFast(op, i8, i16) ==
    /\ IrCanExecute /\ SupportsFastOpcode(op)
    /\ processor' = ExecuteFast(processor, op, i8, i16)
    /\ executed' = executed + 1

StepLowered(op, i8, i16) ==
    /\ IrCanExecute /\ LowerableOp(op) /\ ~processor.haltBug
    /\ processor' = ExecuteLowered(processor, op, i8, i16)
    /\ executed' = executed + 1

InstructionsNext ==
    \E op \in Stepped, i8 \in Immediates, i16 \in Pointers :
        StepTable(op, i8, i16) \/ StepFast(op, i8, i16) \/ StepLowered(op, i8, i16)
-----------------------------------------------------------------------------
\* Whatever path executes an instruction, registers, memory, program counter,
\* latches and cycles end up the same; so does the divider, unless a lowered
\* instruction wrote to it, which resets it before its cycles instead of after.
PathsAgree ==
    IrCanExecute =>
        \A op \in AllOpcodes, i8 \in Immediates :
            \A i16 \in (IF LengthOf(op) = 3 THEN Pointers ELSE {0}) :
                LET canonical == ExecuteTable(processor, op, i8, i16)
                    lowered == ExecuteLowered(processor, op, i8, i16)
                IN /\ SupportsFastOpcode(op) => ExecuteFast(processor, op, i8, i16) = canonical
                   /\ LowerableOp(op) /\ ~processor.haltBug =>
                         /\ [lowered EXCEPT !.divider = 0] = [canonical EXCEPT !.divider = 0]
                         /\ lowered.divider # canonical.divider =>
                               HL(processor) = DivAddress /\ canonical.divider = 0

\* Two decimal numbers added or subtracted, with or without a carry, and then
\* adjusted by DAA give the decimal result and the decimal carry.
DecimalArithmetic ==
    LET IsDecimal(b) == Nibble(b) < 10 /\ b \div 16 < 10
        Decimal(b) == 10 * (b \div 16) + Nibble(b)
        a == Decimal(processor.r[7])
        b == Decimal(processor.r[0])
        carry == Bit(Has(processor.r[6], FlagC), 1)
        Adjusted(code) == TableDaa(TableMath(processor, code, processor.r[0]))
        Is(s, n) == Decimal(s.r[7]) = n % 100 /\ IsDecimal(s.r[7])
                    /\ (Has(s.r[6], FlagC) <=> n \notin 0 .. 99)
    IN IrCanExecute /\ IsDecimal(processor.r[7]) /\ IsDecimal(processor.r[0]) =>
          /\ Is(Adjusted(0), a + b)
          /\ Is(Adjusted(1), a + b + carry)
          /\ Is(Adjusted(2), a - b)
          /\ Is(Adjusted(3), a - b - carry)
=============================================================================
