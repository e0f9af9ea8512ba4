--------------------------- MODULE Z80Interpreter ---------------------------
(***************************************************************************)
(* The Game Gear's CPU: what one call of Z80Interpreter::step does to the  *)
(* registers and to memory.  Registers are numbered as opcodes number      *)
(* them, B C D E H L, then F and A; code 6 of an opcode is the byte at HL. *)
(* Memory and I/O are the ones GameGearExecution gives.                    *)
(***************************************************************************)
EXTENDS Bytes, FiniteSets, Sequences

SF == \h80
ZF == \h40
YF == \h20
HF == \h10
XF == \h08
PF == \h04
NF == \h02
CF == \h01

Peek(s, address) == IF address \in DOMAIN s.mem THEN s.mem[address] ELSE 0
Poke(s, address, byte) ==
    [s EXCEPT !.mem = [a \in DOMAIN s.mem \cup {address} |-> IF a = address THEN byte ELSE s.mem[a]]]
PeekWord(s, address) == Peek(s, address) + 256 * Peek(s, Word(address + 1))
PokeWord(s, address, w) == Poke(Poke(s, address, LowByte(w)), Word(address + 1), HighByte(w))

\* A port of the VDP, mirrored over the ports that share its bits: reading its
\* status acknowledges the interrupt.  Other ports read a byte of their own.
StatusPort(port) == (LowByte(port) & \hC1) = \h81
ReadIo(s, port) == IF StatusPort(port) THEN Bit(s.irq, \h80) ELSE Byte8(port + 17)
AfterRead(s, port) == IF StatusPort(port) THEN [s EXCEPT !.irq = FALSE] ELSE s
WriteIo(s, port, byte) == [s EXCEPT !.ports = Append(@, <<port, byte>>)]

\* fetch8 and fetch16, without and with the program counter.
Imm8(s) == Peek(s, s.pc)
Imm16(s) == PeekWord(s, s.pc)
Past(s, bytes) == [s EXCEPT !.pc = Word(@ + bytes)]
Refreshed(s, n) == [s EXCEPT !.refresh = 128 * (@ \div 128) + ((@ + n) % 128)]
FetchOpcodes(s, n) == Past(Refreshed(s, n), n)
Took(s, cycles) == [s EXCEPT !.cycles = cycles]
Longer(s, cycles) == [s EXCEPT !.cycles = @ + cycles]

SetF(s, flags) == [s EXCEPT !.r[6] = flags]
SetA(s, byte) == [s EXCEPT !.r[7] = byte]
Carry(s) == s.r[6] % 2

WordOf(s, code) == 256 * s.r[2 * code] + s.r[2 * code + 1]
SetWord(s, code, w) == [s EXCEPT !.r[2 * code] = HighByte(w), !.r[2 * code + 1] = LowByte(w)]
AFWord(s) == 256 * s.r[7] + s.r[6]
GetReg16ByPair(s, code) == IF code = 3 THEN s.sp ELSE WordOf(s, code)
SetReg16ByPair(s, code, w) == IF code = 3 THEN [s EXCEPT !.sp = w] ELSE SetWord(s, code, w)
GetStackPair(s, code) == IF code = 3 THEN AFWord(s) ELSE WordOf(s, code)
SetStackPair(s, code, w) ==
    IF code = 3 THEN [s EXCEPT !.r[7] = HighByte(w), !.r[6] = LowByte(w)] ELSE SetWord(s, code, w)

ReadReg8(s, code) == IF code = 6 THEN Peek(s, WordOf(s, 2)) ELSE s.r[code]
WriteReg8(s, code, byte) ==
    IF code = 6 THEN Poke(s, WordOf(s, 2), byte) ELSE [s EXCEPT !.r[code] = byte]

PushWord(s, w) == PokeWord([s EXCEPT !.sp = Word(@ - 2)], Word(s.sp - 2), w)
Popped(s) == [s EXCEPT !.sp = Word(@ + 2)]
TopWord(s) == PeekWord(s, s.sp)

\* Flags.
ParityEven(byte) == Cardinality({n \in 0 .. 7 : Has(byte, 2 ^ n)}) % 2 = 0
Copied(byte) == byte & (YF + XF)
Sz35(byte) == (byte & (SF + YF + XF)) + Bit(byte = 0, ZF)
Negative(byte) == byte >= 128

ComputeAddFlags(lhs, rhs, carry) ==
    LET result == Byte8(lhs + rhs + carry)
    IN Sz35(result)
       + Bit(Nibble(lhs) + Nibble(rhs) + carry > \hF, HF)
       + Bit(Negative(lhs) = Negative(rhs) /\ Negative(lhs) # Negative(result), PF)
       + Bit(lhs + rhs + carry > \hFF, CF)

ComputeSubFlags(lhs, rhs, carry) ==
    LET result == Byte8(lhs - rhs - carry)
    IN NF + Sz35(result)
       + Bit(Nibble(lhs) < Nibble(rhs) + carry, HF)
       + Bit(Negative(lhs) # Negative(rhs) /\ Negative(lhs) # Negative(result), PF)
       + Bit(lhs < rhs + carry, CF)

ComputeIncFlags(s, before) ==
    Carry(s) + Sz35(Byte8(before + 1)) + Bit(Nibble(before) = \hF, HF) + Bit(before = \h7F, PF)

ComputeDecFlags(s, before) ==
    Carry(s) + NF + Sz35(Byte8(before - 1)) + Bit(Nibble(before) = 0, HF) + Bit(before = \h80, PF)

LogicFlags(result, halfCarry) ==
    Sz35(result) + Bit(halfCarry, HF) + Bit(ParityEven(result), PF)

Alu(s, group, value) ==
    LET a == s.r[7]
        c == IF group \in {1, 3} THEN Carry(s) ELSE 0
    IN CASE group \in {0, 1} -> SetF(SetA(s, Byte8(a + value + c)), ComputeAddFlags(a, value, c))
         [] group \in {2, 3} -> SetF(SetA(s, Byte8(a - value - c)), ComputeSubFlags(a, value, c))
         [] group = 4 -> SetF(SetA(s, a & value), LogicFlags(a & value, TRUE))
         [] group = 5 -> SetF(SetA(s, a ^^ value), LogicFlags(a ^^ value, FALSE))
         [] group = 6 -> SetF(SetA(s, a | value), LogicFlags(a | value, FALSE))
         [] group = 7 -> SetF(s, ComputeSubFlags(a, value, 0))

\* rotateShift: RLC RRC RL RR SLA SRA SLL SRL.
Shifted(s, group, value) ==
    CASE group = 0 -> Byte8(2 * value) + (value \div 128)
      [] group = 1 -> (value \div 2) + 128 * (value % 2)
      [] group = 2 -> Byte8(2 * value) + Carry(s)
      [] group = 3 -> (value \div 2) + 128 * Carry(s)
      [] group = 4 -> Byte8(2 * value)
      [] group = 5 -> (value \div 2) + Bit(value >= 128, 128)
      [] group = 6 -> Byte8(2 * value) + 1
      [] group = 7 -> value \div 2

ShiftedOut(group, value) == IF group \in {0, 2, 4, 6} THEN value \div 128 ELSE value % 2

\* ADD HL,rr and ADD IX,rr.
AddWordFlags(s, lhs, rhs) ==
    (s.r[6] & (SF + ZF + PF))
    + Bit((lhs % \h1000) + (rhs % \h1000) > \hFFF, HF)
    + Bit(lhs + rhs > \hFFFF, CF)
    + Copied(HighByte(Word(lhs + rhs)))

Holds(s, cc) ==
    LET bit == CASE cc \div 2 = 0 -> ZF [] cc \div 2 = 1 -> CF [] cc \div 2 = 2 -> PF [] OTHER -> SF
    IN Has(s.r[6], bit) <=> cc % 2 = 1
-----------------------------------------------------------------------------
\* executeCbOpcode; the index registers address memory, and their results go
\* to a register too.
CbOpcode(s, op, indexed, address) ==
    LET y == (op \div 8) % 8
        z == op % 8
        value == IF indexed THEN Peek(s, address) ELSE ReadReg8(s, z)
        inMemory == indexed \/ z = 6
        Store(t, byte) ==
            IF ~indexed THEN WriteReg8(t, z, byte)
            ELSE IF z = 6 THEN Poke(t, address, byte)
            ELSE WriteReg8(Poke(t, address, byte), z, byte)
        shifted == Shifted(s, y, value)
        cycles == IF indexed THEN 23 ELSE IF inMemory THEN 15 ELSE 8
    IN CASE op < \h40 ->
              Took(Store(SetF(s, LogicFlags(shifted, FALSE) + ShiftedOut(y, value)), shifted), cycles)
         [] op \in \h40 .. \h7F ->
              Took(SetF(s, Carry(s) + HF + Bit(~Has(value, 2 ^ y), ZF + PF)
                           + Bit(y = 7 /\ Has(value, 128), SF)
                           + Copied(IF indexed THEN HighByte(address) ELSE value)),
                   IF indexed THEN 20 ELSE IF inMemory THEN 12 ELSE 8)
         [] op \in \h80 .. \hBF -> Took(Store(s, value - Bit(Has(value, 2 ^ y), 2 ^ y)), cycles)
         [] OTHER -> Took(Store(s, value + Bit(~Has(value, 2 ^ y), 2 ^ y)), cycles)

\* SBC HL,ss and ADC HL,ss.
EdArithmetic(s, subtract, rhs) ==
    LET lhs == WordOf(s, 2)
        c == Carry(s)
        result == Word(IF subtract THEN lhs - rhs - c ELSE lhs + rhs + c)
        Sign(w) == w >= \h8000
        flags ==
            (HighByte(result) & (SF + YF + XF)) + Bit(result = 0, ZF) + Bit(subtract, NF)
            + Bit(IF subtract THEN lhs % \h1000 < (rhs % \h1000) + c
                              ELSE (lhs % \h1000) + (rhs % \h1000) + c > \hFFF, HF)
            + Bit(/\ Sign(lhs) # Sign(result)
                  /\ IF subtract THEN Sign(lhs) # Sign(rhs) ELSE Sign(lhs) = Sign(rhs), PF)
            + Bit(IF subtract THEN lhs < rhs + c ELSE lhs + rhs + c > \hFFFF, CF)
    IN Took(SetF(SetWord(s, 2, result), flags), 15)

\* A block instruction that is not done goes back to its own first byte.
Repeated(s, again) == IF again THEN Took(Past(s, -2), 21) ELSE Took(s, 16)

BlockTransfer(s, direction, repeat) ==
    LET moved == Poke(s, WordOf(s, 1), Peek(s, WordOf(s, 2)))
        bc == Word(WordOf(s, 0) - 1)
        t == SetWord(SetWord(SetWord(moved, 2, Word(WordOf(s, 2) + direction)),
                             1, Word(WordOf(s, 1) + direction)), 0, bc)
    IN Repeated(SetF(t, (s.r[6] & (SF + ZF + CF)) + Bit(bc # 0, PF)), repeat /\ bc # 0)

BlockCompare(s, direction, repeat) ==
    LET value == Peek(s, WordOf(s, 2))
        bc == Word(WordOf(s, 0) - 1)
        again == bc # 0 /\ s.r[7] # value
        t == SetWord(SetWord(s, 2, Word(WordOf(s, 2) + direction)), 0, bc)
        flags == ComputeSubFlags(s.r[7], value, 0) & (SF + ZF + YF + HF + XF + NF)
    IN Repeated(SetF(t, flags + Carry(s) + Bit(again, PF)), repeat /\ again)

BlockIn(s, direction, repeat) ==
    LET port == WordOf(s, 0)
        b == Byte8(s.r[0] - 1)
        t == Poke(AfterRead(s, port), WordOf(s, 2), ReadIo(s, port))
    IN Repeated(SetF([SetWord(t, 2, Word(WordOf(s, 2) + direction)) EXCEPT !.r[0] = b], Sz35(b) + NF),
                repeat /\ b # 0)

BlockOut(s, direction, repeat) ==
    LET b == Byte8(s.r[0] - 1)
        t == [SetWord(s, 2, Word(WordOf(s, 2) + direction)) EXCEPT !.r[0] = b]
    IN Repeated(SetF(WriteIo(t, WordOf(t, 0), Peek(s, WordOf(s, 2))), Sz35(b) + NF), repeat /\ b # 0)

\* RRD and RLD.
RotateDigits(s, left) ==
    LET m == Peek(s, WordOf(s, 2))
        a == s.r[7]
        stored == IF left THEN Byte8(16 * m) + Nibble(a) ELSE Byte8(16 * a) + (m \div 16)
        result == 16 * (a \div 16) + (IF left THEN m \div 16 ELSE Nibble(m))
    IN Took(SetF(SetA(Poke(s, WordOf(s, 2), stored), result), LogicFlags(result, FALSE) + Carry(s)), 18)

LoadInterruptByte(s, value) ==
    Took(SetF(SetA(s, value), Carry(s) + Sz35(value) + Bit(s.iff2, PF)), 9)

\* executeEdOpcode.
EdOpcode(s, op) ==
    LET y == (op \div 8) % 8
        z == op % 8
        pair == (op \div 16) % 4
        direction == IF Has(op, 8) THEN -1 ELSE 1
        repeat == Has(op, 16)
        port == WordOf(s, 0)
        got == ReadIo(s, port)
    IN CASE op \in \h40 .. \h7F /\ z = 0 ->
              LET t == SetF(AfterRead(s, port), Carry(s) + Sz35(got) + Bit(ParityEven(got), PF))
              IN Took(IF y = 6 THEN t ELSE WriteReg8(t, y, got), 12)
         [] op \in \h40 .. \h7F /\ z = 1 -> Took(WriteIo(s, port, IF y = 6 THEN 0 ELSE ReadReg8(s, y)), 12)
         [] op \in \h40 .. \h7F /\ z = 2 -> EdArithmetic(s, y % 2 = 0, GetReg16ByPair(s, pair))
         [] op \in \h40 .. \h7F /\ z = 3 ->
              Took(IF y % 2 = 0 THEN PokeWord(Past(s, 2), Imm16(s), GetReg16ByPair(s, pair))
                                ELSE SetReg16ByPair(Past(s, 2), pair, PeekWord(s, Imm16(s))), 20)
         [] op \in \h40 .. \h7F /\ z = 4 ->
              Took(SetF(SetA(s, Byte8(0 - s.r[7])), ComputeSubFlags(0, s.r[7], 0)), 8)
         [] op \in \h40 .. \h7F /\ z = 5 ->
              Took([Popped(s) EXCEPT !.pc = TopWord(s), !.iff1 = s.iff2, !.ime = s.iff2], 14)
         [] op \in \h40 .. \h7F /\ z = 6 ->
              Took([s EXCEPT !.mode = CASE y \in {0, 4} -> 0 [] y \in {2, 6} -> 1 [] OTHER -> 2], 8)
         [] op = \h47 -> Took([s EXCEPT !.i = s.r[7]], 9)
         [] op = \h4F -> Took([s EXCEPT !.refresh = s.r[7]], 9)
         [] op = \h57 -> LoadInterruptByte(s, s.i)
         [] op = \h5F -> LoadInterruptByte(s, s.refresh)
         [] op \in {\h67, \h6F} -> RotateDigits(s, op = \h6F)
         [] op \in {\hA0, \hA8, \hB0, \hB8} -> BlockTransfer(s, direction, repeat)
         [] op \in {\hA1, \hA9, \hB1, \hB9} -> BlockCompare(s, direction, repeat)
         [] op \in {\hA2, \hAA, \hB2, \hBA} -> BlockIn(s, direction, repeat)
         [] op \in {\hA3, \hAB, \hB3, \hBB} -> BlockOut(s, direction, repeat)
         [] OTHER -> Took(s, 8)
-----------------------------------------------------------------------------
Exchanged(s, w) == PokeWord(s, s.sp, w)
Called(s, address) == [PushWord(s, s.pc) EXCEPT !.pc = address]
Returned(s) == [Popped(s) EXCEPT !.pc = TopWord(s)]
JumpRelative(s, taken) == Past(s, IF taken THEN 1 + Signed(Imm8(s)) ELSE 1)

\* RLCA RRCA RLA RRA: the rotations, with the flags of the accumulator forms.
RotateA(s, group) ==
    LET r == Shifted(s, group, s.r[7])
    IN SetF(SetA(s, r), (s.r[6] & (SF + ZF + PF)) + Copied(r) + ShiftedOut(group, s.r[7]))

DaaResult(s) ==
    LET a == s.r[7]
        wide == Has(s.r[6], CF) \/ a > \h99
        correction == Bit(Has(s.r[6], HF) \/ Nibble(a) > 9, \h06) + Bit(wide, \h60)
    IN [byte |-> Byte8(IF Has(s.r[6], NF) THEN a - correction ELSE a + correction), carry |-> wide]

Daa(s) ==
    LET d == DaaResult(s)
    IN SetF(SetA(s, d.byte),
            (s.r[6] & NF) + Bit(d.carry, CF) + Sz35(d.byte) + Bit(ParityEven(d.byte), PF))

\* executeOpcode, 0x00 to 0x3F.
LowOpcode(s, op) ==
    LET y == op \div 8
        pair == op \div 16
        kept == s.r[6] & (SF + ZF + PF)
        before == ReadReg8(s, y)
    IN CASE op % 8 = 6 -> Took(WriteReg8(Past(s, 1), y, Imm8(s)), IF y = 6 THEN 10 ELSE 7)
         [] op % 8 = 4 -> Took(SetF(WriteReg8(s, y, Byte8(before + 1)), ComputeIncFlags(s, before)),
                               IF y = 6 THEN 11 ELSE 4)
         [] op % 8 = 5 -> Took(SetF(WriteReg8(s, y, Byte8(before - 1)), ComputeDecFlags(s, before)),
                               IF y = 6 THEN 11 ELSE 4)
         [] op % 16 = 1 -> Took(SetReg16ByPair(Past(s, 2), pair, Imm16(s)), 10)
         [] op % 16 = 3 -> Took(SetReg16ByPair(s, pair, Word(GetReg16ByPair(s, pair) + 1)), 6)
         [] op % 16 = 11 -> Took(SetReg16ByPair(s, pair, Word(GetReg16ByPair(s, pair) - 1)), 6)
         [] op % 16 = 9 ->
              LET rhs == GetReg16ByPair(s, pair)
              IN Took(SetF(SetWord(s, 2, Word(WordOf(s, 2) + rhs)), AddWordFlags(s, WordOf(s, 2), rhs)), 11)
         [] op \in {\h02, \h12} -> Took(Poke(s, WordOf(s, pair), s.r[7]), 7)
         [] op \in {\h0A, \h1A} -> Took(SetA(s, Peek(s, WordOf(s, pair))), 7)
         [] op \in {\h07, \h0F, \h17, \h1F} -> Took(RotateA(s, y), 4)
         [] op = \h08 -> Took([s EXCEPT !.r[6] = s.alt[6], !.r[7] = s.alt[7],
                                        !.alt[6] = s.r[6], !.alt[7] = s.r[7]], 4)
         [] op = \h10 ->
              LET b == Byte8(s.r[0] - 1)
              IN Took([JumpRelative(s, b # 0) EXCEPT !.r[0] = b], IF b # 0 THEN 13 ELSE 8)
         [] op = \h18 -> Took(JumpRelative(s, TRUE), 12)
         [] op \in {\h20, \h28, \h30, \h38} ->
              LET taken == Holds(s, y - 4)
              IN Took(JumpRelative(s, taken), IF taken THEN 12 ELSE 7)
         [] op = \h22 -> Took(PokeWord(Past(s, 2), Imm16(s), WordOf(s, 2)), 16)
         [] op = \h2A -> Took(SetWord(Past(s, 2), 2, PeekWord(s, Imm16(s))), 16)
         [] op = \h32 -> Took(Poke(Past(s, 2), Imm16(s), s.r[7]), 13)
         [] op = \h3A -> Took(SetA(Past(s, 2), Peek(s, Imm16(s))), 13)
         [] op = \h27 -> Took(Daa(s), 4)
         [] op = \h2F -> Took(SetF(SetA(s, 255 - s.r[7]), kept + Carry(s) + HF + NF + Copied(255 - s.r[7])), 4)
         [] op = \h37 -> Took(SetF(s, kept + CF + Copied(s.r[7])), 4)
         [] op = \h3F -> Took(SetF(s, kept + Bit(Has(s.r[6], CF), HF) + Bit(~Has(s.r[6], CF), CF)
                                      + Copied(s.r[7])), 4)
         [] OTHER -> Took(s, 4)

\* executeOpcode, 0xC0 to 0xFF, without the index prefixes.
HighOpcode(s, op) ==
    LET y == (op \div 8) % 8
        pair == (op \div 16) % 4
        holds == Holds(s, y)
        port == 256 * s.r[7] + Imm8(s)
    IN CASE op % 8 = 0 -> IF holds THEN Took(Returned(s), 11) ELSE Took(s, 5)
         [] op % 8 = 2 -> Took(IF holds THEN [s EXCEPT !.pc = Imm16(s)] ELSE Past(s, 2), 10)
         [] op % 8 = 4 -> IF holds THEN Took(Called(Past(s, 2), Imm16(s)), 17) ELSE Took(Past(s, 2), 10)
         [] op % 8 = 6 -> Took(Alu(Past(s, 1), y, Imm8(s)), 7)
         [] op % 8 = 7 -> Took(Called(s, 8 * y), 11)
         [] op % 16 = 1 -> Took(SetStackPair(Popped(s), pair, TopWord(s)), 10)
         [] op % 16 = 5 -> Took(PushWord(s, GetStackPair(s, pair)), 11)
         [] op = \hC3 -> Took([s EXCEPT !.pc = Imm16(s)], 10)
         [] op = \hC9 -> Took(Returned(s), 10)
         [] op = \hCB -> CbOpcode(FetchOpcodes(s, 1), Imm8(s), FALSE, 0)
         [] op = \hCD -> Took(Called(Past(s, 2), Imm16(s)), 17)
         [] op = \hD3 -> Took(WriteIo(Past(s, 1), port, s.r[7]), 11)
         [] op = \hDB -> Took(SetA(AfterRead(Past(s, 1), port), ReadIo(s, port)), 11)
         [] op = \hD9 -> Took([s EXCEPT !.r = [n \in 0 .. 7 |-> IF n < 6 THEN s.alt[n] ELSE @[n]],
                                        !.alt = [n \in 0 .. 7 |-> IF n < 6 THEN s.r[n] ELSE @[n]]], 4)
         [] op = \hE3 -> Took(SetWord(Exchanged(s, WordOf(s, 2)), 2, TopWord(s)), 19)
         [] op = \hE9 -> Took([s EXCEPT !.pc = WordOf(s, 2)], 4)
         [] op = \hEB -> Took(SetWord(SetWord(s, 1, WordOf(s, 2)), 2, WordOf(s, 1)), 4)
         [] op = \hED -> EdOpcode(FetchOpcodes(s, 1), Imm8(s))
         [] op = \hF3 -> Took([s EXCEPT !.iff1 = FALSE, !.iff2 = FALSE, !.ime = FALSE, !.delay = 0], 4)
         [] op = \hF9 -> Took([s EXCEPT !.sp = WordOf(s, 2)], 6)
         [] op = \hFB -> Took([s EXCEPT !.iff1 = TRUE, !.iff2 = TRUE, !.delay = 2], 4)
         [] OTHER -> Took(s, 4)

\* executeOpcode, without the index prefixes.
PlainOpcode(s, op) ==
    LET y == (op \div 8) % 8
        z == op % 8
        inMemory == y = 6 \/ z = 6
    IN CASE op = \h76 -> Took([s EXCEPT !.halted = TRUE], 4)
         [] op \in \h40 .. \h7F /\ op # \h76 ->
              Took(WriteReg8(s, y, ReadReg8(s, z)), IF inMemory THEN 7 ELSE 4)
         [] op \in \h80 .. \hBF -> Took(Alu(s, y, ReadReg8(s, z)), IF z = 6 THEN 7 ELSE 4)
         [] op < \h40 -> LowOpcode(s, op)
         [] op >= \hC0 -> HighOpcode(s, op)

\* executeIndexedOpcode, for the index register x, "ix" or "iy".
IndexedOpcode(s, x, op) ==
    LET y == (op \div 8) % 8
        z == op % 8
        index == s[x]
        address == Word(index + Signed(Imm8(s)))
        value == Peek(s, address)
        past == Past(s, 1)
        addend == CASE op = \h09 -> WordOf(s, 0) [] op = \h19 -> WordOf(s, 1)
                    [] op = \h29 -> index [] OTHER -> s.sp
        With(t, w) == [t EXCEPT ![x] = w]
        Low(byte) == 256 * HighByte(index) + byte
        High(byte) == 256 * byte + LowByte(index)
    IN CASE op = \hCB ->
              CbOpcode(FetchOpcodes(past, 1), Imm8(past), TRUE, address)
         [] op \in {\h09, \h19, \h29, \h39} ->
              Took(SetF(With(s, Word(index + addend)), AddWordFlags(s, index, addend)), 15)
         [] op = \h21 -> Took(With(Past(s, 2), Imm16(s)), 14)
         [] op = \h22 -> Took(PokeWord(Past(s, 2), Imm16(s), index), 20)
         [] op = \h2A -> Took(With(Past(s, 2), PeekWord(s, Imm16(s))), 20)
         [] op = \h23 -> Took(With(s, Word(index + 1)), 10)
         [] op = \h2B -> Took(With(s, Word(index - 1)), 10)
         [] op = \h24 -> Took(SetF(With(s, High(Byte8(HighByte(index) + 1))), ComputeIncFlags(s, HighByte(index))), 8)
         [] op = \h25 -> Took(SetF(With(s, High(Byte8(HighByte(index) - 1))), ComputeDecFlags(s, HighByte(index))), 8)
         [] op = \h2C -> Took(SetF(With(s, Low(Byte8(LowByte(index) + 1))), ComputeIncFlags(s, LowByte(index))), 8)
         [] op = \h2D -> Took(SetF(With(s, Low(Byte8(LowByte(index) - 1))), ComputeDecFlags(s, LowByte(index))), 8)
         [] op = \h26 -> Took(With(past, High(Imm8(s))), 11)
         [] op = \h2E -> Took(With(past, Low(Imm8(s))), 11)
         [] op = \h34 -> Took(SetF(Poke(past, address, Byte8(value + 1)), ComputeIncFlags(s, value)), 23)
         [] op = \h35 -> Took(SetF(Poke(past, address, Byte8(value - 1)), ComputeDecFlags(s, value)), 23)
         [] op = \h36 -> Took(Poke(Past(s, 2), address, Imm8(past)), 19)
         [] op = \hE1 -> Took(With(Popped(s), TopWord(s)), 14)
         [] op = \hE3 -> Took(With(Exchanged(s, index), TopWord(s)), 23)
         [] op = \hE5 -> Took(PushWord(s, index), 15)
         [] op = \hE9 -> Took([s EXCEPT !.pc = index], 8)
         [] op = \hF9 -> Took([s EXCEPT !.sp = index], 10)
         [] op \in {\h06, \h0E, \h16, \h1E, \h3E} -> Took(WriteReg8(past, y, Imm8(s)), 11)
         [] op \in \h40 .. \h7F /\ op # \h76 ->
              CASE z = 6 -> Took(WriteReg8(past, y, value), 19)
                [] z # 6 /\ y = 6 -> Took(Poke(past, address, ReadReg8(s, z)), 19)
                [] OTHER -> Took(WriteReg8(s, y, ReadReg8(s, z)), 8)
         [] op \in \h80 .. \hBF ->
              IF z = 6 THEN Took(Alu(past, y, value), 19) ELSE Took(Alu(s, y, ReadReg8(s, z)), 8)
         [] OTHER -> Longer(PlainOpcode(s, op), 4)

\* A prefix and the prefixes after it: the last one counts, the others cost
\* four cycles each.  MaxIndexPrefixes is kMaxIndexPrefixesPerStep - 1.
MaxIndexPrefixes == 65535
IndexPrefix(byte) == byte \in {\hDD, \hFD}

PrefixedOpcode(s, prefix) ==
    LET Ahead(n) == Peek(s, Word(s.pc + n))
    IN IF \A n \in 0 .. MaxIndexPrefixes - 1 : IndexPrefix(Ahead(n))
       THEN Took(FetchOpcodes(s, MaxIndexPrefixes), 4 * (MaxIndexPrefixes + 1))
       ELSE LET stray == CHOOSE n \in 0 .. MaxIndexPrefixes - 1 :
                            ~IndexPrefix(Ahead(n)) /\ \A m \in 0 .. n - 1 : IndexPrefix(Ahead(m))
                last == IF stray = 0 THEN prefix ELSE Ahead(stray - 1)
            IN Longer(IndexedOpcode(FetchOpcodes(s, stray + 1), IF last = \hDD THEN "ix" ELSE "iy", Ahead(stray)),
                      4 * stray)

ExecuteOpcode(s, op) == IF IndexPrefix(op) THEN PrefixedOpcode(s, op) ELSE PlainOpcode(s, op)

\* handleInterrupts, with the byte the interrupting device puts on the bus.
InterruptVector == 0
CanInterrupt(s) == s.ime /\ s.iff1 /\ s.irq

HandleInterrupts(s) ==
    LET t == [s EXCEPT !.halted = FALSE, !.iff1 = FALSE, !.iff2 = FALSE, !.ime = FALSE, !.delay = 0,
                         !.requested = FALSE]
    IN CASE s.mode = 2 -> Took(Called(t, PeekWord(PushWord(t, t.pc), InterruptVector + 256 * s.i)), 19)
         [] s.mode = 0 /\ (InterruptVector & \hC7) = \hC7 -> Took(Called(t, InterruptVector & \h38), 11)
         [] OTHER -> Took(Called(t, \h38), 11)

\* Mutant: interrupts are enabled at the end of EI itself.
CountDown_Early(s) ==
    IF s.delay = 0 THEN s ELSE [s EXCEPT !.delay = @ - 1, !.ime = s.iff1]

\* The interrupts that EI allows come after the instruction that follows it.
CountDown(s) ==
    IF s.delay = 0 THEN s
    ELSE [s EXCEPT !.delay = @ - 1, !.ime = IF s.delay = 1 THEN s.iff1 ELSE @]

\* Asking for an interrupt withdraws the machine's own request.
Polled(s) == IF s.ime /\ s.iff1 THEN [s EXCEPT !.requested = FALSE] ELSE s

InterpreterStep(s) ==
    IF CanInterrupt(s) THEN HandleInterrupts(s)
    ELSE IF s.halted THEN Took(Polled(s), 4)
    ELSE CountDown(ExecuteOpcode(FetchOpcodes(Polled(s), 1), Imm8(s)))

\* reset; memory and the ports are not the CPU's.
ResetState(memory) ==
    [r |-> [n \in 0 .. 7 |-> CASE n = 6 -> \hB0 [] n = 7 -> \h01 [] OTHER -> 0],
     alt |-> [n \in 0 .. 7 |-> 0], ix |-> 0, iy |-> 0, sp |-> \hDFF0, pc |-> 0, i |-> 0, refresh |-> 0,
     iff1 |-> FALSE, iff2 |-> FALSE, ime |-> FALSE, delay |-> 0, halted |-> FALSE, mode |-> 1,
     mem |-> memory, ports |-> << >>, irq |-> FALSE, requested |-> FALSE, cycles |-> 0]
=============================================================================
