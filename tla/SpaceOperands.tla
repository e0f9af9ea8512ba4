---------------------------- MODULE SpaceOperands ----------------------------
(***************************************************************************)
(* S.P.A.C.E. derives what a captured instruction depends on from the      *)
(* registers that its own decoders say it reads and writes.  These are     *)
(* the decoders, decode for the Game Boy and decodeCore for the Game Gear, *)
(* next to what the processors do.  A register lane is named by its number *)
(* in the core's model; a half of a pair is a lane.                        *)
(***************************************************************************)
EXTENDS InstructionPaths, GameGearExecution

VARIABLE captured       \* the instruction captured: its core, bytes and flags

LaneA == {0}
LaneF == {1}
LanesHL == {6, 7}
LaneSP == {8}
LanePC == {9}

\* The lanes of a register code and of a pair code, with lanes hl for HL.
CodeLanes(code, hl) ==
    CASE code = 6 -> hl [] code = 7 -> LaneA [] OTHER -> {code + 2}
PairLanes(code, hl) == CASE code = 3 -> LaneSP [] code = 2 -> hl [] OTHER -> {2 * code + 2, 2 * code + 3}

Operands(reads, writes) == [reads |-> reads, writes |-> writes]
Plus(o, p) == Operands(o.reads \cup p.reads, o.writes \cup p.writes)
None == Operands({}, {})
If(condition, lanes) == IF condition THEN lanes ELSE {}

\* Mutant: SBC is said not to read the carry.
MathOperands_NoBorrow(operation, source) ==
    Operands(LaneA \cup source \cup If(operation = 1, LaneF), LaneF \cup If(operation # 7, LaneA))

\* What both decoders say of the arithmetic on the accumulator.
MathOperands(operation, source) ==
    Operands(LaneA \cup source \cup If(operation \in {1, 3}, LaneF), LaneF \cup If(operation # 7, LaneA))
-----------------------------------------------------------------------------
\* decode: the Game Boy.
CbOperands(code) ==
    LET source == CodeLanes(Src(code), LanesHL)
        reads == code \in \h40 .. \h7F \/ Dest(code) \in {2, 3}
    IN Operands(source \cup If(code < \h80 /\ reads, LaneF),
                If(code \notin \h40 .. \h7F /\ Src(code) # 6, source) \cup If(code < \h80, LaneF))

JrOps == {\h18, \h20, \h28, \h30, \h38}
JpOps == {\hC3, \hC2, \hCA, \hD2, \hDA}
CallOps == {\hCD, \hC4, \hCC, \hD4, \hDC}
RetOps == {\hC9, \hD9, \hC0, \hC8, \hD0, \hD8}
ConditionalOps == (JrOps \cup JpOps \cup CallOps \cup RetOps) \ {\h18, \hC3, \hCD, \hC9, \hD9}

FlowOperands(op, flags) ==
    LET set == Has(flags, IF ConditionCode(op) < 2 THEN FlagZ ELSE FlagC)
        taken == op \in ConditionalOps => (set <=> ConditionCode(op) % 2 = 1)
        stack == If(op \in CallOps \cup RetOps \cup RstOps /\ taken, LaneSP)
    IN Operands(stack \cup If(op \in ConditionalOps, LaneF) \cup If(op = \hE9, LanesHL), stack)

MiscOperands(op) ==
    CASE op \in {\h02, \h12} -> Operands(LaneA \cup PairLanes(PairCode(op), LanesHL), {})
      [] op \in {\h0A, \h1A} -> Operands(PairLanes(PairCode(op), LanesHL), LaneA)
      [] op \in {\h22, \h32} -> Operands(LaneA \cup LanesHL, LanesHL)
      [] op \in {\h2A, \h3A} -> Operands(LanesHL, LaneA \cup LanesHL)
      [] op \in {\h07, \h0F, \h17, \h1F} -> Operands(LaneA \cup If(op >= \h17, LaneF), LaneA \cup LaneF)
      [] op \in {\h27, \h2F} -> Operands(LaneA \cup LaneF, LaneA \cup LaneF)
      [] op \in {\h37, \h3F} -> Operands(LaneF, LaneF)
      [] op = \h08 -> Operands(LaneSP, {})
      [] op \in {\hE0, \hEA} -> Operands(LaneA, {})
      [] op = \hE2 -> Operands(LaneA \cup CodeLanes(1, {}), {})
      [] op \in {\hF0, \hFA} -> Operands({}, LaneA)
      [] op = \hF2 -> Operands(CodeLanes(1, {}), LaneA)
      [] op = \hE8 -> Operands(LaneSP, LaneSP \cup LaneF)
      [] op = \hF8 -> Operands(LaneSP, LanesHL \cup LaneF)
      [] op = \hF9 -> Operands(LanesHL, LaneSP)
      [] op % 8 = 6 /\ op >= \hC0 -> MathOperands(Dest(op), {})
      [] op % 16 = 1 /\ op >= \hC0 ->
            Operands(LaneSP, LaneSP \cup (IF op = \hF1 THEN LaneA \cup LaneF ELSE PairLanes(PairCode(op), LanesHL)))
      [] op % 16 = 5 /\ op >= \hC0 ->
            Operands(LaneSP \cup (IF op = \hF5 THEN LaneA \cup LaneF ELSE PairLanes(PairCode(op), LanesHL)), LaneSP)
      [] OTHER -> None

GameBoyOperands(op, i8, flags) ==
    LET source == CodeLanes(Src(op), LanesHL)
        target == CodeLanes(Dest(op), LanesHL)
        pair == PairLanes(PairCode(op), LanesHL)
    IN Plus(Operands(LanePC, LanePC),
       CASE op = \hCB -> CbOperands(i8)
         [] op \in \h40 .. \h7F /\ op # \h76 ->
              IF Dest(op) = 6 THEN Operands(source \cup LanesHL, {}) ELSE Operands(source, target)
         [] op \in \h80 .. \hBF -> MathOperands(Dest(op), source)
         [] op \in LoadImmediateOps -> IF Dest(op) = 6 THEN Operands(LanesHL, {}) ELSE Operands({}, target)
         [] op \in IncOps \cup DecOps -> Operands(target \cup LaneF, LaneF \cup If(Dest(op) # 6, target))
         [] op < \h40 /\ op % 16 = 1 -> Operands({}, pair)
         [] op < \h40 /\ op % 16 \in {3, 11} -> Operands(pair, pair)
         [] op < \h40 /\ op % 16 = 9 -> Operands(LanesHL \cup pair \cup LaneF, LanesHL \cup LaneF)
         [] OTHER -> Plus(MiscOperands(op), FlowOperands(op, flags)))
-----------------------------------------------------------------------------
\* decodeCore: the Game Gear.  Prefixes come before the bytes of an encoding;
\* index is the lane of the register the last of them names, or none.
Alternate(lanes) == {lane + 12 : lane \in lanes}
LaneI == {20}
LaneR == {21}
LanesIFF == {22, 23}
LaneIFF2 == {23}
LaneIME == {24}
LaneMode == {25}
LaneHalt == {26}
LaneDelay == {27}

GgCode(code, index) == IF index # {} /\ code \in {4, 5} THEN index
                       ELSE CodeLanes(code, IF index = {} THEN LanesHL ELSE index)

GgCbOperands(code, index) ==
    LET source == IF index = {} THEN GgCode(Src(code), {}) ELSE index
        stored == If(code \notin \h40 .. \h7F /\ Src(code) # 6, CodeLanes(Src(code), {}))
        reads == code \in \h40 .. \h7F \/ (code < \h40 /\ Dest(code) \in {2, 3})
    IN Operands(source \cup If(reads, LaneF), stored \cup If(code < \h80, LaneF))

GgEdOperands(ed) ==
    LET y == Dest(ed)
        register == CodeLanes(y, LanesHL)
        pair == PairLanes(PairCode(ed), LanesHL)
        BC == {2, 3}
        low == ed % 8
        In(column) == ed \in \h40 .. \h7F /\ low = column
        both == BC \cup LanesHL \cup LaneF
    IN Plus(Operands(LaneR, {}),
       CASE In(0) -> Operands(BC \cup LaneF, LaneF \cup If(y # 6, register))
         [] In(1) -> Operands(BC \cup If(y # 6, register), {})
         [] In(2) -> Operands(LanesHL \cup pair \cup LaneF, LanesHL \cup LaneF)
         [] In(3) -> IF Has(ed, 8) THEN Operands({}, pair) ELSE Operands(pair, {})
         [] In(4) -> Operands(LaneA, LaneA \cup LaneF)
         [] In(5) -> Operands(LaneSP \cup LaneIFF2, LaneSP \cup {22} \cup LaneIME)
         [] In(6) -> Operands({}, LaneMode)
         [] ed \in {\h47, \h4F} -> Operands(LaneA, IF ed = \h47 THEN LaneI ELSE LaneR)
         [] ed \in {\h57, \h5F} -> Operands(LaneF \cup LaneIFF2 \cup (IF ed = \h57 THEN LaneI ELSE LaneR),
                                           LaneA \cup LaneF)
         [] ed \in {\h67, \h6F} -> Operands(LaneA \cup LanesHL \cup LaneF, LaneA \cup LaneF)
         [] ed \in \hA0 .. \hBF /\ low < 4 ->
              Operands(both \cup If(low = 0, {4, 5}) \cup If(low < 2, LaneA), both \cup If(low = 0, {4, 5}))
         [] OTHER -> None)

GgMiscOperands(op, hl, flags) ==
    LET y == Dest(op)
        holds == Has(flags, CASE y \div 2 = 0 -> ZF [] y \div 2 = 1 -> CF [] y \div 2 = 2 -> PF [] OTHER -> SF)
                 <=> y % 2 = 1
        stackPair == PairLanes(PairCode(op), hl)
        main == 2 .. 7
    IN CASE op >= \hC0 /\ op % 8 = 0 -> Operands(LaneF \cup If(holds, LaneSP), If(holds, LaneSP))
         [] op >= \hC0 /\ op % 8 = 2 -> Operands(LaneF, {})
         [] op >= \hC0 /\ op % 8 = 4 -> Operands(LaneF \cup If(holds, LaneSP), If(holds, LaneSP))
         [] op >= \hC0 /\ op % 16 = 1 -> Operands(LaneSP, LaneSP \cup stackPair)
         [] op >= \hC0 /\ op % 16 = 5 -> Operands(LaneSP \cup stackPair, LaneSP)
         [] op >= \hC0 /\ op % 8 = 6 -> MathOperands(y, {})
         [] op >= \hC0 /\ op % 8 = 7 -> Operands(LaneSP, LaneSP)
         [] op \in {\h02, \h12} -> Operands(LaneA \cup PairLanes(PairCode(op), hl), {})
         [] op \in {\h0A, \h1A} -> Operands(PairLanes(PairCode(op), hl), LaneA)
         [] op \in {\h07, \h0F, \h17, \h1F, \h27, \h2F} -> Operands(LaneA \cup LaneF, LaneA \cup LaneF)
         [] op \in {\h37, \h3F} -> Operands(LaneA \cup LaneF, LaneF)
         [] op = \h08 -> LET af == LaneA \cup LaneF \cup Alternate(LaneA \cup LaneF) IN Operands(af, af)
         [] op = \h10 -> Operands({2}, {2})
         [] op \in {\h20, \h28, \h30, \h38} -> Operands(LaneF, {})
         [] op = \h22 -> Operands(hl, {})
         [] op = \h2A -> Operands({}, hl)
         [] op \in {\h32, \hD3} -> Operands(LaneA, {})
         [] op = \h3A -> Operands({}, LaneA)
         [] op = \h76 -> Operands({}, LaneHalt)
         [] op \in {\hC9, \hCD} -> Operands(LaneSP, LaneSP)
         [] op = \hDB -> Operands(LaneA, LaneA)
         [] op = \hD9 -> Operands(main \cup Alternate(main), main \cup Alternate(main))
         [] op = \hE3 -> Operands(LaneSP \cup hl, hl)
         [] op = \hE9 -> Operands(hl, {})
         [] op = \hEB -> Operands({4, 5} \cup LanesHL, {4, 5} \cup LanesHL)
         [] op \in {\hF3, \hFB} -> Operands({}, LanesIFF \cup LaneIME \cup LaneDelay)
         [] op = \hF9 -> Operands(hl, LaneSP)
         [] OTHER -> None

GameGearOperands(index, op, second, flags) ==
    LET hl == IF index = {} THEN LanesHL ELSE index
        source == GgCode(Src(op), index)
        target == GgCode(Dest(op), index)
        pair == PairLanes(PairCode(op), hl)
        indexed == Src(op) = 6 \/ Dest(op) = 6      \* H and L are themselves beside (IX+d)
        Load(code) == IF indexed THEN CodeLanes(code, hl) ELSE GgCode(code, index)
    IN Plus(Operands(LanePC, LanePC \cup LaneR),
       CASE op = \hCB -> GgCbOperands(second, index)
         [] op = \hED -> GgEdOperands(second)
         [] op \in \h40 .. \h7F /\ op # \h76 ->
              IF Dest(op) = 6 THEN Operands(Load(Src(op)) \cup hl, {})
                              ELSE Operands(Load(Src(op)), Load(Dest(op)))
         [] op \in \h80 .. \hBF -> MathOperands(Dest(op), source)
         [] op < \h40 /\ op % 8 = 6 -> IF Dest(op) = 6 THEN Operands(hl, {}) ELSE Operands({}, target)
         [] op < \h40 /\ op % 8 \in {4, 5} -> Operands(target \cup LaneF, LaneF \cup If(Dest(op) # 6, target))
         [] op < \h40 /\ op % 16 = 1 -> Operands({}, pair)
         [] op < \h40 /\ op % 16 \in {3, 11} -> Operands(pair, pair)
         [] op < \h40 /\ op % 16 = 9 -> Operands(hl \cup pair \cup LaneF, hl \cup LaneF)
         [] OTHER -> GgMiscOperands(op, hl, flags))

\* z80InstructionLength, without the prefixes.
SuffixLength(indexed, op, second) ==
    CASE op = \hCB -> IF indexed THEN 3 ELSE 2
      [] op = \hED -> IF second \in \h40 .. \h7F /\ second % 8 = 3 THEN 4 ELSE 2
      [] op < \h40 /\ op % 8 = 0 /\ op >= \h10 -> 2
      [] op < \h40 /\ op % 16 = 1 -> 3
      [] op \in \h20 .. \h3F /\ op % 16 \in {2, 10} -> 3
      [] op < \h40 /\ op % 8 = 6 -> IF indexed /\ Dest(op) = 6 THEN 3 ELSE 2
      [] op < \h40 /\ indexed /\ Dest(op) = 6 /\ op % 8 \in {4, 5} -> 2
      [] op \in \h40 .. \hBF /\ indexed /\ op # \h76 /\ (Src(op) = 6 \/ (op < \h80 /\ Dest(op) = 6)) -> 2
      [] op >= \hC0 /\ (op % 8 \in {2, 4} \/ op \in {\hC3, \hCD}) -> 3
      [] op >= \hC0 /\ (op % 8 = 6 \/ op \in {\hD3, \hDB}) -> 2
      [] OTHER -> 1

\* The flow of decodeCore: where it may go on besides the next instruction.
BlockRepeats(op, second) == op = \hED /\ second \in \hB0 .. \hBF /\ second % 8 < 4

TargetsOf(op, second, pc, next, low, high) ==
    CASE op \in {\h10, \h18, \h20, \h28, \h30, \h38} -> {Word(next + Signed(low))}
      [] op \in {\hC3, \hCD} \/ (op >= \hC0 /\ op % 8 \in {2, 4}) -> {low + 256 * high}
      [] op >= \hC0 /\ op % 8 = 7 -> {8 * Dest(op)}
      [] BlockRepeats(op, second) -> {pc}
      [] OTHER -> {}
-----------------------------------------------------------------------------
GbLane(s, lane) ==
    CASE lane = 0 -> s.r[7] [] lane = 1 -> s.r[6] [] lane \in 2 .. 7 -> s.r[lane - 2]
      [] lane = 8 -> s.sp [] OTHER -> s.pc
GbWithLane(s, lane, value) ==
    CASE lane = 0 -> [s EXCEPT !.r[7] = value] [] lane = 1 -> [s EXCEPT !.r[6] = value]
      [] lane \in 2 .. 7 -> [s EXCEPT !.r[lane - 2] = value]
      [] lane = 8 -> [s EXCEPT !.sp = value] [] OTHER -> [s EXCEPT !.pc = value]

Control == <<"i", "refresh", "iff1", "iff2", "ime", "mode", "halted", "delay">>
GgLane(s, lane) ==
    CASE lane < 10 -> GbLane(s, lane) [] lane = 10 -> s.ix [] lane = 11 -> s.iy
      [] lane \in 12 .. 19 -> GbLane([s EXCEPT !.r = s.alt], lane - 12)
      [] OTHER -> s[Control[lane - 19]]
GgWithLane(s, lane, value) ==
    CASE lane < 10 -> GbWithLane(s, lane, value)
      [] lane = 10 -> [s EXCEPT !.ix = value] [] lane = 11 -> [s EXCEPT !.iy = value]
      [] lane \in 12 .. 19 -> [s EXCEPT !.alt = GbWithLane([r |-> @, sp |-> 0, pc |-> 0], lane - 12, value).r]
      [] OTHER -> [s EXCEPT ![Control[lane - 19]] = value]

IndexPrefixes == {<<>>, <<\hDD>>, <<\hDD, \hFD>>}

GbBefore(f) ==
    [(CHOOSE p \in InstructionStates : ~p.haltBug /\ HL(p) # DivAddress)
        EXCEPT !.r[6] = f, !.r[7] = 55]
GbStep(s) == ExecuteTable(s, captured.op, captured.second, \hC104)

GgBytes(p, op, second) ==
    p \o <<op>> \o (IF op = \hCB /\ p # <<>> THEN <<5, second>>
                    ELSE <<second, IF op = \hED THEN 4 ELSE \hC1, \hC1>>)
GgBefore(code, f) ==
    [ResetState([a \in 256 .. 255 + Len(code) |-> code[a - 255]])
        EXCEPT !.pc = 256, !.r = [n \in 0 .. 7 |-> IF n = 6 THEN f ELSE 17 * n + 3],
               !.alt = [n \in 0 .. 7 |-> 9 * n + 131], !.ix = \hC312, !.iy = \hC577, !.i = 88, !.iff2 = f # 0]

\* Nothing is captured yet; op is the opcode that comes.
NothingCaptured(op) == [core |-> "none", op |-> op]

CapturedInit == captured \in {NothingCaptured(op) : op \in AllOpcodes}

\* Every instruction once, with flags clear and set.
CaptureGameBoy(op) ==
    \E second \in AllOpcodes, f \in {0, \hF0} :
        /\ op = \hCB \/ second = 4
        /\ captured' = [core |-> "gameboy", prefixes |-> <<>>, op |-> op, second |-> second,
                        before |-> GbBefore(f)]
CaptureGameGear(op) ==
    \E p \in IndexPrefixes, second \in AllOpcodes, f \in {0, \hFF} :
        /\ op \in {\hCB, \hED} \/ second = 4
        /\ captured' = [core |-> "gamegear", prefixes |-> p, op |-> op, second |-> second,
                        before |-> GgBefore(GgBytes(p, op, second), f)]

CaptureInstruction ==
    /\ captured.core = "none"
    /\ \/ captured.op \notin UndefinedOps /\ CaptureGameBoy(captured.op)
       \/ ~IndexPrefix(captured.op) /\ CaptureGameGear(captured.op)

Perturbed(lane, value) ==
    IF lane \in {22, 23, 24, 26} THEN ~value ELSE IF value = 0 THEN 1 ELSE value - 1

\* One of two runs that started apart in a lane kept the difference where it
\* was, or both lost it.
Unmoved(lane, before, after, moved, movedAfter) ==
    after = movedAfter \/ (after = before /\ movedAfter = moved)

\* The Z80 interpreter takes H and L where decodeCore has the halves of an
\* index register, and its load of one half keeps the other; decodeCore leaves
\* AF out of POP AF and PUSH AF, and has a repeated block instruction go back
\* to its prefixes.
HalfIndexForms ==
    {\h26, \h2E} \cup
    {op \in \h40 .. \hBF :
        /\ Src(op) # 6 /\ (op < \h80 => Dest(op) # 6)
        /\ Src(op) \in {4, 5} \/ (op < \h80 /\ Dest(op) \in {4, 5})}
Misdescribed ==
    /\ captured.core = "gamegear"
    /\ \/ captured.op \in {\hF1, \hF5}
       \/ captured.prefixes # <<>> /\ captured.op \in HalfIndexForms
       \/ captured.prefixes # <<>> /\ BlockRepeats(captured.op, captured.second)

\* after[lane] is the state after an instruction that started with another
\* value in lane, after[Undisturbed] after the one captured.
Undisturbed == 99

GbOther(lane) == GbWithLane(captured.before, lane, Perturbed(lane, GbLane(captured.before, lane)))
GbAgrees(o, s, after) ==
    \A lane \in 0 .. 9 :
        /\ GbLane(after[Undisturbed], lane) # GbLane(s, lane) => lane \in o.writes
        /\ lane \notin o.reads =>
              /\ Unmoved(lane, GbLane(s, lane), GbLane(after[Undisturbed], lane),
                         GbLane(GbOther(lane), lane), GbLane(after[lane], lane))
              /\ GbWithLane(after[lane], lane, 0) = GbWithLane(after[Undisturbed], lane, 0)
GbDescribed(o) ==
    GbAgrees(o, captured.before,
             (Undisturbed :> GbStep(captured.before)) @@ [lane \in (0 .. 9) \ o.reads |-> GbStep(GbOther(lane))])

Plain == (0 .. 27) \ (LaneR \cup LaneHalt \cup LaneDelay)
GgOther(lane) == GgWithLane(captured.before, lane, Perturbed(lane, GgLane(captured.before, lane)))
GgAgrees(o, s, after) ==
    \A lane \in Plain :
        /\ GgLane(after[Undisturbed], lane) # GgLane(s, lane) => lane \in o.writes
        /\ lane \notin o.reads =>
              /\ Unmoved(lane, GgLane(s, lane), GgLane(after[Undisturbed], lane),
                         GgLane(GgOther(lane), lane), GgLane(after[lane], lane))
              /\ GgWithLane(after[lane], lane, 0) = GgWithLane(after[Undisturbed], lane, 0)

\* Where the instruction goes on; returns, JP (HL) and interrupts are indirect.
GgGoesOn(pc) ==
    LET p == captured.prefixes
        next == 256 + Len(p) + SuffixLength(p # <<>>, captured.op, captured.second)
        Byte(n) == Peek(captured.before, n)
    IN \/ pc \in {next} \cup TargetsOf(captured.op, captured.second, 256, next, Byte(257 + Len(p)), Byte(258 + Len(p)))
       \/ captured.op \in {\hC9, \hE9} \/ (captured.op >= \hC0 /\ captured.op % 8 = 0)
       \/ captured.op = \hED /\ captured.second \in \h40 .. \h7F /\ captured.second % 8 = 5

GgDescribed(o) ==
    LET Holding(after) == GgAgrees(o, captured.before, after) /\ GgGoesOn(after[Undisturbed].pc)
    IN Holding((Undisturbed :> InterpreterStep(captured.before))
               @@ [lane \in Plain \ o.reads |-> InterpreterStep(GgOther(lane))])

CapturedIndex ==
    LET p == captured.prefixes IN IF p = <<>> THEN {} ELSE IF p[Len(p)] = \hDD THEN {10} ELSE {11}

\* What the decoders say an instruction reads and writes is enough: it changes
\* no register they do not list as written, and nothing it does depends on one
\* they do not list as read; its length and its targets are the processor's
\* (space/CoreModel.cpp decodeCore, space/Operands.cpp decode).
OperandsAreEnough ==
    CASE captured.core = "gameboy" ->
           GbDescribed(GameBoyOperands(captured.op, captured.second, captured.before.r[6]))
      [] captured.core = "gamegear" ->
           \/ Misdescribed
           \/ GgDescribed(GameGearOperands(CapturedIndex, captured.op, captured.second, captured.before.r[6]))
      [] OTHER -> TRUE
=============================================================================
