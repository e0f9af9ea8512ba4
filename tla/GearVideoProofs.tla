--------------------------- MODULE GearVideoProofs ---------------------------
(***************************************************************************)
(* Proofs about how a picture of the Game Gear is made and handed on: the  *)
(* three-slot mailbox, for any number of frames, and the video chip, for   *)
(* lines, frames, palettes and samples of any size and for every program.  *)
(***************************************************************************)
EXTENDS RealtimeVideoMailbox, GameGearVdp, SequenceTheorems, FiniteSetTheorems,
        WellFoundedInduction, TLAPS

\* The constructed mailbox satisfies the invariant.
LEMMA InitInv == Init => MailboxInv
BY MailboxAssumption
   DEF Init, MailboxInv, TypeOK, SlotsDisjoint, Slots, Frames, NoFrame, Torn

\* A step of the emulation lane keeps it: it only writes the slot it owns.
LEMMA ProduceInv == MailboxInv /\ Produce => MailboxInv'
<1> SUFFICES ASSUME MailboxInv, Produce PROVE MailboxInv'
    OBVIOUS
<1> USE MailboxAssumption DEF MailboxInv, TypeOK, SlotsDisjoint, Slots, Frames, NoFrame, Torn
<1>1. CASE PublishBegin
  BY <1>1 DEF PublishBegin
<1>2. CASE PublishWritten
  BY <1>2 DEF PublishWritten
<1>3. CASE PublishExchange
  BY <1>3 DEF PublishExchange
<1>4. QED
  BY <1>1, <1>2, <1>3 DEF Produce

\* A step of the render lane keeps it: a slot it takes is complete and newer.
LEMMA ConsumeInv == MailboxInv /\ Consume => MailboxInv'
<1> SUFFICES ASSUME MailboxInv, Consume PROVE MailboxInv'
    OBVIOUS
<1> USE MailboxAssumption DEF MailboxInv, TypeOK, SlotsDisjoint, Slots, Frames, NoFrame, Torn
<1>1. CASE ConsumeLoad
  BY <1>1 DEF ConsumeLoad
<1>2. CASE ConsumeExchange
  BY <1>2 DEF ConsumeExchange
<1>3. CASE ConsumeMove
  BY <1>3 DEF ConsumeMove
<1>4. QED
  BY <1>1, <1>2, <1>3 DEF Consume

\* The inductive invariant holds in every reachable state.
THEOREM MailboxInvariant == Spec => []MailboxInv
<1>1. MailboxInv /\ [Next]_vars => MailboxInv'
  <2>1. MailboxInv /\ UNCHANGED vars => MailboxInv'
    BY DEF vars, MailboxInv, TypeOK, SlotsDisjoint
  <2>2. QED
    BY <2>1, ProduceInv, ConsumeInv DEF Next
<1>2. QED
  BY InitInv, <1>1, PTL DEF Spec

\* The lanes and the shared word never name the same slot (publish and
\* tryConsumeLatest exchange ownership without a lock).
THEOREM SlotsNeverShared == Spec => []SlotsDisjoint
<1>1. MailboxInv => SlotsDisjoint
  BY DEF MailboxInv
<1>2. QED
  BY MailboxInvariant, <1>1, PTL

\* tryConsumeLatest only ever moves out a complete packet.
THEOREM OnlyCompleteFrames == Spec => []NoTornFrame
<1>1. MailboxInv => NoTornFrame
  BY DEF MailboxInv, TypeOK, SlotsDisjoint, NoTornFrame, Frames, NoFrame, Torn, Slots
<1>2. QED
  BY MailboxInvariant, <1>1, PTL

\* Frames reach the render lane in the order of their publication.
THEOREM FramesInOrder == Spec => NeverBackwards
<1>1. MailboxInv /\ [Next]_vars => [consumed' # consumed => consumed' > consumed]_vars
  BY DEF MailboxInv, Next, Produce, Consume, PublishBegin, PublishWritten,
         PublishExchange, ConsumeLoad, ConsumeExchange, ConsumeMove, vars
<1>2. QED
  BY MailboxInvariant, <1>1, PTL DEF Spec, NeverBackwards

-----------------------------------------------------------------------------
(* Refinement: the exchanges are the abstract steps, the rest stutters. *)

\* The constructed mailbox is an empty register.
LEMMA RefineInit == Init => Register!Init
BY DEF Init, Register!Init, LatestFrame, TakenFrame, Slots, NoFrame

\* publish writes the register at its exchange and nowhere else.
LEMMA RefineProduce ==
  MailboxInv /\ Produce =>
    Register!Publish \/ UNCHANGED <<LatestFrame, TakenFrame, published>>
<1> SUFFICES ASSUME MailboxInv, Produce
             PROVE  Register!Publish \/ UNCHANGED <<LatestFrame, TakenFrame, published>>
    OBVIOUS
<1> USE DEF MailboxInv, TypeOK, SlotsDisjoint, Slots, LatestFrame, TakenFrame
<1>1. CASE PublishBegin
  BY <1>1 DEF PublishBegin
<1>2. CASE PublishWritten
  BY <1>2 DEF PublishWritten
<1>3. CASE PublishExchange
  BY <1>3 DEF PublishExchange, Register!Publish
<1>4. QED
  BY <1>1, <1>2, <1>3 DEF Produce

\* tryConsumeLatest takes from the register at its exchange and nowhere else.
LEMMA RefineConsume ==
  MailboxInv /\ Consume =>
    Register!Take \/ UNCHANGED <<LatestFrame, TakenFrame, published>>
<1> SUFFICES ASSUME MailboxInv, Consume
             PROVE  Register!Take \/ UNCHANGED <<LatestFrame, TakenFrame, published>>
    OBVIOUS
<1> USE DEF MailboxInv, TypeOK, SlotsDisjoint, Slots, LatestFrame, TakenFrame
<1>1. CASE ConsumeLoad
  BY <1>1 DEF ConsumeLoad
<1>2. CASE ConsumeExchange
  BY <1>2 DEF ConsumeExchange, Register!Take, Frames, NoFrame, Torn
<1>3. CASE ConsumeMove
  BY <1>3 DEF ConsumeMove
<1>4. QED
  BY <1>1, <1>2, <1>3 DEF Consume

\* The mailbox implements the latest-value register.
THEOREM MailboxRefinesRegister == Spec => ImplementsRegister
<1>1. MailboxInv /\ [Next]_vars => [Register!Next]_<<LatestFrame, TakenFrame, published>>
  <2>1. UNCHANGED vars => UNCHANGED <<LatestFrame, TakenFrame, published>>
    BY DEF vars, LatestFrame, TakenFrame
  <2>2. QED
    BY <2>1, RefineProduce, RefineConsume DEF Next, Register!Next
<1>2. QED
  BY RefineInit, MailboxInvariant, <1>1, PTL DEF Spec, ImplementsRegister, Register!Spec

-----------------------------------------------------------------------------
(* The video chip: what an instruction, an access and a sleep do to it.    *)

ChipFields ==
    {"vram", "regs", "cram", "decoded", "sms", "addr", "low", "buffer", "mode", "latch", "cycles",
     "line", "ready", "vblank", "frameIrq", "lineIrq", "irq", "lineCounter"}

\* What the proof needs of a chip: these fields are there, and these are numbers.
ChipShape(c) ==
    /\ ChipFields \subseteq DOMAIN c
    /\ c.regs \in [0 .. 10 -> Nat] /\ c.cram \in [0 .. 2 * Colors - 1 -> Nat]
    /\ c.cycles \in 0 .. LineCycles - 1 /\ c.line \in 0 .. FrameLines - 1
    /\ c.lineCounter \in Nat /\ c.addr \in Nat /\ c.low \in Nat /\ c.latch \in BOOLEAN

\* Its interrupt line and its palette are those of its flags and of its colour memory.
Palette(c) == c.decoded = [i \in 0 .. Colors - 1 |-> DecodedColor(c, i)]
ChipRight(c) == ChipShape(c) /\ c.irq = IrqAsserted(c) /\ Palette(c)

\* Two chips of the same memory, ports, and time.
SameMemory(c, d) ==
    /\ DOMAIN d = DOMAIN c
    /\ d.vram = c.vram /\ d.regs = c.regs /\ d.cram = c.cram /\ d.decoded = c.decoded
    /\ d.sms = c.sms
SamePorts(c, d) ==
    d.addr = c.addr /\ d.low = c.low /\ d.buffer = c.buffer /\ d.mode = c.mode /\ d.latch = c.latch
SameTime(c, d) == d.cycles = c.cycles /\ d.line = c.line /\ d.vblank = c.vblank
SameFlags(c, d) == d.frameIrq = c.frameIrq /\ d.lineIrq = c.lineIrq /\ d.irq = c.irq

VdpNumbers ==
    /\ LineCycles \in Nat /\ FrameLines \in Nat /\ SampleCycles \in Nat /\ Colors \in Nat
    /\ LineCycles > 0 /\ FrameLines > 0 /\ SampleCycles > 0 /\ Colors > 0 /\ 4 <= LineCycles

LEMMA Numbers == VdpNumbers
BY VdpAssumption DEF VdpNumbers

\* The lines of a picture follow from the mode and the registers.
LEMMA ActiveRange ==
    ASSUME NEW c
    PROVE  Active(c) \in Nat /\ Active(c) + 1 < FrameLines
<1>1. DisplayLines(c) \in {192, 224, 240}
  BY DEF DisplayLines
<1> QED BY <1>1, VdpAssumption DEF Active

LEMMA SameLines ==
    ASSUME NEW c, NEW d, d.regs = c.regs, d.sms = c.sms
    PROVE  Active(d) = Active(c) /\ DisplayLines(d) = DisplayLines(c)
BY DEF Active, DisplayLines, Mode4

LEMMA SameIrq ==
    ASSUME NEW c, NEW d, d.regs = c.regs, d.frameIrq = c.frameIrq, d.lineIrq = c.lineIrq
    PROVE  IrqAsserted(d) = IrqAsserted(c)
BY DEF IrqAsserted

LEMMA SamePalette ==
    ASSUME NEW c, NEW d, d.cram = c.cram, d.sms = c.sms, d.decoded = c.decoded, Palette(c)
    PROVE  Palette(d)
BY DEF Palette, DecodedColor

\* The line after the last is the first.
LEMMA LineFollows ==
    ASSUME NEW l \in 0 .. FrameLines - 1
    PROVE  /\ (l + 1) % FrameLines \in 0 .. FrameLines - 1
           /\ (l + 1) % FrameLines = IF l + 1 = FrameLines THEN 0 ELSE l + 1
<1>1. l + 1 \in Nat /\ l + 1 <= FrameLines /\ FrameLines \in Nat \ {0}
  BY Numbers DEF VdpNumbers
<1>2. l + 1 < FrameLines => (l + 1) % FrameLines = l + 1
  BY <1>1
<1>3. FrameLines % FrameLines = 0
  BY <1>1
<1> QED BY <1>1, <1>2, <1>3

\* recomputeIrqAsserted changes nothing else, and makes the line right.
LEMMA IrqRecomputed ==
    ASSUME NEW c, ChipShape(c), Palette(c)
    PROVE  /\ ChipRight(WithIrq(c)) /\ SameMemory(c, WithIrq(c)) /\ SamePorts(c, WithIrq(c))
           /\ SameTime(c, WithIrq(c)) /\ WithIrq(c).lineCounter = c.lineCounter
           /\ WithIrq(c).ready = c.ready
<1>1. PICK d : d = WithIrq(c)
  OBVIOUS
<1>2. d = [c EXCEPT !.irq = IrqAsserted(c)]
  BY <1>1 DEF WithIrq
<1>3. "irq" \in DOMAIN c
  BY DEF ChipShape, ChipFields
<1>4. /\ DOMAIN d = DOMAIN c /\ d.irq = IrqAsserted(c) /\ d.ready = c.ready
      /\ d.lineCounter = c.lineCounter /\ d.frameIrq = c.frameIrq /\ d.lineIrq = c.lineIrq
      /\ SameMemory(c, d) /\ SamePorts(c, d) /\ SameTime(c, d)
  BY <1>2, <1>3 DEF SameMemory, SamePorts, SameTime
<1>5. IrqAsserted(d) = IrqAsserted(c) /\ Palette(d)
  BY <1>4, SameIrq, SamePalette DEF SameMemory
<1>6. ChipShape(d)
  BY <1>4 DEF ChipShape, SameMemory, SamePorts, SameTime
<1> QED BY <1>1, <1>4, <1>5, <1>6 DEF ChipRight

\* A chip whose memory and flags are those of one that is right, is right.
LEMMA StillRight ==
    ASSUME NEW c, ChipRight(c), NEW d, ChipShape(d), SameMemory(c, d), SameFlags(c, d)
    PROVE  ChipRight(d)
BY SameIrq, SamePalette DEF ChipRight, SameMemory, SameFlags

\* Looking at a line's sprites sets status bits only.
LEMMA SpritesEvaluated ==
    ASSUME NEW c, NEW line
    PROVE  LET d == EvaluateScanlineStatus(c, line)
           IN  /\ SameMemory(c, d) /\ SamePorts(c, d) /\ SameTime(c, d) /\ SameFlags(c, d)
               /\ d.lineCounter = c.lineCounter /\ d.ready = c.ready
BY DEF EvaluateScanlineStatus, SameMemory, SamePorts, SameTime, SameFlags

\* step, for each line that ends.
LEMMA LineEnded ==
    ASSUME NEW c, ChipRight(c), NEW on
    PROVE  LET d == LineEnds(c, on)
           IN  /\ ChipRight(d) /\ SameMemory(c, d) /\ SamePorts(c, d) /\ d.cycles = c.cycles
               /\ d.line = (c.line + 1) % FrameLines
               /\ d.vblank = (IF d.line = Active(c) + 1 THEN TRUE ELSE c.vblank)
               /\ d.lineCounter = IF d.line > Active(c) \/ c.lineCounter = 0 THEN c.regs[10]
                                  ELSE c.lineCounter - 1
<1> DEFINE shown == IF on /\ c.line < Active(c)
                    THEN [EvaluateScanlineStatus(c, VCounter(c)) EXCEPT
                             !.lastReady = VCounter(c), !.ready = TRUE]
                    ELSE c
           next == [shown EXCEPT !.line = (@ + 1) % FrameLines]
           counted == CASE next.line > Active(c) ->
                             [next EXCEPT !.lineCounter = c.regs[10], !.scroll = c.regs[9]]
                        [] next.line <= Active(c) /\ c.lineCounter = 0 ->
                             WithIrq([next EXCEPT !.lineCounter = c.regs[10], !.lineIrq = TRUE])
                        [] OTHER -> [next EXCEPT !.lineCounter = @ - 1]
           end == IF next.line = Active(c) + 1
                  THEN WithIrq([counted EXCEPT !.vblank = TRUE, !.frameIrq = TRUE])
                  ELSE counted
<1>1. LineEnds(c, on) = end
  BY DEF LineEnds
<1>e. \/ shown = c
      \/ shown = [EvaluateScanlineStatus(c, VCounter(c)) EXCEPT
                     !.lastReady = VCounter(c), !.ready = TRUE]
  OBVIOUS
<1> HIDE DEF shown
<1>2. /\ SameMemory(c, shown) /\ SamePorts(c, shown) /\ SameTime(c, shown) /\ SameFlags(c, shown)
      /\ shown.lineCounter = c.lineCounter
  <2>1. CASE shown = c
    BY <2>1 DEF SameMemory, SamePorts, SameTime, SameFlags
  <2>2. PICK e : e = EvaluateScanlineStatus(c, VCounter(c))
    OBVIOUS
  <2>3. /\ SameMemory(c, e) /\ SamePorts(c, e) /\ SameTime(c, e) /\ SameFlags(c, e)
        /\ e.lineCounter = c.lineCounter
    BY <2>2, SpritesEvaluated
  <2>4. CASE shown = [e EXCEPT !.lastReady = VCounter(c), !.ready = TRUE]
    BY <2>3, <2>4 DEF SameMemory, SamePorts, SameTime, SameFlags
  <2> QED BY <1>e, <2>1, <2>2, <2>4
<1>3. PICK l \in 0 .. FrameLines - 1 : l = (c.line + 1) % FrameLines
  BY LineFollows DEF ChipRight, ChipShape
<1>4. next = [shown EXCEPT !.line = l]
  <2>1. shown.line = c.line
    BY <1>2 DEF SameTime
  <2> QED BY <1>3, <2>1
<1> HIDE DEF next
<1>5. "line" \in DOMAIN shown /\ "lineCounter" \in DOMAIN shown /\ "lineIrq" \in DOMAIN shown
      /\ "vblank" \in DOMAIN shown /\ "frameIrq" \in DOMAIN shown
  BY <1>2 DEF ChipRight, ChipShape, ChipFields, SameMemory
<1>6. /\ SameMemory(c, next) /\ SamePorts(c, next) /\ SameFlags(c, next) /\ next.line = l
      /\ next.cycles = c.cycles /\ next.vblank = c.vblank /\ next.lineCounter = c.lineCounter
  BY <1>2, <1>4, <1>5 DEF SameMemory, SamePorts, SameTime, SameFlags
<1>7. ChipRight(next)
  <2>1. ChipShape(next)
    BY <1>6 DEF ChipRight, ChipShape, SameMemory, SamePorts
  <2> QED BY <1>6, <2>1, StillRight
<1>8. c.regs[10] \in Nat /\ c.lineCounter \in Nat /\ l \in Nat /\ Active(c) \in Nat
  <2>1. l \in Nat
    BY <1>3
  <2>2. c.regs \in [0 .. 10 -> Nat] /\ 10 \in 0 .. 10
    BY DEF ChipRight, ChipShape
  <2> QED BY <2>1, <2>2, ActiveRange DEF ChipRight, ChipShape
<1>9. /\ l > Active(c) => counted = [next EXCEPT !.lineCounter = c.regs[10], !.scroll = c.regs[9]]
      /\ ~(l > Active(c)) /\ c.lineCounter = 0 =>
            counted = WithIrq([next EXCEPT !.lineCounter = c.regs[10], !.lineIrq = TRUE])
      /\ ~(l > Active(c)) /\ c.lineCounter # 0 => counted = [next EXCEPT !.lineCounter = @ - 1]
  BY <1>6, <1>8
<1>11. end = IF l = Active(c) + 1
             THEN WithIrq([counted EXCEPT !.vblank = TRUE, !.frameIrq = TRUE])
             ELSE counted
  BY <1>6
<1> HIDE DEF counted, end
<1>10. /\ ChipRight(counted) /\ SameMemory(c, counted) /\ SamePorts(c, counted)
       /\ counted.line = l /\ counted.cycles = c.cycles /\ counted.vblank = c.vblank
       /\ counted.lineCounter = IF l > Active(c) \/ c.lineCounter = 0 THEN c.regs[10]
                                ELSE c.lineCounter - 1
  <2>1. "lineCounter" \in DOMAIN next /\ "lineIrq" \in DOMAIN next
    BY <1>7 DEF ChipRight, ChipShape, ChipFields
  <2>2. CASE l > Active(c)
    <3>1. counted = [next EXCEPT !.lineCounter = c.regs[10], !.scroll = c.regs[9]]
      BY <1>9, <2>2
    <3>2. /\ SameMemory(next, counted) /\ SamePorts(next, counted) /\ SameTime(next, counted)
          /\ SameFlags(next, counted) /\ counted.lineCounter = c.regs[10]
      BY <2>1, <3>1 DEF SameMemory, SamePorts, SameTime, SameFlags
    <3>3. ChipShape(counted)
      BY <1>7, <1>8, <3>2 DEF ChipRight, ChipShape, SameMemory, SamePorts, SameTime
    <3>4. ChipRight(counted)
      BY <1>7, <3>2, <3>3, StillRight
    <3> QED BY <1>6, <2>2, <3>2, <3>4 DEF SameMemory, SamePorts, SameTime
  <2>3. CASE ~(l > Active(c)) /\ c.lineCounter = 0
    <3>1. PICK e : e = [next EXCEPT !.lineCounter = c.regs[10], !.lineIrq = TRUE]
      OBVIOUS
    <3>2. counted = WithIrq(e)
      BY <1>9, <2>3, <3>1
    <3>3. /\ SameMemory(next, e) /\ SamePorts(next, e) /\ SameTime(next, e)
          /\ e.lineCounter = c.regs[10]
      BY <2>1, <3>1 DEF SameMemory, SamePorts, SameTime
    <3>4. ChipShape(e) /\ Palette(e)
      BY <1>7, <1>8, <3>3, SamePalette DEF ChipRight, ChipShape, SameMemory, SamePorts, SameTime
    <3>5. /\ ChipRight(counted) /\ SameMemory(e, counted) /\ SamePorts(e, counted)
          /\ SameTime(e, counted) /\ counted.lineCounter = e.lineCounter
      BY <3>2, <3>4, IrqRecomputed
    <3> QED BY <1>6, <2>3, <3>3, <3>5 DEF SameMemory, SamePorts, SameTime
  <2>4. CASE ~(l > Active(c)) /\ c.lineCounter # 0
    <3>1. counted = [next EXCEPT !.lineCounter = @ - 1]
      BY <1>9, <2>4
    <3>2. /\ SameMemory(next, counted) /\ SamePorts(next, counted) /\ SameTime(next, counted)
          /\ SameFlags(next, counted) /\ counted.lineCounter = c.lineCounter - 1
      BY <1>6, <2>1, <3>1 DEF SameMemory, SamePorts, SameTime, SameFlags
    <3>3. ChipShape(counted)
      <4>1. counted.lineCounter \in Nat
        BY <1>8, <2>4, <3>2
      <4> QED BY <1>7, <3>2, <4>1 DEF ChipRight, ChipShape, SameMemory, SamePorts, SameTime
    <3>4. ChipRight(counted)
      BY <1>7, <3>2, <3>3, StillRight
    <3> QED BY <1>6, <2>4, <3>2, <3>4 DEF SameMemory, SamePorts, SameTime
  <2> QED BY <2>2, <2>3, <2>4
<1>12. CASE l = Active(c) + 1
  <2>1. PICK e : e = [counted EXCEPT !.vblank = TRUE, !.frameIrq = TRUE]
    OBVIOUS
  <2>2. "vblank" \in DOMAIN counted /\ "frameIrq" \in DOMAIN counted
    BY <1>5, <1>10, <1>2 DEF SameMemory
  <2>3. /\ SameMemory(counted, e) /\ SamePorts(counted, e) /\ e.line = l /\ e.cycles = c.cycles
        /\ e.vblank = TRUE /\ e.lineCounter = counted.lineCounter
    BY <1>10, <2>1, <2>2 DEF SameMemory, SamePorts
  <2>4. ChipShape(e) /\ Palette(e)
    BY <1>10, <2>3, SamePalette DEF ChipRight, ChipShape, SameMemory, SamePorts
  <2>5. PICK d : d = WithIrq(e)
    OBVIOUS
  <2>6. /\ ChipRight(d) /\ SameMemory(e, d) /\ SamePorts(e, d)
        /\ SameTime(e, d) /\ d.lineCounter = e.lineCounter
    BY <2>4, <2>5, IrqRecomputed
  <2>7. /\ SameMemory(c, d) /\ SamePorts(c, d) /\ d.cycles = c.cycles /\ d.line = l /\ d.vblank = TRUE
        /\ d.lineCounter = IF l > Active(c) \/ c.lineCounter = 0 THEN c.regs[10]
                                ELSE c.lineCounter - 1
    BY <1>10, <2>3, <2>6 DEF SameMemory, SamePorts, SameTime
  <2>8. LineEnds(c, on) = d
    BY <1>1, <1>11, <1>12, <2>1, <2>5
  <2> QED BY <1>3, <1>12, <2>6, <2>7, <2>8
<1>13. CASE l # Active(c) + 1
  <2>1. LineEnds(c, on) = counted
    BY <1>1, <1>11, <1>13
  <2> QED BY <1>3, <1>10, <1>13, <2>1
<1> QED BY <1>12, <1>13

\* What step does, of the cycles of one instruction: at most one line ends.
Clocked(c, k) == [c EXCEPT !.cycles = k]

LEMMA Stepped ==
    ASSUME NEW c, ChipRight(c), NEW n \in 0 .. LineCycles, NEW k, k = c.cycles + n
    PROVE  /\ k < LineCycles => StepVdp(c, n) = Clocked(c, k)
           /\ k >= LineCycles =>
                 StepVdp(c, n) = Clocked(LineEnds(c, DisplayEnabled(c)), k - LineCycles)
<1>1. k \in Nat /\ k < 2 * LineCycles
  <2>1. PICK y \in 0 .. LineCycles - 1 : y = c.cycles
    BY DEF ChipRight, ChipShape
  <2>2. y + n \in Nat /\ y + n < 2 * LineCycles
    BY Numbers DEF VdpNumbers
  <2> QED BY <2>1, <2>2
<1>2. /\ k < LineCycles => k \div LineCycles = 0 /\ k % LineCycles = k
      /\ k >= LineCycles => k \div LineCycles = 1 /\ k % LineCycles = k - LineCycles
  BY <1>1, Numbers DEF VdpNumbers
<1>3. StepVdp(c, n) = [LinesEnd(c, k \div LineCycles)[k \div LineCycles]
                         EXCEPT !.cycles = k % LineCycles]
  BY DEF StepVdp
<1>4. LinesEnd(c, 0)[0] = c
  <2> DEFINE Follows(f) ==
               f = [i \in 0 .. 0 |-> IF i = 0 THEN c ELSE LineEnds(f[i - 1], DisplayEnabled(c))]
  <2>1. Follows([i \in 0 .. 0 |-> c])
    OBVIOUS
  <2>2. LinesEnd(c, 0) = CHOOSE f : Follows(f)
    BY DEF LinesEnd
  <2>3. Follows(LinesEnd(c, 0))
    <3> HIDE DEF Follows
    <3> QED BY <2>1, <2>2
  <2>4. LinesEnd(c, 0) = [i \in 0 .. 0 |->
            IF i = 0 THEN c ELSE LineEnds(LinesEnd(c, 0)[i - 1], DisplayEnabled(c))]
    BY <2>3
  <2> QED BY <2>4
<1>5. LinesEnd(c, 1)[1] = LineEnds(c, DisplayEnabled(c))
  <2> DEFINE Follows(f) ==
               f = [i \in 0 .. 1 |-> IF i = 0 THEN c ELSE LineEnds(f[i - 1], DisplayEnabled(c))]
  <2>1. PICK g : g = [i \in 0 .. 1 |-> IF i = 0 THEN c ELSE LineEnds(c, DisplayEnabled(c))]
    OBVIOUS
  <2>2. Follows(g)
    <3>1. \A i \in 0 .. 1 : i # 0 => i - 1 = 0
      OBVIOUS
    <3>2. g[0] = c
      BY <2>1
    <3> QED BY <2>1, <3>1, <3>2
  <2>3. LinesEnd(c, 1) = CHOOSE f : Follows(f)
    BY DEF LinesEnd
  <2>4. Follows(LinesEnd(c, 1))
    <3> HIDE DEF Follows
    <3> QED BY <2>2, <2>3
  <2>5. PICK h : h = LinesEnd(c, 1)
    OBVIOUS
  <2>6. h = [i \in 0 .. 1 |-> IF i = 0 THEN c ELSE LineEnds(h[i - 1], DisplayEnabled(c))]
    BY <2>4, <2>5
  <2>7. h[0] = c
    BY <2>6
  <2>8. h[1] = LineEnds(h[0], DisplayEnabled(c))
    BY <2>6
  <2> QED BY <2>5, <2>7, <2>8
<1>6. CASE k < LineCycles
  BY <1>1, <1>2, <1>3, <1>4, <1>6, Numbers DEF VdpNumbers, Clocked
<1>7. CASE k >= LineCycles
  BY <1>1, <1>2, <1>3, <1>5, <1>7, Numbers DEF VdpNumbers, Clocked
<1>8. k < LineCycles \/ k >= LineCycles
  BY <1>1, Numbers DEF VdpNumbers
<1> QED BY <1>6, <1>7, <1>8

\* The chip after an instruction, and whether a line has ended.
LineWent(c, d) ==
    /\ d.line = (c.line + 1) % FrameLines
    /\ d.vblank = (IF d.line = Active(c) + 1 THEN TRUE ELSE c.vblank)
    /\ d.lineCounter = IF d.line > Active(c) \/ c.lineCounter = 0 THEN c.regs[10]
                       ELSE c.lineCounter - 1

LEMMA StepKeeps ==
    ASSUME NEW c, ChipRight(c), NEW n \in 0 .. LineCycles
    PROVE  LET d == StepVdp(c, n)
           IN  /\ ChipRight(d) /\ SameMemory(c, d) /\ SamePorts(c, d)
               /\ \/ d.line = c.line /\ d.vblank = c.vblank /\ d.lineCounter = c.lineCounter
                  \/ LineWent(c, d)
<1>1. PICK y \in 0 .. LineCycles - 1 : y = c.cycles
  BY DEF ChipRight, ChipShape
<1>2. PICK d : d = StepVdp(c, n)
  OBVIOUS
<1>6. PICK k : k = y + n
  OBVIOUS
<1>7. k = c.cycles + n /\ k = y + n /\ k \in Nat
  BY <1>1, <1>6
<1>3. CASE k < LineCycles
  <2>1. d = Clocked(c, k)
    BY <1>2, <1>3, <1>7, Stepped
  <2>2. k \in 0 .. LineCycles - 1
    BY <1>3, <1>7, Numbers DEF VdpNumbers
  <2>3. d.cycles = k /\ SameMemory(c, d) /\ SamePorts(c, d) /\ SameFlags(c, d)
        /\ d.line = c.line /\ d.vblank = c.vblank /\ d.lineCounter = c.lineCounter
    BY <2>1 DEF Clocked, ChipRight, ChipShape, ChipFields, SameMemory, SamePorts, SameFlags
  <2>4. ChipShape(d)
    BY <2>2, <2>3 DEF ChipRight, ChipShape, SameMemory, SamePorts
  <2> QED BY <1>2, <2>3, <2>4, StillRight
<1>4. CASE k >= LineCycles
  <2>1. PICK e : e = LineEnds(c, DisplayEnabled(c))
    OBVIOUS
  <2>2. d = Clocked(e, k - LineCycles)
    BY <1>2, <1>4, <1>7, <2>1, Stepped
  <2>3. k - LineCycles \in 0 .. LineCycles - 1
    BY <1>4, <1>7, Numbers DEF VdpNumbers
  <2>4. ChipRight(e) /\ SameMemory(c, e) /\ SamePorts(c, e) /\ LineWent(c, e)
    BY <2>1, LineEnded DEF LineWent
  <2>5. d.cycles = k - LineCycles /\ SameMemory(e, d) /\ SamePorts(e, d) /\ SameFlags(e, d)
        /\ d.line = e.line /\ d.vblank = e.vblank /\ d.lineCounter = e.lineCounter
    BY <2>2, <2>4 DEF Clocked, ChipRight, ChipShape, ChipFields, SameMemory, SamePorts, SameFlags
  <2>6. ChipShape(d)
    BY <2>3, <2>4, <2>5 DEF ChipRight, ChipShape, SameMemory, SamePorts
  <2>7. ChipRight(d)
    BY <2>4, <2>5, <2>6, StillRight
  <2>8. SameMemory(c, d) /\ SamePorts(c, d)
    BY <2>4, <2>5 DEF SameMemory, SamePorts
  <2>9. LineWent(c, d)
    BY <2>4, <2>5 DEF LineWent
  <2> QED BY <1>2, <2>7, <2>8, <2>9
<1>5. k < LineCycles \/ k >= LineCycles
  BY <1>7, Numbers DEF VdpNumbers
<1> QED BY <1>3, <1>4, <1>5

-----------------------------------------------------------------------------
(* The ports.                                                              *)

\* A chip as an access leaves one that is right.
Touched(c, d) == ChipRight(d) /\ SameTime(c, d) /\ d.ready = c.ready

LEMMA NextAddressKeeps ==
    ASSUME NEW c, ChipRight(c)
    PROVE  LET d == NextAddress(c)
           IN  /\ Touched(c, d) /\ SameMemory(c, d) /\ d.buffer = c.buffer
               /\ d.addr = (c.addr + 1) % 16384 /\ d.lineCounter = c.lineCounter
<1>1. PICK d : d = NextAddress(c)
  OBVIOUS
<1>0. PICK now \in Nat : now = c.addr
  BY DEF ChipRight, ChipShape
<1>2. PICK a \in Nat : a = (c.addr + 1) % 16384
  BY <1>0
<1>3. d = [c EXCEPT !.addr = a] /\ "addr" \in DOMAIN c
  BY <1>1, <1>2 DEF NextAddress, ChipRight, ChipShape, ChipFields
<1>4. /\ SameMemory(c, d) /\ SameFlags(c, d) /\ SameTime(c, d) /\ d.ready = c.ready
      /\ d.buffer = c.buffer /\ d.addr = a /\ d.lineCounter = c.lineCounter
      /\ d.low = c.low /\ d.latch = c.latch
  BY <1>3 DEF SameMemory, SameFlags, SameTime
<1>5. ChipShape(d)
  BY <1>4 DEF ChipRight, ChipShape, SameMemory, SameTime
<1> QED BY <1>1, <1>2, <1>4, <1>5, StillRight DEF Touched

LEMMA ReadDataKeeps ==
    ASSUME NEW c, ChipRight(c)
    PROVE  LET d == ReadDataPort(c)
           IN  /\ Touched(c, d) /\ SameMemory(c, d) /\ d.buffer = VramOf(c, c.addr)
               /\ d.addr = (c.addr + 1) % 16384 /\ d.lineCounter = c.lineCounter
<1>1. PICK e : e = [c EXCEPT !.latch = FALSE, !.buffer = VramOf(c, c.addr)]
  OBVIOUS
<1>2. "latch" \in DOMAIN c /\ "buffer" \in DOMAIN c
  BY DEF ChipRight, ChipShape, ChipFields
<1>3. /\ SameMemory(c, e) /\ SameFlags(c, e) /\ SameTime(c, e) /\ e.ready = c.ready
      /\ e.buffer = VramOf(c, c.addr) /\ e.addr = c.addr /\ e.lineCounter = c.lineCounter
      /\ e.low = c.low /\ e.latch = FALSE
  BY <1>1, <1>2 DEF SameMemory, SameFlags, SameTime
<1>4. ChipRight(e)
  <2>1. ChipShape(e)
    BY <1>3 DEF ChipRight, ChipShape, SameMemory, SameTime
  <2> QED BY <1>3, <2>1, StillRight
<1>5. ReadDataPort(c) = NextAddress(e)
  BY <1>1 DEF ReadDataPort
<1>6. PICK d : d = NextAddress(e)
  OBVIOUS
<1>7. /\ Touched(e, d) /\ SameMemory(e, d) /\ d.buffer = e.buffer
      /\ d.addr = (e.addr + 1) % 16384 /\ d.lineCounter = e.lineCounter
  BY <1>4, <1>6, NextAddressKeeps
<1>8. Touched(c, d) /\ SameMemory(c, d)
  BY <1>3, <1>7 DEF Touched, SameMemory, SameTime
<1> QED BY <1>3, <1>5, <1>6, <1>7, <1>8

LEMMA ReadControlKeeps ==
    ASSUME NEW c, ChipRight(c)
    PROVE  LET d == ReadControlPort(c)
           IN  /\ Touched(c, d) /\ SameMemory(c, d) /\ d.buffer = c.buffer
               /\ d.addr = c.addr /\ d.lineCounter = c.lineCounter
<1> DEFINE line == VCounter(c)
           looked == IF line < Active(c) /\ (~c.consumed \/ line # c.statusLine)
                     THEN EvaluateScanlineStatus(c, line) ELSE c
           e == [looked EXCEPT !.latch = FALSE, !.frameIrq = FALSE, !.lineIrq = FALSE,
                               !.overflow = FALSE, !.collision = FALSE,
                               !.statusLine = line, !.consumed = TRUE]
<1>1. ReadControlPort(c) = WithIrq(e)
  BY DEF ReadControlPort
<1>2. /\ SameMemory(c, looked) /\ SamePorts(c, looked) /\ SameTime(c, looked) /\ looked.ready = c.ready
      /\ looked.lineCounter = c.lineCounter
  <2>1. looked = c \/ looked = EvaluateScanlineStatus(c, line)
    OBVIOUS
  <2> HIDE DEF looked
  <2>2. CASE looked = c
    BY <2>2 DEF SameMemory, SamePorts, SameTime
  <2>3. CASE looked = EvaluateScanlineStatus(c, line)
    BY <2>3, SpritesEvaluated
  <2> QED BY <2>1, <2>2, <2>3
<1> HIDE DEF looked
<1>3. "latch" \in DOMAIN looked /\ "frameIrq" \in DOMAIN looked /\ "lineIrq" \in DOMAIN looked
  BY <1>2 DEF ChipRight, ChipShape, ChipFields, SameMemory
<1>4. /\ SameMemory(looked, e) /\ SameTime(looked, e) /\ e.lineCounter = looked.lineCounter
      /\ e.ready = looked.ready /\ e.latch = FALSE /\ e.addr = looked.addr /\ e.low = looked.low
      /\ e.buffer = looked.buffer
  BY <1>3 DEF SameMemory, SameTime
<1> HIDE DEF e
<1>5. ChipShape(e) /\ Palette(e)
  <2>1. ChipShape(e)
    BY <1>2, <1>4 DEF ChipRight, ChipShape, SameMemory, SamePorts, SameTime
  <2>2. Palette(e)
    BY <1>2, <1>4, SamePalette DEF ChipRight, SameMemory
  <2> QED BY <2>1, <2>2
<1>6. PICK d : d = WithIrq(e)
  OBVIOUS
<1>7. /\ ChipRight(d) /\ SameMemory(e, d) /\ SamePorts(e, d)
      /\ SameTime(e, d) /\ d.lineCounter = e.lineCounter /\ d.ready = e.ready
  BY <1>5, <1>6, IrqRecomputed
<1>8. Touched(c, d) /\ SameMemory(c, d)
  BY <1>2, <1>4, <1>7 DEF Touched, SameMemory, SameTime
<1> QED BY <1>1, <1>2, <1>4, <1>6, <1>7, <1>8 DEF SamePorts

LEMMA PaletteRecomputed ==
    ASSUME NEW c, ChipShape(c)
    PROVE  LET d == RecomputeDecodedCramCache(c)
           IN  /\ ChipShape(d) /\ Palette(d) /\ SamePorts(c, d) /\ SameTime(c, d) /\ SameFlags(c, d)
               /\ d.vram = c.vram /\ d.regs = c.regs /\ d.sms = c.sms /\ d.ready = c.ready
               /\ d.lineCounter = c.lineCounter
<1>1. PICK t : t = [i \in 0 .. Colors - 1 |-> DecodedColor(c, i)]
  OBVIOUS
<1>2. PICK d : d = [c EXCEPT !.decoded = t]
  OBVIOUS
<1>3. d = RecomputeDecodedCramCache(c)
  BY <1>1, <1>2 DEF RecomputeDecodedCramCache
<1>4. "decoded" \in DOMAIN c
  BY DEF ChipShape, ChipFields
<1>5. /\ DOMAIN d = DOMAIN c /\ d.decoded = t /\ SamePorts(c, d) /\ SameTime(c, d) /\ SameFlags(c, d)
      /\ d.vram = c.vram /\ d.regs = c.regs /\ d.sms = c.sms /\ d.ready = c.ready
      /\ d.lineCounter = c.lineCounter /\ d.cram = c.cram
  BY <1>2, <1>4 DEF SamePorts, SameTime, SameFlags
<1>6. ChipShape(d)
  BY <1>5 DEF ChipShape, SamePorts, SameTime
<1>7. Palette(d)
  BY <1>1, <1>5 DEF Palette, DecodedColor
<1> QED BY <1>3, <1>5, <1>6, <1>7

\* A byte of colour memory concerns one entry of the palette.
LEMMA CramWritten ==
    ASSUME NEW c, ChipRight(c), NEW v \in Nat
    PROVE  LET d == WriteCram(c, v)
           IN  Touched(c, d) /\ d.lineCounter = c.lineCounter /\ d.regs = c.regs /\ d.sms = c.sms
<1>1. PICK size \in {Colors, 2 * Colors} : size = IF c.sms THEN Colors ELSE 2 * Colors
  OBVIOUS
<1>0. size \in Nat /\ size > 0 /\ c.addr \in Nat
  <2>1. c.addr \in Nat
    BY DEF ChipRight, ChipShape
  <2> QED BY <1>1, <2>1, Numbers DEF VdpNumbers
<1>2. PICK i \in Nat : i = c.addr % size /\ i < size
  BY <1>0
<1>3. PICK w \in Nat : w = IF c.sms THEN v % 64 ELSE v
  OBVIOUS
<1>4. PICK k \in 0 .. Colors - 1 : k = IF c.sms THEN i ELSE i \div 2
  <2>1. CASE c.sms
    BY <1>1, <1>2, <2>1, Numbers DEF VdpNumbers
  <2>2. CASE ~c.sms
    <3>1. i < 2 * Colors
      BY <1>1, <1>2, <2>2
    <3>2. i \div 2 \in 0 .. Colors - 1
      BY <1>2, <3>1, Numbers DEF VdpNumbers
    <3> QED BY <2>2, <3>2
  <2> QED BY <2>1, <2>2
<1>5. i \in 0 .. 2 * Colors - 1
  BY <1>1, <1>2, Numbers DEF VdpNumbers
<1>6. PICK e : e = [c EXCEPT !.cram[i] = w]
  OBVIOUS
<1>7. WriteCram(c, v) = UpdateDecodedCramEntry(e, k)
  BY <1>1, <1>2, <1>3, <1>4, <1>6 DEF WriteCram
<1>8. PICK m : m = [c.cram EXCEPT ![i] = w]
  OBVIOUS
<1>9. m \in [0 .. 2 * Colors - 1 -> Nat] /\ \A j \in 0 .. 2 * Colors - 1 : j # i => m[j] = c.cram[j]
  BY <1>5, <1>8 DEF ChipRight, ChipShape
<1>10. e = [c EXCEPT !.cram = m]
  BY <1>6, <1>8
<1>11. "cram" \in DOMAIN c /\ "decoded" \in DOMAIN c
  BY DEF ChipRight, ChipShape, ChipFields
<1>12. PICK t : t = [e.decoded EXCEPT ![k] = DecodedColor(e, k)]
  OBVIOUS
<1>13. PICK d : d = [e EXCEPT !.decoded = t]
  OBVIOUS
<1>14. d = UpdateDecodedCramEntry(e, k)
  BY <1>12, <1>13 DEF UpdateDecodedCramEntry
<1>15. /\ DOMAIN e = DOMAIN c /\ e.cram = m /\ e.decoded = c.decoded /\ e.sms = c.sms
       /\ DOMAIN d = DOMAIN c /\ d.cram = m /\ d.decoded = t /\ d.sms = c.sms
       /\ SamePorts(c, d) /\ SameTime(c, d) /\ SameFlags(c, d) /\ d.ready = c.ready
       /\ d.vram = c.vram /\ d.regs = c.regs /\ d.lineCounter = c.lineCounter
  BY <1>10, <1>11, <1>13 DEF SamePorts, SameTime, SameFlags
<1>16. ChipShape(d)
  BY <1>9, <1>15 DEF ChipRight, ChipShape, SamePorts, SameTime
<1>17. \A j \in 0 .. Colors - 1 : j # k => DecodedColor(d, j) = DecodedColor(c, j)
  <2> SUFFICES ASSUME NEW j \in 0 .. Colors - 1, j # k PROVE DecodedColor(d, j) = DecodedColor(c, j)
    OBVIOUS
  <2>1. CASE c.sms
    <3>1. j \in 0 .. 2 * Colors - 1 /\ j # i
      BY <1>4, <2>1, Numbers DEF VdpNumbers
    <3>2. d.cram[j] = c.cram[j]
      BY <1>9, <1>15, <3>1
    <3> QED BY <1>15, <2>1, <3>2 DEF DecodedColor
  <2>2. CASE ~c.sms
    <3>1. /\ 2 * j \in 0 .. 2 * Colors - 1 /\ 2 * j + 1 \in 0 .. 2 * Colors - 1
          /\ 2 * j # i /\ 2 * j + 1 # i
      BY <1>4, <2>2, Numbers DEF VdpNumbers
    <3>2. d.cram[2 * j] = c.cram[2 * j] /\ d.cram[2 * j + 1] = c.cram[2 * j + 1]
      BY <1>9, <1>15, <3>1
    <3> QED BY <1>15, <2>2, <3>2 DEF DecodedColor
  <2> QED BY <2>1, <2>2
<1>18. DecodedColor(d, k) = DecodedColor(e, k)
  BY <1>15 DEF DecodedColor
<1>19. Palette(d)
  <2>1. c.decoded = [j \in 0 .. Colors - 1 |-> DecodedColor(c, j)]
    BY DEF ChipRight, Palette
  <2>4. e.decoded = [j \in 0 .. Colors - 1 |-> DecodedColor(c, j)]
    BY <1>15, <2>1
  <2>2. t = [j \in 0 .. Colors - 1 |-> IF j = k THEN DecodedColor(e, k) ELSE DecodedColor(c, j)]
    <3>1. PICK g : g = e.decoded
      OBVIOUS
    <3>2. PICK q : q = DecodedColor(e, k)
      OBVIOUS
    <3>3. t = [g EXCEPT ![k] = q]
      BY <1>12, <3>1, <3>2
    <3>4. t = [j \in 0 .. Colors - 1 |-> IF j = k THEN q ELSE DecodedColor(c, j)]
      BY <2>4, <3>1, <3>3
    <3> QED BY <3>2, <3>4
  <2>3. \A j \in 0 .. Colors - 1 :
            DecodedColor(d, j) = IF j = k THEN DecodedColor(e, k) ELSE DecodedColor(c, j)
    BY <1>17, <1>18
  <2> QED BY <1>15, <2>2, <2>3 DEF Palette
<1>20. ChipRight(d)
  BY <1>15, <1>16, <1>19, SameIrq DEF ChipRight, SameFlags
<1> QED BY <1>7, <1>14, <1>15, <1>20 DEF Touched

\* Changing registers leaves memory, ports, flags and time; the interrupt line follows.
LEMMA RegisterWritten ==
    ASSUME NEW c, ChipRight(c), NEW r \in Nat, NEW v \in Nat
    PROVE  LET d == WriteCompatRegister(c, r, v)
           IN  Touched(c, d) /\ SamePorts(c, d) /\ d.vram = c.vram
<1>1. CASE r > 10
  <2>1. WriteCompatRegister(c, r, v) = c
    BY <1>1 DEF WriteCompatRegister
  <2> QED BY <2>1 DEF Touched, SameTime, SamePorts
<1>2. CASE ~(r > 10)
  <2> DEFINE w == [c EXCEPT !.regs[r] = v]
             e == [w EXCEPT !.scroll = IF r = 9 /\ c.line > Active(w) THEN v ELSE @,
                            !.lineCounter = IF r = 10 /\ c.line = 0 THEN v ELSE @]
  <2>1. WriteCompatRegister(c, r, v) = WithIrq(e)
    BY <1>2 DEF WriteCompatRegister
  <2>2. PICK m : m = [c.regs EXCEPT ![r] = v]
    OBVIOUS
  <2>3. m \in [0 .. 10 -> Nat]
    BY <1>2, <2>2 DEF ChipRight, ChipShape
  <2>4. w = [c EXCEPT !.regs = m] /\ "regs" \in DOMAIN c
    BY <2>2 DEF ChipRight, ChipShape, ChipFields
  <2> HIDE DEF w
  <2>5. /\ DOMAIN w = DOMAIN c /\ w.regs = m /\ w.vram = c.vram /\ w.cram = c.cram
        /\ w.decoded = c.decoded /\ w.sms = c.sms /\ w.ready = c.ready
        /\ w.lineCounter = c.lineCounter /\ SamePorts(c, w) /\ SameTime(c, w)
    BY <2>4 DEF SamePorts, SameTime
  <2>6. PICK x : x = IF r = 9 /\ c.line > Active(w) THEN v ELSE w.scroll
    OBVIOUS
  <2>7. PICK l \in Nat : l = IF r = 10 /\ c.line = 0 THEN v ELSE w.lineCounter
    BY <2>5 DEF ChipRight, ChipShape
  <2>8. e = [w EXCEPT !.scroll = x, !.lineCounter = l] /\ "lineCounter" \in DOMAIN w
    BY <2>4, <2>5, <2>6, <2>7 DEF ChipRight, ChipShape, ChipFields
  <2> HIDE DEF e
  <2>9. /\ DOMAIN e = DOMAIN c /\ e.regs = m /\ e.vram = c.vram /\ e.cram = c.cram
        /\ e.decoded = c.decoded /\ e.sms = c.sms /\ e.ready = c.ready
        /\ e.lineCounter = l /\ SamePorts(c, e) /\ SameTime(c, e)
    BY <2>5, <2>8 DEF SamePorts, SameTime
  <2>10. ChipShape(e)
    BY <2>3, <2>9 DEF ChipRight, ChipShape, SamePorts, SameTime
  <2>11. Palette(e)
    BY <2>9, SamePalette DEF ChipRight
  <2>12. PICK d : d = WithIrq(e)
    OBVIOUS
  <2>13. /\ ChipRight(d) /\ SameMemory(e, d) /\ SamePorts(e, d)
         /\ SameTime(e, d) /\ d.ready = e.ready
    BY <2>10, <2>11, <2>12, IrqRecomputed
  <2>14. Touched(c, d) /\ SamePorts(c, d) /\ d.vram = c.vram
    BY <2>9, <2>13 DEF Touched, SameMemory, SamePorts, SameTime
  <2> QED BY <2>1, <2>12, <2>14
<1> QED BY <1>1, <1>2

\* A byte of video memory is no colour, and no flag.
LEMMA VramWritten ==
    ASSUME NEW c, ChipRight(c), NEW m
    PROVE  Touched(c, [c EXCEPT !.vram = m])
<1>1. PICK d : d = [c EXCEPT !.vram = m]
  OBVIOUS
<1>2. "vram" \in DOMAIN c
  BY DEF ChipRight, ChipShape, ChipFields
<1>3. /\ DOMAIN d = DOMAIN c /\ SamePorts(c, d) /\ SameTime(c, d) /\ SameFlags(c, d)
      /\ d.ready = c.ready /\ d.regs = c.regs /\ d.cram = c.cram /\ d.decoded = c.decoded
      /\ d.sms = c.sms /\ d.lineCounter = c.lineCounter
  BY <1>1, <1>2 DEF SamePorts, SameTime, SameFlags
<1>4. ChipShape(d)
  BY <1>3 DEF ChipRight, ChipShape, SamePorts, SameTime
<1>5. ChipRight(d)
  BY <1>3, <1>4, SameIrq, SamePalette DEF ChipRight, SameFlags
<1> QED BY <1>1, <1>3, <1>5 DEF Touched

\* The ports' latches are no part of what makes a chip right.
LEMMA PortsSet ==
    ASSUME NEW c, ChipRight(c), NEW d, SameMemory(c, d), SameTime(c, d), SameFlags(c, d),
           d.ready = c.ready, d.lineCounter = c.lineCounter,
           d.addr \in Nat, d.low \in Nat, d.latch \in BOOLEAN
    PROVE  Touched(c, d)
<1>1. ChipShape(d)
  BY DEF ChipRight, ChipShape, SameMemory, SameTime
<1> QED BY <1>1, StillRight DEF Touched

LEMMA WriteDataKeeps ==
    ASSUME NEW c, ChipRight(c), NEW v \in Nat
    PROVE  Touched(c, WriteDataPort(c, v))
<1>1. PICK e : e = [c EXCEPT !.latch = FALSE, !.buffer = v]
  OBVIOUS
<1>2. "latch" \in DOMAIN c /\ "buffer" \in DOMAIN c /\ c.addr \in Nat /\ c.low \in Nat
  BY DEF ChipRight, ChipShape, ChipFields
<1>3. /\ SameMemory(c, e) /\ SameTime(c, e) /\ SameFlags(c, e) /\ e.ready = c.ready
      /\ e.lineCounter = c.lineCounter /\ e.addr = c.addr /\ e.low = c.low /\ e.latch = FALSE
  BY <1>1, <1>2 DEF SameMemory, SameTime, SameFlags
<1>4. Touched(c, e)
  BY <1>2, <1>3, PortsSet
<1>5. PICK f : f = IF c.mode = 3 THEN WriteCram(e, v) ELSE [e EXCEPT !.vram = (c.addr :> v) @@ @]
  OBVIOUS
<1>6. Touched(e, f)
  <2>1. CASE c.mode = 3
    BY <1>4, <1>5, <2>1, CramWritten DEF Touched
  <2>2. CASE c.mode # 3
    <3>1. PICK m : m = (c.addr :> v) @@ e.vram
      OBVIOUS
    <3>2. f = [e EXCEPT !.vram = m]
      BY <1>5, <2>2, <3>1
    <3> QED BY <1>4, <3>2, VramWritten DEF Touched
  <2> QED BY <2>1, <2>2
<1>7. WriteDataPort(c, v) = NextAddress(f)
  <2>1. CASE c.mode = 3
    BY <1>1, <1>5, <2>1 DEF WriteDataPort
  <2>2. CASE c.mode # 3
    BY <1>1, <1>5, <2>2 DEF WriteDataPort
  <2> QED BY <2>1, <2>2
<1>8. Touched(f, NextAddress(f))
  BY <1>6, NextAddressKeeps DEF Touched
<1>9. PICK d : d = NextAddress(f)
  OBVIOUS
<1>10. Touched(f, d)
  BY <1>8, <1>9
<1> QED BY <1>4, <1>6, <1>7, <1>9, <1>10 DEF Touched, SameTime

\* After the second byte of an address for reading, its byte waits in the buffer.
LEMMA WriteControlKeeps ==
    ASSUME NEW c, ChipRight(c), NEW v \in Nat
    PROVE  LET d == WriteControlPort(c, v)
               asked == (v % 64) * 256 + c.low
           IN  /\ Touched(c, d)
               /\ c.latch /\ v \div 64 = 0 =>
                     d.buffer = VramOf(d, asked) /\ d.addr = (asked + 1) % 16384
<1>1. c.addr \in Nat /\ c.low \in Nat /\ {"low", "addr", "latch", "mode", "buffer"} \subseteq DOMAIN c
  BY DEF ChipRight, ChipShape, ChipFields
<1>2. CASE ~c.latch
  <2>1. PICK a \in Nat : a = ((c.addr \div 256) % 64) * 256 + v
    BY <1>1
  <2>2. PICK d : d = [c EXCEPT !.low = v, !.addr = a, !.latch = TRUE]
    OBVIOUS
  <2>3. WriteControlPort(c, v) = d
    BY <1>2, <2>1, <2>2 DEF WriteControlPort
  <2>4. /\ SameMemory(c, d) /\ SameTime(c, d) /\ SameFlags(c, d) /\ d.ready = c.ready
        /\ d.lineCounter = c.lineCounter /\ d.addr = a /\ d.low = v /\ d.latch = TRUE
    BY <1>1, <2>2 DEF SameMemory, SameTime, SameFlags
  <2>5. Touched(c, d)
    BY <2>4, PortsSet
  <2> QED BY <1>2, <2>3, <2>5
<1>3. CASE c.latch
  <2>1. PICK a \in Nat : a = (v % 64) * 256 + c.low
    BY <1>1
  <2>2. PICK e : e = [c EXCEPT !.latch = FALSE, !.mode = v \div 64, !.addr = a]
    OBVIOUS
  <2>3. /\ SameMemory(c, e) /\ SameTime(c, e) /\ SameFlags(c, e) /\ e.ready = c.ready
        /\ e.lineCounter = c.lineCounter /\ e.addr = a /\ e.low = c.low /\ e.latch = FALSE
    BY <1>1, <2>2 DEF SameMemory, SameTime, SameFlags
  <2>4. Touched(c, e)
    BY <1>1, <2>3, PortsSet
  <2>5. CASE v \div 64 = 2
    <3>1. PICK d : d = WriteCompatRegister(e, v % 16, c.low)
      OBVIOUS
    <3>2. WriteControlPort(c, v) = d
      BY <1>3, <2>1, <2>2, <2>5, <3>1 DEF WriteControlPort
    <3>3. v % 16 \in Nat
      OBVIOUS
    <3>4. Touched(e, d)
      BY <1>1, <2>4, <3>1, <3>3, RegisterWritten DEF Touched
    <3>5. Touched(c, d)
      BY <2>4, <3>4 DEF Touched, SameTime
    <3> QED BY <2>5, <3>2, <3>5
  <2>6. CASE v \div 64 = 0
    <3>1. PICK b : b = VramOf(e, a)
      OBVIOUS
    <3>2. PICK f : f = [e EXCEPT !.buffer = b]
      OBVIOUS
    <3>3. WriteControlPort(c, v) = NextAddress(f)
      BY <1>3, <2>1, <2>2, <2>3, <2>6, <3>1, <3>2 DEF WriteControlPort
    <3>4. /\ SameMemory(e, f) /\ SameTime(e, f) /\ SameFlags(e, f) /\ f.ready = e.ready
          /\ f.lineCounter = e.lineCounter /\ f.addr = a /\ f.low = e.low /\ f.latch = FALSE
          /\ f.buffer = b
      <4>1. "buffer" \in DOMAIN e
        BY <1>1, <2>3 DEF SameMemory
      <4> QED BY <2>3, <3>2, <4>1 DEF SameMemory, SameTime, SameFlags
    <3>5. Touched(e, f)
      <4>1. ChipRight(e) /\ f.addr \in Nat /\ f.low \in Nat /\ f.latch \in BOOLEAN
        BY <1>1, <2>3, <2>4, <3>4 DEF Touched
      <4> QED BY <3>4, <4>1, PortsSet
    <3>6. PICK d : d = NextAddress(f)
      OBVIOUS
    <3>7. /\ Touched(f, d) /\ SameMemory(f, d) /\ d.buffer = f.buffer
          /\ d.addr = (f.addr + 1) % 16384
      BY <3>5, <3>6, NextAddressKeeps DEF Touched
    <3>8. Touched(c, d) /\ d.addr = (a + 1) % 16384 /\ d.vram = e.vram /\ d.buffer = b
      BY <2>4, <3>4, <3>5, <3>7 DEF Touched, SameTime, SameMemory
    <3>9. VramOf(d, a) = b
      BY <3>1, <3>8 DEF VramOf
    <3> QED BY <2>1, <3>3, <3>6, <3>8, <3>9
  <2>7. CASE v \div 64 # 2 /\ v \div 64 # 0
    <3>1. WriteControlPort(c, v) = e
      BY <1>3, <2>1, <2>2, <2>7 DEF WriteControlPort
    <3> QED BY <2>4, <2>7, <3>1
  <2> QED BY <2>5, <2>6, <2>7
<1> QED BY <1>2, <1>3

LEMMA WriteOamKeeps ==
    ASSUME NEW c, ChipRight(c), NEW sprite, NEW field, NEW v
    PROVE  Touched(c, WriteOam(c, sprite, field, v))
<1>1. CASE field = 3
  <2>1. WriteOam(c, sprite, field, v) = c
    BY <1>1 DEF WriteOam
  <2> QED BY <2>1 DEF Touched, SameTime
<1>2. CASE field # 3
  <2>1. PICK m : m = (OamPlace(c, sprite, field) :> v) @@ c.vram
    OBVIOUS
  <2>2. WriteOam(c, sprite, field, v) = [c EXCEPT !.vram = m]
    BY <1>2, <2>1 DEF WriteOam
  <2> QED BY <2>2, VramWritten
<1> QED BY <1>1, <1>2

-----------------------------------------------------------------------------
(* The machine.                                                            *)

\* An instruction has taken the events of its scanlines.
Quiet(c) == c.ready = FALSE /\ c.vblank = FALSE

PastShape == DOMAIN past = {"lines", "height", "period", "last", "reading"}

\* Where the frame is, by the history: its lines so far, since the one it ended at.
FrameRight ==
    /\ past.last \in {Nothing, FrameLines}
    /\ past.height # Nothing =>
          /\ past.height = Active(chip)
          /\ past.lines = IF chip.line > Active(chip) THEN chip.line - Active(chip) - 1
                          ELSE chip.line + FrameLines - Active(chip) - 1

\* And its line counter, which is loaded outside the picture.
CountRight ==
    past.height # Nothing /\ past.period # Nothing =>
        /\ chip.regs[10] = past.period
        /\ chip.lineCounter =
              IF chip.line > Active(chip) THEN past.period
              ELSE past.period - ((chip.line + 1) % (past.period + 1))

\* The byte the data port returns next, and the address after it.
ReadRight ==
    past.reading # Nothing =>
        /\ chip.buffer = VramOf(chip, past.reading)
        /\ chip.addr = (past.reading + 1) % 16384

SavedRight ==
    saved # << >> => ChipShape(saved[1].chip) /\ Quiet(saved[1].chip)

VdpInv ==
    /\ ChipRight(chip) /\ Quiet(chip) /\ SavedRight
    /\ psgPhase \in 0 .. SampleCycles - 1
    /\ PastShape /\ FrameRight /\ CountRight /\ ReadRight

-----------------------------------------------------------------------------
(* Induction over numbers: the least one of a set, and what is handed on.  *)

LEMMA LeastNumber ==
  ASSUME NEW S, S \subseteq Nat, S # {}
  PROVE  \E n \in S : \A m \in S : n <= m
<1>1. PICK top \in S : TRUE
  OBVIOUS
<1> DEFINE Low == S \cap (0 .. top)
           Unbounded == {T \in SUBSET Low : T # {} /\ ~ \E n \in T : \A m \in T : n <= m}
<1>2. IsFiniteSet(Low)
  <2>1. top \in Nat /\ Low \in SUBSET (0 .. top)
    BY <1>1
  <2>2. IsFiniteSet(0 .. top)
    BY <2>1, FS_Interval
  <2> HIDE DEF Low
  <2> QED BY <2>1, <2>2, FS_Subset
<1>3. Unbounded = {}
  <2> SUFFICES ASSUME Unbounded # {} PROVE FALSE
    OBVIOUS
  <2>1. IsWellFoundedOn(StrictSubsetOrdering(Low), SUBSET Low)
    <3> HIDE DEF Low
    <3> QED BY <1>2, FS_StrictSubsetOrderingWellFounded, FS_FiniteSubsetsOfFinite
  <2>2. PICK T \in Unbounded : \A U \in Unbounded : ~ (<<U, T>> \in StrictSubsetOrdering(Low))
    <3>1. Unbounded \subseteq SUBSET Low
      OBVIOUS
    <3> HIDE DEF Unbounded
    <3> QED BY <2>1, <3>1, WFMin
  <2>3. PICK n \in T : TRUE
    OBVIOUS
  <2>4. T \ {n} \notin Unbounded
    BY <2>2 DEF StrictSubsetOrdering
  <2>5. CASE T \ {n} = {}
    BY <2>5, <2>3
  <2>6. CASE T \ {n} # {}
    <3>1. PICK m \in T \ {n} : \A x \in T \ {n} : m <= x
      BY <2>4, <2>6
    <3>2. CASE n <= m
      BY <3>1, <3>2
    <3>3. CASE m <= n
      BY <3>1, <3>3, <2>3
    <3> QED BY <3>1, <3>2, <3>3, <2>3
  <2> QED BY <2>5, <2>6
<1>4. top \in Low
  BY <1>1
<1>5. PICK n \in Low : \A m \in Low : n <= m
  <2> HIDE DEF Low
  <2> QED BY <1>3, <1>4
<1> QED BY <1>1, <1>5

LEMMA HandedOn ==
    ASSUME NEW N \in Nat, NEW S \in SUBSET Nat, 0 \in S,
           \A n \in Nat : n < N /\ n \in S => n + 1 \in S
    PROVE  \A n \in 0 .. N : n \in S
<1> SUFFICES ASSUME {n \in 0 .. N : n \notin S} # {} PROVE FALSE
  OBVIOUS
<1>1. {n \in 0 .. N : n \notin S} \in SUBSET Nat
  OBVIOUS
<1>2. PICK n \in {m \in 0 .. N : m \notin S} : \A m \in {k \in 0 .. N : k \notin S} : n <= m
  BY <1>1, LeastNumber
<1>3. n # 0
  BY <1>2
<1>4. PICK k \in Nat : n = k + 1 /\ k < N
  BY <1>2, <1>3
<1>5. k \in S
  BY <1>2, <1>4
<1> QED BY <1>2, <1>4, <1>5

-----------------------------------------------------------------------------
(* The chip the program starts with.                                       *)

LEMMA ResetRight == ChipRight(Reset(FALSE)) /\ Quiet(Reset(FALSE))
<1> DEFINE c == [vram |-> <<>>,
                 regs |-> [r \in 0 .. 10 |-> IF r \in {2, 5, 6} THEN 255 ELSE 0],
                 cram |-> [i \in 0 .. 2 * Colors - 1 |-> <<254, 13, 200, 7>>[(i % 4) + 1]],
                 decoded |-> [i \in 0 .. Colors - 1 |-> <<>>],
                 cycles |-> 0, line |-> 0, lastReady |-> 0, ready |-> FALSE, vblank |-> FALSE,
                 frameIrq |-> FALSE, lineIrq |-> FALSE, irq |-> FALSE,
                 overflow |-> FALSE, collision |-> FALSE, statusLine |-> 255, consumed |-> TRUE,
                 addr |-> 0, low |-> 0, buffer |-> 0, mode |-> 0, latch |-> FALSE,
                 lineCounter |-> 0, scroll |-> 0, sms |-> FALSE]
<1>1. Reset(FALSE) = RecomputeDecodedCramCache(c)
  BY DEF Reset
<1>2. c.regs \in [0 .. 10 -> Nat]
  OBVIOUS
<1>3. c.cram \in [0 .. 2 * Colors - 1 -> Nat]
  <2>1. \A i \in 0 .. 2 * Colors - 1 : <<254, 13, 200, 7>>[(i % 4) + 1] \in Nat
    <3> SUFFICES ASSUME NEW i \in 0 .. 2 * Colors - 1
                 PROVE  <<254, 13, 200, 7>>[(i % 4) + 1] \in Nat
      OBVIOUS
    <3>1. (i % 4) + 1 \in 1 .. 4
      BY Numbers DEF VdpNumbers
    <3>2. PICK k \in 1 .. 4 : k = (i % 4) + 1
      BY <3>1
    <3>3. <<254, 13, 200, 7>>[k] \in Nat
      OBVIOUS
    <3> QED BY <3>2, <3>3
  <2>2. c.cram = [i \in 0 .. 2 * Colors - 1 |-> <<254, 13, 200, 7>>[(i % 4) + 1]]
    OBVIOUS
  <2> HIDE DEF c
  <2> QED BY <2>1, <2>2
<1>4. /\ c.cycles = 0 /\ c.line = 0 /\ c.lineCounter = 0 /\ c.addr = 0 /\ c.low = 0
      /\ c.latch = FALSE /\ c.frameIrq = FALSE /\ c.lineIrq = FALSE /\ c.irq = FALSE
      /\ c.ready = FALSE /\ c.vblank = FALSE
  OBVIOUS
<1>5. ChipFields \subseteq DOMAIN c
  BY DEF ChipFields
<1> HIDE DEF c
<1>6. ChipShape(c) /\ c.irq = IrqAsserted(c)
  <2>3. 0 \in 0 .. LineCycles - 1 /\ 0 \in 0 .. FrameLines - 1 /\ 0 \in Nat
    BY Numbers DEF VdpNumbers
  <2>1. ChipShape(c)
    BY <1>2, <1>3, <1>4, <1>5, <2>3, Zenon DEF ChipShape
  <2>2. IrqAsserted(c) = FALSE
    BY <1>4, Zenon DEF IrqAsserted
  <2> QED BY <1>4, <2>1, <2>2
<1>7. PICK d : d = RecomputeDecodedCramCache(c)
  OBVIOUS
<1>8. /\ ChipShape(d) /\ Palette(d) /\ SameTime(c, d) /\ SameFlags(c, d)
      /\ d.regs = c.regs /\ d.ready = c.ready
  BY <1>6, <1>7, PaletteRecomputed
<1>9. IrqAsserted(d) = IrqAsserted(c)
  BY <1>8, SameIrq DEF SameFlags
<1>10. ChipRight(d) /\ Quiet(d)
  BY <1>4, <1>6, <1>8, <1>9 DEF ChipRight, Quiet, SameFlags, SameTime
<1> QED BY <1>1, <1>7, <1>10

\* The prologue's bytes are sent one by one.
LEMMA BytesSent ==
    ASSUME NEW bytes \in Seq(0 .. 255)
    PROVE  Commanded(bytes) =
               [n \in 0 .. Len(bytes) |->
                    IF n = 0 THEN WriteCompatRegister(Reset(FALSE), 1, 64)
                    ELSE WriteControlPort(Commanded(bytes)[n - 1], bytes[n])]
<1> DEFINE first == WriteCompatRegister(Reset(FALSE), 1, 64)
           Sends(f, m) ==
               f = [n \in 0 .. m |-> IF n = 0 THEN first ELSE WriteControlPort(f[n - 1], bytes[n])]
           Reached == {k \in Nat : \E f : Sends(f, k)}
<1> HIDE DEF first
<1>1. 0 \in Reached
  <2>1. Sends([n \in 0 .. 0 |-> first], 0)
    OBVIOUS
  <2> HIDE DEF Sends
  <2> QED BY <2>1
<1>2. ASSUME NEW k \in Nat, k \in Reached PROVE k + 1 \in Reached
  <2>1. PICK f : Sends(f, k)
    BY <1>2
  <2>2. PICK x : x = WriteControlPort(f[k], bytes[k + 1])
    OBVIOUS
  <2>3. PICK g : g = [n \in 0 .. k + 1 |-> IF n = k + 1 THEN x ELSE f[n]]
    OBVIOUS
  <2>4. ASSUME NEW n \in 0 .. k + 1
        PROVE  g[n] = IF n = 0 THEN first ELSE WriteControlPort(g[n - 1], bytes[n])
    <3>1. CASE n = k + 1
      <4>1. g[n] = x /\ n - 1 = k /\ n - 1 \in 0 .. k + 1 /\ n - 1 # k + 1 /\ n # 0
        BY <2>3, <3>1
      <4>2. g[n - 1] = f[k]
        BY <2>3, <4>1
      <4> QED BY <2>2, <3>1, <4>1, <4>2
    <3>2. CASE n # k + 1
      <4>1. n \in 0 .. k /\ g[n] = f[n] /\ (n # 0 => g[n - 1] = f[n - 1])
        BY <2>3, <3>2
      <4>2. f[n] = IF n = 0 THEN first ELSE WriteControlPort(f[n - 1], bytes[n])
        BY <2>1, <4>1
      <4> QED BY <4>1, <4>2
    <3> QED BY <3>1, <3>2
  <2>5. Sends(g, k + 1)
    BY <2>3, <2>4
  <2> HIDE DEF Sends
  <2> QED BY <2>5
<1>3. Len(bytes) \in Nat
  OBVIOUS
<1>4. \E f : Sends(f, Len(bytes))
  <2>1. Reached \in SUBSET Nat
    OBVIOUS
  <2> HIDE DEF Reached
  <2>2. \A n \in 0 .. Len(bytes) : n \in Reached
    BY <1>1, <1>2, <1>3, <2>1, HandedOn
  <2>3. Len(bytes) \in Reached
    BY <1>3, <2>2
  <2> HIDE DEF Sends
  <2> QED BY <2>3 DEF Reached
<1>5. Commanded(bytes) = CHOOSE f : Sends(f, Len(bytes))
  BY DEF Commanded, first
<1>6. Sends(Commanded(bytes), Len(bytes))
  <2> HIDE DEF Sends
  <2> QED BY <1>4, <1>5
<1> QED BY <1>6 DEF first

LEMMA StartsRight ==
    ASSUME NEW bytes \in Seq(0 .. 255)
    PROVE  LET c == Commanded(bytes)[Len(bytes)] IN ChipRight(c) /\ Quiet(c)
<1>1. PICK f : f = Commanded(bytes)
  OBVIOUS
<1>2. f = [n \in 0 .. Len(bytes) |->
               IF n = 0 THEN WriteCompatRegister(Reset(FALSE), 1, 64)
               ELSE WriteControlPort(f[n - 1], bytes[n])]
  BY <1>1, BytesSent
<1> DEFINE Right == {n \in Nat : ChipRight(f[n]) /\ Quiet(f[n])}
<1>3. 0 \in Right
  <2>1. f[0] = WriteCompatRegister(Reset(FALSE), 1, 64)
    BY <1>2
  <2>2. Touched(Reset(FALSE), f[0])
    <3>1. PICK c : c = Reset(FALSE)
      OBVIOUS
    <3>2. ChipRight(c) /\ 1 \in Nat /\ 64 \in Nat
      BY <3>1, ResetRight
    <3>3. Touched(c, WriteCompatRegister(c, 1, 64))
      BY <3>2, RegisterWritten
    <3> QED BY <2>1, <3>1, <3>3
  <2>3. ChipRight(f[0]) /\ Quiet(f[0])
    BY <2>2, ResetRight DEF Touched, Quiet, SameTime
  <2> QED BY <2>3
<1>4. ASSUME NEW n \in Nat, n < Len(bytes), n \in Right PROVE n + 1 \in Right
  <2>1. f[n + 1] = WriteControlPort(f[n], bytes[n + 1])
    <3>1. n + 1 \in 0 .. Len(bytes) /\ n + 1 # 0 /\ (n + 1) - 1 = n
      BY <1>4
    <3> QED BY <1>2, <3>1
  <2>2. bytes[n + 1] \in Nat
    <3>1. n + 1 \in 1 .. Len(bytes)
      BY <1>4
    <3>2. bytes[n + 1] \in 0 .. 255
      BY <3>1, ElementOfSeq
    <3>3. 0 .. 255 \subseteq Nat
      OBVIOUS
    <3> QED BY <3>2, <3>3
  <2>3. Touched(f[n], f[n + 1])
    BY <1>4, <2>1, <2>2, WriteControlKeeps
  <2>4. ChipRight(f[n + 1]) /\ Quiet(f[n + 1])
    BY <1>4, <2>3 DEF Touched, Quiet, SameTime
  <2> QED BY <2>4
<1>5. \A n \in 0 .. Len(bytes) : n \in Right
  <2>1. Right \in SUBSET Nat /\ Len(bytes) \in Nat
    OBVIOUS
  <2> HIDE DEF Right
  <2> QED BY <1>3, <1>4, <2>1, HandedOn
<1>6. ChipRight(f[Len(bytes)]) /\ Quiet(f[Len(bytes)])
  BY <1>5
<1> QED BY <1>1, <1>6

\* The machine starts as the invariant says.
LEMMA VdpStarts == VdpInit => VdpInv
<1> SUFFICES ASSUME VdpInit PROVE VdpInv
  OBVIOUS
<1>1. PICK bytes \in Prologues : chip = Commanded(bytes)[Len(bytes)]
  BY DEF VdpInit
<1>2. bytes \in Seq(0 .. 255)
  BY VdpAssumption
<1>3. ChipRight(chip) /\ Quiet(chip)
  BY <1>1, <1>2, StartsRight
<1>4. psgPhase \in 0 .. SampleCycles - 1 /\ SavedRight
  BY Numbers DEF VdpInit, SavedRight, VdpNumbers
<1>5. PastShape /\ FrameRight /\ CountRight /\ ReadRight
  BY DEF VdpInit, PastShape, FrameRight, CountRight, ReadRight
<1> QED BY <1>3, <1>4, <1>5 DEF VdpInv

-----------------------------------------------------------------------------
(* An instruction.                                                         *)

LEMMA Remainder ==
    ASSUME NEW q \in Nat, q > 0, NEW a \in Int, NEW r \in Int, 0 <= r, r < q
    PROVE (a * q + r) % q = r
OBVIOUS
LEMMA NextRemainder ==
    ASSUME NEW x \in Nat, NEW q \in Nat, q > 0
    PROVE  /\ x % q \in 0 .. q - 1
           /\ (x + 1) % q = IF x % q = q - 1 THEN 0 ELSE (x % q) + 1
<1>1. x % q \in 0 .. q - 1
  OBVIOUS
<1>2. PICK a \in Nat, r \in 0 .. q - 1 : x = a * q + r /\ r = x % q
  <2>1. x \div q \in Nat /\ x = (x \div q) * q + (x % q)
    OBVIOUS
  <2> QED BY <1>1, <2>1
<1>3. CASE r = q - 1
  <2>1. x + 1 = (a + 1) * q + 0
     BY <1>2, <1>3
  <2>2. ((a + 1) * q + 0) % q = 0
     BY Remainder
  <2> QED BY <1>2, <1>3, <2>1, <2>2
<1>4. CASE r # q - 1
  <2>1. x + 1 = a * q + (r + 1)
     BY <1>2
  <2>3. r + 1 \in Int /\ 0 <= r + 1 /\ r + 1 < q /\ a \in Int
     BY <1>2, <1>4
  <2>2. (a * q + (r + 1)) % q = r + 1
     BY <2>3, Remainder
  <2> QED BY <1>2, <1>4, <2>1, <2>2
<1> QED BY <1>1, <1>3, <1>4

\* The line counter runs down once a line, and starts again from the period.
LEMMA CountsDown ==
    ASSUME NEW p \in Nat, NEW l \in Nat, NEW count, count = p - ((l + 1) % (p + 1))
    PROVE  p - ((l + 1 + 1) % (p + 1)) = IF count = 0 THEN p ELSE count - 1
<1>1. PICK x \in Nat, q \in Nat : x = l + 1 /\ q = p + 1 /\ q > 0
  OBVIOUS
<1>2. /\ x % q \in 0 .. q - 1
      /\ (x + 1) % q = IF x % q = q - 1 THEN 0 ELSE (x % q) + 1
  BY <1>1, NextRemainder
<1>3. PICK r \in 0 .. q - 1 : r = x % q
  BY <1>2
<1>4. count = p - r
  BY <1>1, <1>3
<1>5. (l + 1 + 1) % (p + 1) = IF r = q - 1 THEN 0 ELSE r + 1
  BY <1>1, <1>2, <1>3
<1> QED BY <1>1, <1>3, <1>4, <1>5

\* From chip c to chip d at most one line ended, and its VBlank is announced.
AtMostALine(c, d) ==
    /\ d.vblank \in BOOLEAN
    /\ \/ d.line = c.line /\ d.vblank = FALSE /\ d.lineCounter = c.lineCounter
       \/ /\ d.line = (c.line + 1) % FrameLines
          /\ d.vblank = TRUE <=> d.line = Active(c) + 1
          /\ d.lineCounter = IF d.line > Active(c) \/ c.lineCounter = 0 THEN c.regs[10]
                             ELSE c.lineCounter - 1

\* The chip d after an instruction that found it as b and left it as c; e, once the
\* events are taken.
ChipFollows(b, c, d, e) ==
    /\ ChipRight(e) /\ Quiet(e) /\ SameMemory(c, e) /\ SamePorts(c, e)
    /\ e.line = d.line /\ e.lineCounter = d.lineCounter /\ d.regs = c.regs /\ d.sms = c.sms
    /\ c.line = b.line /\ AtMostALine(c, d)

EventsTaken(d) == [d EXCEPT !.ready = FALSE, !.vblank = FALSE]

LEMMA ChipAfter ==
    ASSUME NEW b, Quiet(b), NEW c, Touched(b, c), NEW n \in 0 .. LineCycles,
           NEW d, d = StepVdp(c, n), NEW e, e = EventsTaken(d)
    PROVE  ChipFollows(b, c, d, e)
<1>0. ChipRight(c)
  BY DEF Touched
<1>1. c.vblank = FALSE /\ c.line = b.line
  BY DEF Quiet, Touched, SameTime
<1>2. /\ ChipRight(d) /\ SameMemory(c, d) /\ SamePorts(c, d)
      /\ \/ d.line = c.line /\ d.vblank = c.vblank /\ d.lineCounter = c.lineCounter
         \/ LineWent(c, d)
  BY <1>0, StepKeeps
<1>3. "ready" \in DOMAIN d /\ "vblank" \in DOMAIN d
  BY <1>2 DEF ChipRight, ChipShape, ChipFields
<1>4. /\ SameMemory(d, e) /\ SamePorts(d, e) /\ SameFlags(d, e) /\ e.line = d.line
      /\ e.cycles = d.cycles /\ e.lineCounter = d.lineCounter /\ e.ready = FALSE /\ e.vblank = FALSE
  BY <1>3 DEF EventsTaken, SameMemory, SamePorts, SameFlags
<1>5. ChipShape(e)
  BY <1>2, <1>4 DEF ChipRight, ChipShape, SameMemory, SamePorts
<1>6. ChipRight(e)
  BY <1>2, <1>4, <1>5, StillRight
<1>7. SameMemory(c, e) /\ SamePorts(c, e) /\ d.regs = c.regs /\ d.sms = c.sms
  BY <1>2, <1>4 DEF SameMemory, SamePorts
<1>8. AtMostALine(c, d)
  BY <1>1, <1>2 DEF LineWent, AtMostALine
<1> QED BY <1>1, <1>4, <1>6, <1>7, <1>8 DEF Quiet, ChipFollows

\* The past p after such an instruction; asked is the byte the port returns next.
PastFollows(p, c, d, asked) ==
    LET undisturbed == past.height # Nothing /\ Active(d) = past.height
    IN  /\ DOMAIN p = DOMAIN past /\ p.reading = asked
        /\ p.height = IF d.vblank THEN Active(d)
                      ELSE IF undisturbed THEN past.height ELSE Nothing
        /\ p.lines = IF d.vblank THEN 0
                     ELSE IF undisturbed /\ d.line # chip.line THEN past.lines + 1 ELSE past.lines
        /\ p.last = IF ~d.vblank THEN past.last
                    ELSE IF undisturbed THEN past.lines + 1 ELSE Nothing
        /\ p.period = IF c.lineCounter # chip.lineCounter THEN Nothing
                      ELSE IF d.vblank THEN d.regs[10]
                      ELSE IF d.regs[10] = past.period THEN past.period ELSE Nothing

Remembered(c, d, asked) ==
    [Followed(chip, d) EXCEPT !.reading = asked,
                              !.period = IF c.lineCounter = chip.lineCounter THEN @ ELSE Nothing]

LEMMA PastAfter ==
    ASSUME PastShape, NEW c, NEW d, d.vblank \in BOOLEAN, NEW asked, NEW p,
           p = Remembered(c, d, asked)
    PROVE  PastFollows(p, c, d, asked)
<1> DEFINE undisturbed == past.height # Nothing /\ Active(d) = past.height
<1>1. CASE d.vblank
  <2>1. Followed(chip, d) = [past EXCEPT !.last = IF undisturbed THEN past.lines + 1 ELSE Nothing,
                               !.lines = 0, !.height = Active(d), !.period = d.regs[10]]
    BY <1>1 DEF Followed
  <2> QED BY <1>1, <2>1 DEF Remembered, PastShape, PastFollows
<1>2. CASE ~d.vblank
  <2>1. Followed(chip, d) = [past EXCEPT
                 !.lines = IF undisturbed /\ d.line # chip.line THEN @ + 1 ELSE @,
                 !.height = IF undisturbed THEN @ ELSE Nothing,
                 !.period = IF d.regs[10] = @ THEN @ ELSE Nothing]
    BY <1>2 DEF Followed
  <2> QED BY <1>2, <2>1 DEF Remembered, PastShape, PastFollows
<1> QED BY <1>1, <1>2

\* onInstructionRetired: the events of the lines that ended are taken, and the past
\* follows them.
LEMMA Retires ==
    ASSUME VdpInv, NEW c, Touched(chip, c), NEW n \in 0 .. LineCycles, NEW asked,
           asked # Nothing => c.buffer = VramOf(c, asked) /\ c.addr = (asked + 1) % 16384,
           OnInstructionRetired(c, n, asked), SavedRight'
    PROVE  VdpInv'
<1>1. PICK d : d = StepVdp(c, n)
  OBVIOUS
<1>2. PICK e : e = EventsTaken(d)
  OBVIOUS
<1>4. PICK p : p = Remembered(c, d, asked)
  OBVIOUS
<1>5. chip' = e /\ past' = p /\ psgPhase' = (psgPhase + n) % SampleCycles
  BY <1>1, <1>2, <1>4 DEF OnInstructionRetired, EventsTaken, Remembered
<1>6. psgPhase' \in 0 .. SampleCycles - 1
  <2>1. psgPhase + n \in Nat
    BY Numbers DEF VdpInv, VdpNumbers
  <2> QED BY <1>5, <2>1, Numbers DEF VdpNumbers
<1>7. ChipRight(c) /\ Quiet(chip)
  BY DEF Touched, VdpInv
<1>3. ChipFollows(chip, c, d, e)
  BY <1>1, <1>2, <1>7, ChipAfter
<1>8. /\ ChipRight(e) /\ Quiet(e) /\ SameMemory(c, e) /\ SamePorts(c, e)
      /\ e.line = d.line /\ e.lineCounter = d.lineCounter /\ d.regs = c.regs /\ d.sms = c.sms
      /\ c.line = chip.line /\ AtMostALine(c, d)
  BY <1>3 DEF ChipFollows
<1>9. d.vblank \in BOOLEAN
  BY <1>8 DEF AtMostALine
<1>10. Active(e) = Active(c) /\ Active(d) = Active(c)
  BY <1>8, SameLines DEF SameMemory
<1>11. PICK A \in Nat : A = Active(c) /\ A + 1 < FrameLines
  BY ActiveRange
<1> DEFINE undisturbed == past.height # Nothing /\ A = past.height
<1>12. /\ DOMAIN p = DOMAIN past /\ p.reading = asked
       /\ p.height = IF d.vblank THEN A ELSE IF undisturbed THEN past.height ELSE Nothing
       /\ p.lines = IF d.vblank THEN 0
                    ELSE IF undisturbed /\ d.line # chip.line THEN past.lines + 1 ELSE past.lines
       /\ p.last = IF ~d.vblank THEN past.last
                   ELSE IF undisturbed THEN past.lines + 1 ELSE Nothing
       /\ p.period = IF c.lineCounter # chip.lineCounter THEN Nothing
                     ELSE IF d.vblank THEN d.regs[10]
                     ELSE IF d.regs[10] = past.period THEN past.period ELSE Nothing
  <2>1. PastShape
    BY DEF VdpInv
  <2>2. PastFollows(p, c, d, asked)
    BY <1>4, <1>9, <2>1, PastAfter
  <2>3. Active(d) = A
    BY <1>10, <1>11
  <2> QED BY <2>2, <2>3 DEF PastFollows
<1>13. PICK l \in 0 .. FrameLines - 1 : l = chip.line
  BY DEF VdpInv, ChipRight, ChipShape
<1>14. \/ d.line = l /\ d.vblank = FALSE /\ d.lineCounter = c.lineCounter
       \/ /\ d.line = IF l + 1 = FrameLines THEN 0 ELSE l + 1
          /\ d.vblank \in BOOLEAN /\ (d.vblank = TRUE <=> d.line = A + 1)
          /\ d.lineCounter = IF d.line > A \/ c.lineCounter = 0 THEN c.regs[10] ELSE c.lineCounter - 1
  <2>1. (l + 1) % FrameLines = IF l + 1 = FrameLines THEN 0 ELSE l + 1
    BY LineFollows
  <2> QED BY <1>8, <1>11, <1>13, <2>1 DEF AtMostALine
<1>15. PICK m \in 0 .. FrameLines - 1 : m = d.line
  BY <1>13, <1>14, Numbers DEF VdpNumbers
<1>16. undisturbed => /\ Active(chip) = A
                      /\ past.lines = IF l > A THEN l - A - 1 ELSE l + FrameLines - A - 1
  BY <1>13 DEF VdpInv, FrameRight
<1>17. FrameRight'
  <2>1. p.last \in {Nothing, FrameLines}
    <3>1. CASE d.vblank /\ undisturbed
      <4>1. l = A
        BY <1>11, <1>13, <1>14, <3>1, Numbers DEF VdpNumbers
      <4>2. past.lines + 1 = FrameLines
        BY <1>11, <1>16, <3>1, <4>1, Numbers DEF VdpNumbers
      <4> QED BY <1>12, <3>1, <4>2
    <3>2. CASE d.vblank /\ ~undisturbed
      BY <1>12, <3>2
    <3>3. CASE ~d.vblank
      BY <1>12, <3>3 DEF VdpInv, FrameRight
    <3> QED BY <3>1, <3>2, <3>3
  <2>2. ASSUME p.height # Nothing
        PROVE  p.height = A /\ p.lines = IF m > A THEN m - A - 1 ELSE m + FrameLines - A - 1
    <3>1. CASE d.vblank
      <4>1. m = A + 1
        BY <1>14, <1>15, <3>1
      <4> QED BY <1>11, <1>12, <3>1, <4>1
    <3>2. CASE ~d.vblank
      <4>1. undisturbed /\ p.height = A
        BY <1>12, <2>2, <3>2
      <4>2. p.lines = IF m # l THEN past.lines + 1 ELSE past.lines
        BY <1>12, <1>13, <1>15, <3>2, <4>1
      <4>3. m = l \/ (m = (IF l + 1 = FrameLines THEN 0 ELSE l + 1) /\ m # A + 1)
        BY <1>14, <1>15, <3>2
      <4>4. past.lines = IF l > A THEN l - A - 1 ELSE l + FrameLines - A - 1
        BY <1>16, <4>1
      <4> HIDE DEF undisturbed
      <4> QED BY <1>11, <4>1, <4>2, <4>3, <4>4, Numbers DEF VdpNumbers
    <3> QED BY <1>9, <3>1, <3>2
  <2> QED BY <1>5, <1>8, <1>10, <1>11, <1>15, <2>1, <2>2 DEF FrameRight
<1>18. CountRight'
  <2>1. ASSUME p.height # Nothing, p.period # Nothing
        PROVE  /\ e.regs[10] = p.period
               /\ e.lineCounter = IF m > A THEN p.period
                                  ELSE p.period - ((m + 1) % (p.period + 1))
    <3>1. c.lineCounter = chip.lineCounter /\ e.regs = c.regs /\ e.lineCounter = d.lineCounter
      BY <1>8, <1>12, <2>1 DEF SameMemory
    <3>2. p.period = c.regs[10] /\ p.period \in Nat
      <4>1. c.regs[10] \in Nat
        BY <1>7 DEF ChipRight, ChipShape
      <4> QED BY <1>8, <1>12, <2>1, <3>1, <4>1
    <3>3. CASE d.vblank
      <4>1. m = A + 1 /\ d.lineCounter = c.regs[10]
        BY <1>11, <1>14, <1>15, <3>3
      <4> QED BY <1>11, <3>1, <3>2, <4>1
    <3>4. CASE ~d.vblank
      <4>1. undisturbed /\ past.period = p.period
        BY <1>12, <2>1, <3>1, <3>4
      <4>2. chip.lineCounter = IF l > A THEN p.period ELSE p.period - ((l + 1) % (p.period + 1))
        <5>1. past.period # Nothing
          BY <2>1, <4>1
        <5> QED BY <1>13, <1>16, <4>1, <5>1 DEF VdpInv, CountRight
      <4> HIDE DEF undisturbed
      <4>3. CASE m = l /\ d.lineCounter = c.lineCounter
        BY <3>1, <3>2, <4>2, <4>3
      <4>4. CASE /\ m = IF l + 1 = FrameLines THEN 0 ELSE l + 1
                 /\ m # A + 1
                 /\ d.lineCounter = IF m > A \/ c.lineCounter = 0 THEN p.period ELSE c.lineCounter - 1
        <5>1. CASE m > A
          BY <3>1, <3>2, <4>4, <5>1
        <5>2. CASE ~(m > A) /\ m = 0
          <6>1. l > A /\ chip.lineCounter = p.period
            BY <1>11, <4>2, <4>4, <5>2, Numbers DEF VdpNumbers
          <6>2. d.lineCounter = IF p.period = 0 THEN p.period ELSE p.period - 1
            BY <3>1, <4>4, <5>2, <6>1
          <6>3. 1 % (p.period + 1) = IF p.period = 0 THEN 0 ELSE 1
            BY <3>2
          <6> QED BY <3>1, <3>2, <5>2, <6>2, <6>3
        <5>3. CASE ~(m > A) /\ m # 0
          <6>1. m = l + 1 /\ ~(l > A)
            BY <1>11, <4>4, <5>3, Numbers DEF VdpNumbers
          <6>2. c.lineCounter = p.period - ((l + 1) % (p.period + 1))
            BY <3>1, <4>2, <6>1
          <6>3. p.period - ((l + 1 + 1) % (p.period + 1))
                  = IF c.lineCounter = 0 THEN p.period ELSE c.lineCounter - 1
            BY <3>2, <6>2, CountsDown
          <6> QED BY <3>1, <3>2, <4>4, <5>3, <6>1, <6>3
        <5> QED BY <5>1, <5>2, <5>3
      <4> QED BY <1>14, <1>15, <3>2, <3>4, <4>3, <4>4
    <3> QED BY <1>9, <3>3, <3>4
  <2> QED BY <1>5, <1>8, <1>10, <1>11, <1>15, <2>1 DEF CountRight
<1>19. ReadRight'
  <2>1. e.vram = c.vram /\ e.buffer = c.buffer /\ e.addr = c.addr /\ p.reading = asked
    BY <1>8, <1>12 DEF SameMemory, SamePorts
  <2>2. VramOf(e, asked) = VramOf(c, asked)
    BY <2>1 DEF VramOf
  <2> QED BY <1>5, <2>1, <2>2 DEF ReadRight
<1>20. PastShape'
  BY <1>5, <1>12 DEF VdpInv, PastShape
<1> QED BY <1>5, <1>6, <1>8, <1>17, <1>18, <1>19, <1>20 DEF VdpInv

-----------------------------------------------------------------------------
(* The actions.                                                            *)

LEMMA Cycles ==
    /\ ProgramCycles \subseteq 0 .. LineCycles /\ InterruptCycles \in 0 .. LineCycles
    /\ 4 \in 0 .. LineCycles
<1>1. ProgramCycles \subseteq 1 .. LineCycles /\ InterruptCycles \in 1 .. LineCycles
  BY VdpAssumption
<1>2. 1 .. LineCycles \subseteq 0 .. LineCycles /\ 4 \in 0 .. LineCycles
  BY Numbers DEF VdpNumbers
<1> QED BY <1>1, <1>2

\* An access, by an instruction.
LEMMA Accessed ==
    ASSUME VdpInv, NEW c, Touched(chip, c), NEW asked,
           asked # Nothing => c.buffer = VramOf(c, asked) /\ c.addr = (asked + 1) % 16384,
           Access(c, asked)
    PROVE  VdpInv'
<1>1. PICK n \in ProgramCycles : OnInstructionRetired(c, n, asked)
  BY DEF Access
<1>2. n \in 0 .. LineCycles
  BY Cycles
<1>3. SavedRight'
  BY DEF Access, VdpInv, SavedRight
<1> QED BY <1>1, <1>2, <1>3, Retires

\* An instruction without one.
LEMMA Retired ==
    ASSUME VdpInv, NEW n \in 0 .. LineCycles, OnInstructionRetired(chip, n, past.reading),
           UNCHANGED saved
    PROVE  VdpInv'
<1>1. Touched(chip, chip)
  BY DEF VdpInv, Touched, SameTime
<1>2. past.reading # Nothing =>
          chip.buffer = VramOf(chip, past.reading) /\ chip.addr = (past.reading + 1) % 16384
  BY DEF VdpInv, ReadRight
<1>3. SavedRight'
  BY DEF VdpInv, SavedRight
<1> QED BY <1>1, <1>2, <1>3, Retires

LEMMA ReadsDataKeeps == VdpInv /\ ReadsData => VdpInv'
<1> SUFFICES ASSUME VdpInv, ReadsData PROVE VdpInv'
  OBVIOUS
<1>1. PICK c : c = ReadDataPort(chip)
  OBVIOUS
<1>2. PICK asked : asked = IF past.reading = Nothing THEN Nothing ELSE (past.reading + 1) % 16384
  OBVIOUS
<1>3. Access(c, asked)
  BY <1>1, <1>2 DEF ReadsData
<1>4. /\ Touched(chip, c) /\ SameMemory(chip, c) /\ c.buffer = VramOf(chip, chip.addr)
      /\ c.addr = (chip.addr + 1) % 16384
  BY <1>1, ReadDataKeeps DEF VdpInv
<1>5. ASSUME asked # Nothing PROVE c.buffer = VramOf(c, asked) /\ c.addr = (asked + 1) % 16384
  <2>1. chip.addr = asked
    BY <1>2, <1>5 DEF VdpInv, ReadRight
  <2>2. VramOf(c, asked) = VramOf(chip, asked)
    BY <1>4 DEF SameMemory, VramOf
  <2> QED BY <1>4, <2>1, <2>2
<1> QED BY <1>3, <1>4, <1>5, Accessed

LEMMA ReadsStatusKeeps == VdpInv /\ ReadsStatus => VdpInv'
<1> SUFFICES ASSUME VdpInv, ReadsStatus PROVE VdpInv'
  OBVIOUS
<1>1. PICK c : c = ReadControlPort(chip)
  OBVIOUS
<1>2. /\ Touched(chip, c) /\ SameMemory(chip, c) /\ c.buffer = chip.buffer /\ c.addr = chip.addr
  BY <1>1, ReadControlKeeps DEF VdpInv
<1>3. VramOf(c, past.reading) = VramOf(chip, past.reading)
  BY <1>2 DEF SameMemory, VramOf
<1>4. Access(c, past.reading)
  BY <1>1 DEF ReadsStatus
<1> QED BY <1>2, <1>3, <1>4, Accessed DEF VdpInv, ReadRight

LEMMA WritesDataKeeps == ASSUME NEW v \in ChipValues PROVE VdpInv /\ WritesData(v) => VdpInv'
<1> SUFFICES ASSUME VdpInv, WritesData(v) PROVE VdpInv'
  OBVIOUS
<1>1. v \in Nat /\ ChipRight(chip)
  BY VdpAssumption DEF VdpInv
<1>2. Touched(chip, WriteDataPort(chip, v))
  BY <1>1, WriteDataKeeps
<1>3. Access(WriteDataPort(chip, v), Nothing)
  BY DEF WritesData
<1> QED BY <1>2, <1>3, Accessed

LEMMA WritesCommandKeeps == ASSUME NEW v \in ChipValues PROVE VdpInv /\ WritesCommand(v) => VdpInv'
<1> SUFFICES ASSUME VdpInv, WritesCommand(v) PROVE VdpInv'
  OBVIOUS
<1>1. v \in Nat /\ ChipRight(chip)
  BY VdpAssumption DEF VdpInv
<1>2. PICK c : c = WriteControlPort(chip, v)
  OBVIOUS
<1>3. PICK a : a = (v % 64) * 256 + chip.low
  OBVIOUS
<1>4. /\ Touched(chip, c)
      /\ chip.latch /\ v \div 64 = 0 => c.buffer = VramOf(c, a) /\ c.addr = (a + 1) % 16384
  BY <1>1, <1>2, <1>3, WriteControlKeeps
<1>5. CASE chip.latch /\ v \div 64 = 0
  <2>1. Access(c, a)
    BY <1>2, <1>3, <1>5 DEF WritesCommand
  <2> QED BY <1>4, <1>5, <2>1, Accessed
<1>6. CASE ~(chip.latch /\ v \div 64 = 0)
  <2>1. Access(c, Nothing)
    BY <1>2, <1>6 DEF WritesCommand
  <2> QED BY <1>4, <2>1, Accessed
<1> QED BY <1>5, <1>6

LEMMA WritesRegisterKeeps ==
    ASSUME NEW v \in ChipValues PROVE VdpInv /\ WritesRegister(10, v) => VdpInv'
<1> SUFFICES ASSUME VdpInv, WritesRegister(10, v) PROVE VdpInv'
  OBVIOUS
<1>1. v \in Nat /\ ChipRight(chip)
  BY VdpAssumption DEF VdpInv
<1>2. PICK c : c = WriteCompatRegister(chip, 10, v)
  OBVIOUS
<1>3. Touched(chip, c) /\ SamePorts(chip, c) /\ c.vram = chip.vram
  BY <1>1, <1>2, RegisterWritten
<1>4. VramOf(c, past.reading) = VramOf(chip, past.reading)
  BY <1>3 DEF VramOf
<1>5. Access(c, past.reading)
  BY <1>2 DEF WritesRegister
<1> QED BY <1>3, <1>4, <1>5, Accessed DEF VdpInv, ReadRight, SamePorts

LEMMA WritesOamKeeps ==
    ASSUME NEW v \in ChipValues PROVE VdpInv /\ WritesOam(0, 1, v) => VdpInv'
<1> SUFFICES ASSUME VdpInv, WritesOam(0, 1, v) PROVE VdpInv'
  OBVIOUS
<1>1. Touched(chip, WriteOam(chip, 0, 1, v))
  BY WriteOamKeeps DEF VdpInv
<1>2. Access(WriteOam(chip, 0, 1, v), Nothing)
  BY DEF WritesOam
<1> QED BY <1>1, <1>2, Accessed

LEMMA ExecutesKeeps == VdpInv /\ Executes => VdpInv'
<1> SUFFICES ASSUME VdpInv, Executes PROVE VdpInv'
  OBVIOUS
<1>1. PICK n \in ProgramCycles : OnInstructionRetired(chip, n, past.reading)
  BY DEF Executes
<1>2. n \in 0 .. LineCycles
  BY Cycles
<1> QED BY <1>1, <1>2, Retired DEF Executes

LEMMA ControlsKeep ==
    ASSUME NEW halted, NEW enabled PROVE VdpInv /\ Controls(halted, enabled) => VdpInv'
BY Cycles, Retired DEF Controls

LEMMA PollsKeep == VdpInv /\ PollsHalted => VdpInv'
<1> SUFFICES ASSUME VdpInv, PollsHalted PROVE VdpInv'
  OBVIOUS
<1>1. PICK n \in {4, InterruptCycles} : OnInstructionRetired(chip, n, past.reading)
  BY DEF PollsHalted
<1>2. n \in 0 .. LineCycles
  BY Cycles
<1> QED BY <1>1, <1>2, Retired DEF PollsHalted

\* Polls slept through end before the scanline and before the sample.
LEMMA PollsFit ==
    ASSUME VdpInv, NEW polls \in Nat, polls >= 2, polls <= BulkPolls
    PROVE  /\ chip.cycles + 4 * polls < LineCycles /\ psgPhase + 4 * polls < SampleCycles
           /\ ~HasPendingRetirementEvent(chip)
<1>1. PICK y \in 0 .. LineCycles - 1, z \in 0 .. SampleCycles - 1 : y = chip.cycles /\ z = psgPhase
  BY DEF VdpInv, ChipRight, ChipShape
<1>2. ~HasPendingRetirementEvent(chip)
  BY DEF BulkPolls
<1>3. PICK left \in Nat : left = (IF LineCycles - y <= SampleCycles - z
                                     THEN LineCycles - y ELSE SampleCycles - z) - 1
  BY Numbers DEF VdpNumbers
<1>4. polls <= left \div 4
  BY <1>1, <1>3 DEF BulkPolls
<1>5. 4 * polls <= left
  BY <1>4
<1> QED BY <1>1, <1>2, <1>3, <1>5, Numbers DEF VdpNumbers

\* The chip after some polls of a sleep.
Slept(i) == Clocked(chip, chip.cycles + 4 * i)

LEMMA SleptRight ==
    ASSUME VdpInv, NEW i \in Nat, chip.cycles + 4 * i < LineCycles
    PROVE  LET c == Slept(i)
           IN  /\ ChipRight(c) /\ SameMemory(chip, c) /\ SamePorts(chip, c) /\ SameFlags(chip, c)
               /\ c.line = chip.line /\ c.vblank = chip.vblank /\ c.ready = chip.ready
               /\ c.lineCounter = chip.lineCounter /\ c.cycles = chip.cycles + 4 * i
<1>1. PICK y \in 0 .. LineCycles - 1 : y = chip.cycles
  BY DEF VdpInv, ChipRight, ChipShape
<1>2. PICK k \in 0 .. LineCycles - 1 : k = chip.cycles + 4 * i
  BY <1>1, Numbers DEF VdpNumbers
<1>3. PICK c : c = Slept(i)
  OBVIOUS
<1>4. c = Clocked(chip, k) /\ "cycles" \in DOMAIN chip
  BY <1>2, <1>3 DEF Slept, VdpInv, ChipRight, ChipShape, ChipFields
<1>5. /\ SameMemory(chip, c) /\ SamePorts(chip, c) /\ SameFlags(chip, c) /\ c.cycles = k
      /\ c.line = chip.line /\ c.vblank = chip.vblank /\ c.ready = chip.ready
      /\ c.lineCounter = chip.lineCounter
  BY <1>4 DEF Clocked, SameMemory, SamePorts, SameFlags
<1>6. ChipShape(c)
  BY <1>5 DEF VdpInv, ChipRight, ChipShape, SameMemory, SamePorts
<1>7. ChipRight(c)
  BY <1>5, <1>6, StillRight DEF VdpInv
<1> QED BY <1>2, <1>3, <1>5, <1>7

LEMMA SleepsKeep ==
    ASSUME NEW polls \in Nat PROVE VdpInv /\ SleepsThrough(polls) => VdpInv'
<1> SUFFICES ASSUME VdpInv, SleepsThrough(polls) PROVE VdpInv'
  OBVIOUS
<1>1. /\ chip.cycles + 4 * polls < LineCycles /\ psgPhase + 4 * polls < SampleCycles
  BY PollsFit DEF SleepsThrough
<1>2. PICK y \in 0 .. LineCycles - 1, z \in 0 .. SampleCycles - 1 : y = chip.cycles /\ z = psgPhase
  BY DEF VdpInv, ChipRight, ChipShape
<1>3. PICK k \in Nat : k = chip.cycles + 4 * polls /\ 4 * polls \in 0 .. LineCycles
  BY <1>1, <1>2, Numbers DEF VdpNumbers
<1>4. StepVdp(chip, 4 * polls) = Clocked(chip, k)
  BY <1>1, <1>3, Stepped DEF VdpInv
<1>5. chip' = Slept(polls)
  BY <1>3, <1>4 DEF SleepsThrough, Slept
<1>6. /\ ChipRight(chip') /\ SameMemory(chip, chip') /\ SamePorts(chip, chip')
      /\ chip'.line = chip.line /\ chip'.vblank = chip.vblank /\ chip'.ready = chip.ready
      /\ chip'.lineCounter = chip.lineCounter
  BY <1>1, <1>5, SleptRight
<1>7. Active(chip') = Active(chip) /\ past' = past /\ saved' = saved
  BY <1>6, SameLines DEF SameMemory, SleepsThrough
<1>8. psgPhase' \in 0 .. SampleCycles - 1
  <2>1. psgPhase + 4 * polls \in Nat
    BY <1>2
  <2>2. psgPhase' = (psgPhase + 4 * polls) % SampleCycles
    BY DEF SleepsThrough
  <2> QED BY <2>1, <2>2, Numbers DEF VdpNumbers
<1>9. PastShape' /\ SavedRight' /\ FrameRight' /\ CountRight'
  BY <1>6, <1>7 DEF VdpInv, PastShape, SavedRight, FrameRight, CountRight, SameMemory
<1>10. ReadRight'
  <2>1. VramOf(chip', past.reading) = VramOf(chip, past.reading)
    BY <1>6 DEF SameMemory, VramOf
  <2> QED BY <1>6, <1>7, <2>1 DEF VdpInv, ReadRight, SamePorts
<1> QED BY <1>6, <1>8, <1>9, <1>10 DEF VdpInv, Quiet

LEMMA SavesKeep == VdpInv /\ SavesState => VdpInv'
<1> SUFFICES ASSUME VdpInv, SavesState PROVE VdpInv'
  OBVIOUS
<1>1. saved'[1].chip = chip /\ chip' = chip /\ psgPhase' = psgPhase /\ past' = past
  BY DEF SavesState
<1>2. SavedRight'
  BY <1>1 DEF VdpInv, ChipRight, SavedRight
<1> QED BY <1>1, <1>2 DEF VdpInv, PastShape, FrameRight, CountRight, ReadRight

LEMMA LoadsKeep == VdpInv /\ LoadsState => VdpInv'
<1> SUFFICES ASSUME VdpInv, LoadsState PROVE VdpInv'
  OBVIOUS
<1>1. PICK c : c = saved[1].chip
  OBVIOUS
<1>2. ChipShape(c) /\ Quiet(c) /\ chip' = WithIrq(RecomputeDecodedCramCache(c))
  BY <1>1 DEF LoadsState, ImportState, VdpInv, SavedRight
<1>3. PICK d : d = RecomputeDecodedCramCache(c)
  OBVIOUS
<1>4. ChipShape(d) /\ Palette(d) /\ SameTime(c, d) /\ d.ready = c.ready
  BY <1>2, <1>3, PaletteRecomputed
<1>5. PICK e : e = WithIrq(d)
  OBVIOUS
<1>6. ChipRight(e) /\ SameTime(d, e) /\ e.ready = d.ready
  BY <1>4, <1>5, IrqRecomputed
<1>7. chip' = e /\ Quiet(e)
  BY <1>2, <1>3, <1>4, <1>5, <1>6 DEF Quiet, SameTime
<1>8. /\ past'.height = Nothing /\ past'.reading = Nothing /\ past'.last = Nothing /\ PastShape'
      /\ psgPhase' = psgPhase /\ saved' = saved
  BY DEF LoadsState, VdpInv, PastShape
<1>9. FrameRight' /\ CountRight' /\ ReadRight'
  BY <1>8 DEF FrameRight, CountRight, ReadRight
<1> QED BY <1>6, <1>7, <1>8, <1>9 DEF VdpInv, SavedRight

LEMMA SwitchKeeps == ASSUME NEW sms \in BOOLEAN PROVE VdpInv /\ SwitchesMode(sms) => VdpInv'
<1> SUFFICES ASSUME VdpInv, SwitchesMode(sms) PROVE VdpInv'
  OBVIOUS
<1>1. PICK c : c = [chip EXCEPT !.sms = sms]
  OBVIOUS
<1>2. PICK d : d = RecomputeDecodedCramCache(c)
  OBVIOUS
<1>3. chip' = d
  BY <1>1, <1>2 DEF SwitchesMode, SetSmsMode
<1>4. /\ DOMAIN c = DOMAIN chip /\ c.vram = chip.vram /\ c.regs = chip.regs /\ c.cram = chip.cram
      /\ SamePorts(chip, c) /\ SameTime(chip, c) /\ SameFlags(chip, c) /\ c.ready = chip.ready
      /\ c.lineCounter = chip.lineCounter
  BY <1>1 DEF SamePorts, SameTime, SameFlags
<1>5. ChipShape(c)
  BY <1>4 DEF VdpInv, ChipRight, ChipShape, SamePorts, SameTime
<1>6. /\ ChipShape(d) /\ Palette(d) /\ SamePorts(c, d) /\ SameTime(c, d) /\ SameFlags(c, d)
      /\ d.vram = c.vram /\ d.regs = c.regs /\ d.ready = c.ready /\ d.lineCounter = c.lineCounter
  BY <1>2, <1>5, PaletteRecomputed
<1>7. d.irq = IrqAsserted(d)
  <2>1. d.regs = chip.regs /\ d.frameIrq = chip.frameIrq /\ d.lineIrq = chip.lineIrq /\ d.irq = chip.irq
    BY <1>4, <1>6 DEF SameFlags
  <2> QED BY <2>1, SameIrq DEF VdpInv, ChipRight
<1>8. ChipRight(d) /\ Quiet(d)
  BY <1>4, <1>6, <1>7 DEF ChipRight, Quiet, VdpInv, SameTime
<1>9. /\ past' = [past EXCEPT !.height = IF Active(d) = @ THEN @ ELSE Nothing]
      /\ psgPhase' = psgPhase /\ saved' = saved
  BY <1>3 DEF SwitchesMode
<1>10. /\ PastShape' /\ past'.lines = past.lines /\ past'.last = past.last
       /\ past'.period = past.period /\ past'.reading = past.reading
       /\ past'.height = IF Active(d) = past.height THEN past.height ELSE Nothing
  BY <1>9 DEF VdpInv, PastShape
<1>11. d.line = chip.line /\ d.lineCounter = chip.lineCounter /\ d.regs = chip.regs
  BY <1>4, <1>6 DEF SameTime
<1>12. past'.height # Nothing => past.height = past'.height /\ Active(d) = Active(chip)
  BY <1>10 DEF VdpInv, FrameRight
<1>13. FrameRight' /\ CountRight'
  BY <1>3, <1>10, <1>11, <1>12 DEF VdpInv, FrameRight, CountRight
<1>14. ReadRight'
  <2>1. VramOf(d, past.reading) = VramOf(chip, past.reading)
    BY <1>4, <1>6 DEF VramOf
  <2>2. d.buffer = chip.buffer /\ d.addr = chip.addr
    BY <1>4, <1>6 DEF SamePorts
  <2> QED BY <1>3, <1>10, <2>1, <2>2 DEF VdpInv, ReadRight
<1> QED BY <1>3, <1>8, <1>9, <1>10, <1>13, <1>14 DEF VdpInv, SavedRight

\* Every step keeps the invariant.
LEMMA VdpSteps == VdpInv /\ [VdpNext]_vdpVars => VdpInv'
<1> SUFFICES ASSUME VdpInv, [VdpNext]_vdpVars PROVE VdpInv'
  OBVIOUS
<1>1. CASE Executes
  BY <1>1, ExecutesKeeps
<1>2. CASE PollsHalted
  BY <1>2, PollsKeep
<1>3. CASE SavesState
  BY <1>3, SavesKeep
<1>4. CASE LoadsState
  BY <1>4, LoadsKeep
<1>5. CASE ReadsData
  BY <1>5, ReadsDataKeeps
<1>6. CASE ReadsStatus
  BY <1>6, ReadsStatusKeeps
<1>7. ASSUME NEW v \in ChipValues,
             WritesData(v) \/ WritesCommand(v) \/ WritesRegister(10, v) \/ WritesOam(0, 1, v)
      PROVE  VdpInv'
  BY <1>7, WritesDataKeeps, WritesCommandKeeps, WritesRegisterKeeps, WritesOamKeeps
<1>8. ASSUME NEW halted \in BOOLEAN, NEW enabled \in BOOLEAN, Controls(halted, enabled) PROVE VdpInv'
  BY <1>8, ControlsKeep
<1>9. ASSUME NEW polls \in 2 .. LineCycles \div 4, SleepsThrough(polls) PROVE VdpInv'
  <2>1. polls \in Nat
    BY Numbers DEF VdpNumbers
  <2> QED BY <1>9, <2>1, SleepsKeep
<1>10. ASSUME NEW sms \in BOOLEAN \ {chip.sms}, SwitchesMode(sms) PROVE VdpInv'
  BY <1>10, SwitchKeeps
<1>11. CASE UNCHANGED vdpVars
  BY <1>11 DEF vdpVars, VdpInv, PastShape, SavedRight, FrameRight, CountRight, ReadRight
<1> QED BY <1>1, <1>2, <1>3, <1>4, <1>5, <1>6, <1>7, <1>8, <1>9, <1>10, <1>11 DEF VdpNext

-----------------------------------------------------------------------------
(* What the invariant means.                                               *)

\* Polls slept through are those polls one by one.
LEMMA SleepIsPolls == VdpInv => SleepInvisible
<1> SUFFICES ASSUME VdpInv, NEW polls \in 2 .. BulkPolls
             PROVE  LET alone[i \in 0 .. polls] == IF i = 0 THEN chip ELSE StepVdp(alone[i - 1], 4)
                    IN  /\ StepVdp(chip, 4 * polls) = alone[polls]
                        /\ ~HasPendingRetirementEvent(alone[polls]) /\ alone[polls].line = chip.line
                        /\ psgPhase + 4 * polls < SampleCycles
  BY DEF SleepInvisible
<1> DEFINE Follows(f) == f = [i \in 0 .. polls |-> IF i = 0 THEN chip ELSE StepVdp(f[i - 1], 4)]
           alone == CHOOSE f : Follows(f)
<1>1. polls \in Nat /\ polls >= 2 /\ polls <= BulkPolls
  OBVIOUS
<1>2. /\ chip.cycles + 4 * polls < LineCycles /\ psgPhase + 4 * polls < SampleCycles
      /\ ~HasPendingRetirementEvent(chip)
  BY <1>1, PollsFit
<1>3. PICK y \in 0 .. LineCycles - 1 : y = chip.cycles
  BY DEF VdpInv, ChipRight, ChipShape
<1>4. ASSUME NEW i \in Nat, i <= polls PROVE chip.cycles + 4 * i < LineCycles
  BY <1>1, <1>2, <1>3, <1>4, Numbers DEF VdpNumbers
<1> DEFINE After(i) == IF i = 0 THEN chip ELSE Slept(i)
<1>6. ASSUME NEW i \in Nat, i + 1 <= polls PROVE StepVdp(After(i), 4) = Slept(i + 1)
  <2>1. PICK c : c = After(i)
    OBVIOUS
  <2>2. PICK k \in Nat : k = y + 4 * (i + 1)
    OBVIOUS
  <2>3. k < LineCycles
    <3>1. i + 1 \in Nat
      OBVIOUS
    <3>2. chip.cycles + 4 * (i + 1) < LineCycles
      BY <1>4, <1>6, <3>1
    <3> QED BY <1>3, <2>2, <3>2
  <2>4. /\ ChipRight(c) /\ c.cycles = y + 4 * i
        /\ Clocked(c, k) = Clocked(chip, k)
    <3>1. CASE i = 0
      BY <1>3, <2>1, <3>1 DEF VdpInv
    <3>2. CASE i # 0
      <4>1. c = Slept(i) /\ chip.cycles + 4 * i < LineCycles
        BY <1>1, <1>4, <1>6, <2>1, <3>2
      <4>2. ChipRight(c) /\ c.cycles = chip.cycles + 4 * i
        BY <4>1, SleptRight
      <4>3. Clocked(c, k) = Clocked(chip, k)
        BY <4>1 DEF Slept, Clocked
      <4> QED BY <1>3, <4>2, <4>3
    <3> QED BY <3>1, <3>2
  <2>5. k = c.cycles + 4
    BY <2>2, <2>4
  <2>8. 4 \in 0 .. LineCycles
    BY Cycles
  <2>6. StepVdp(c, 4) = Clocked(c, k)
    BY <2>3, <2>4, <2>5, <2>8, Stepped
  <2>7. Slept(i + 1) = Clocked(chip, k)
    BY <1>3, <2>2 DEF Slept
  <2> QED BY <2>1, <2>4, <2>6, <2>7
<1> HIDE DEF After
<1>7. Follows([i \in 0 .. polls |-> After(i)])
  <2>1. PICK g : g = [i \in 0 .. polls |-> After(i)]
    OBVIOUS
  <2>2. ASSUME NEW i \in 0 .. polls PROVE g[i] = IF i = 0 THEN chip ELSE StepVdp(g[i - 1], 4)
    <3>1. CASE i = 0
      BY <2>1, <3>1 DEF After
    <3>2. CASE i # 0
      <4>1. PICK j \in Nat : j = i - 1 /\ j \in 0 .. polls /\ j + 1 <= polls /\ j + 1 = i
        BY <1>1, <3>2
      <4>2. StepVdp(After(j), 4) = After(i)
        BY <1>6, <3>2, <4>1 DEF After
      <4> QED BY <2>1, <3>2, <4>1, <4>2
    <3> QED BY <3>1, <3>2
  <2> QED BY <2>1, <2>2
<1>8. Follows(alone)
  <2> HIDE DEF Follows
  <2> QED BY <1>7
<1>9. PICK h : h = alone
  OBVIOUS
<1>10. h = [i \in 0 .. polls |-> IF i = 0 THEN chip ELSE StepVdp(h[i - 1], 4)]
  BY <1>8, <1>9
<1> DEFINE Same == {i \in Nat : h[i] = After(i)}
<1>11. 0 \in Same
  <2>1. h[0] = chip
    BY <1>1, <1>10
  <2> QED BY <2>1 DEF After
<1>12. ASSUME NEW i \in Nat, i < polls, i \in Same PROVE i + 1 \in Same
  <2>1. i + 1 \in 0 .. polls /\ i + 1 # 0 /\ (i + 1) - 1 = i
    BY <1>12
  <2>2. h[i + 1] = StepVdp(h[i], 4)
    BY <1>10, <2>1
  <2>3. StepVdp(After(i), 4) = After(i + 1)
    BY <1>6, <2>1 DEF After
  <2> QED BY <1>12, <2>2, <2>3
<1>13. h[polls] = Slept(polls)
  <2>1. Same \in SUBSET Nat
    OBVIOUS
  <2> HIDE DEF Same
  <2>2. \A i \in 0 .. polls : i \in Same
    BY <1>1, <1>11, <1>12, <2>1, HandedOn
  <2>3. polls \in Same
    BY <1>1, <2>2
  <2> QED BY <1>1, <2>3 DEF Same, After
<1>14. StepVdp(chip, 4 * polls) = Slept(polls)
  <2>1. PICK k \in Nat : k = chip.cycles + 4 * polls /\ 4 * polls \in 0 .. LineCycles /\ k < LineCycles
    BY <1>1, <1>2, <1>3, Numbers DEF VdpNumbers
  <2>2. StepVdp(chip, 4 * polls) = Clocked(chip, k)
    BY <2>1, Stepped DEF VdpInv
  <2> QED BY <2>1, <2>2 DEF Slept
<1>15. ~HasPendingRetirementEvent(Slept(polls)) /\ Slept(polls).line = chip.line
  <2>1. PICK c : c = Slept(polls)
    OBVIOUS
  <2>2. SameFlags(chip, c) /\ c.line = chip.line /\ c.vblank = chip.vblank /\ c.ready = chip.ready
    BY <1>1, <1>2, <2>1, SleptRight
  <2> QED BY <1>2, <2>1, <2>2 DEF HasPendingRetirementEvent, SameFlags
<1>16. alone[polls] = Slept(polls)
  BY <1>9, <1>13
<1> QED BY <1>2, <1>14, <1>15, <1>16

LEMMA InvIsHonest == VdpInv => ChipHonest
<1> SUFFICES ASSUME VdpInv PROVE ChipHonest
  OBVIOUS
<1>1. IrqFollowsFlags
  BY DEF VdpInv, ChipRight, IrqFollowsFlags
<1>2. PaletteFresh
  <2>1. PICK t : t = [i \in 0 .. Colors - 1 |-> DecodedColor(chip, i)]
    OBVIOUS
  <2>2. RecomputeDecodedCramCache(chip) = [chip EXCEPT !.decoded = t]
    BY <2>1 DEF RecomputeDecodedCramCache
  <2>3. chip.decoded = t /\ "decoded" \in DOMAIN chip
    BY <2>1 DEF VdpInv, ChipRight, Palette, ChipShape, ChipFields
  <2> QED BY <2>2, <2>3 DEF PaletteFresh
<1>3. ReadsInOrder
  BY DEF VdpInv, ReadRight, ReadsInOrder
<1>4. PICK A \in Nat, l \in 0 .. FrameLines - 1 :
            A = Active(chip) /\ A + 1 < FrameLines /\ l = chip.line
  BY ActiveRange DEF VdpInv, ChipRight, ChipShape
<1>5. FramesWhole
  BY <1>4, Numbers DEF VdpInv, FrameRight, FramesWhole, VdpNumbers
<1>6. LinesCounted
  BY <1>4 DEF VdpInv, CountRight, LinesCounted
<1>7. SleepInvisible
  BY SleepIsPolls
<1> QED BY <1>1, <1>2, <1>3, <1>5, <1>6, <1>7 DEF ChipHonest

\* The Game Gear's video chip is honest with every program, for lines, frames,
\* palettes and samples of any size: its interrupt line says what its flags and
\* enables say, its palette is colour memory decoded in the mode of now, the data
\* port reads in order, frames are announced after all their lines, line interrupts
\* come by register 10, and a sleep is the polls it stands for.
THEOREM ChipAlwaysHonest == VdpSpec => []ChipHonest
<1>1. VdpInit => VdpInv
  BY VdpStarts
<1>2. VdpInv /\ [VdpNext]_vdpVars => VdpInv'
  BY VdpSteps
<1>3. VdpInv => ChipHonest
  BY InvIsHonest
<1> QED BY <1>1, <1>2, <1>3, PTL DEF VdpSpec
=============================================================================
