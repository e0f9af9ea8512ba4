--------------------------- MODULE MachineProofs ---------------------------
(***************************************************************************)
(* Proofs about the two machines.                                          *)
(*                                                                         *)
(* GameBoyClock: the two LCDs agree, for any number of dots and lines, any *)
(* timer, any instructions shorter than a line, and any values written to  *)
(* the registers (ClockInv).                                               *)
(*                                                                         *)
(* CartridgeBuses: the copies of the bank registers, and of what was       *)
(* saved, agree, for any cartridges, and any addresses and values written  *)
(* (GearInv for the Game Gear, BusInv for the Game Boy).                   *)
(*                                                                         *)
(* TranslatedBlocks: no translated block that can be executed is older     *)
(* than the bytes it was made from, for any table of instructions, any     *)
(* program and any memory (BlocksInv).                                     *)
(***************************************************************************)
EXTENDS GameBoyClock, CartridgeBuses, TranslatedBlocks, FiniteSetTheorems, SequenceTheorems,
        WellFoundedInduction, TLAPS

-----------------------------------------------------------------------------
(* The Game Boy's LCDs.                                                    *)

\* What the proof needs of the core's state: these fields there, and an LCD that was
\* off in the last cycle at its first dot.
LcdFields == {"dot", "lcd", "lcdLast", "requested"}
CpuRight ==
    /\ LcdFields \subseteq DOMAIN cpu
    /\ cpu.lcd \in BOOLEAN /\ cpu.lcdLast \in BOOLEAN
    /\ ~cpu.lcdLast => cpu.dot = 0

Lines == 0 .. TotalLines - 1
Dots == 0 .. LineDots - 1

\* The lines before the current one are rendered, and none after it.
PpuRight(p) ==
    /\ p \in [dot : Dots, ly : Lines, mode : {"search", "draw", "hblank", "vblank"},
              captured : SUBSET Nat, on : BOOLEAN]
    /\ p.ly < VisibleLines => 0 .. p.ly - 1 \subseteq p.captured /\ p.captured \subseteq 0 .. p.ly
    /\ p.ly >= VisibleLines => p.captured = 0 .. VisibleLines - 1 /\ p.mode = "vblank"

\* LcdsAgree, of LCDs that were not set apart.
Together ==
    /\ cpu.dot = ppu.ly * LineDots + ppu.dot
    /\ ppu.on => ppu.mode = ModeAt(cpu.dot)
    /\ last.interrupt => last.frame
    /\ last.frame => "vblank" \in cpu.requested

ClockInv ==
    /\ CpuRight /\ PpuRight(ppu) /\ apart \in BOOLEAN
    /\ last.complete
    /\ ~apart => Together
-----------------------------------------------------------------------------
(* Cycles: what Retired computes, one after the other.                     *)

\* A set of numbers that is not empty has a least one.
LEMMA LeastNumber ==
  ASSUME NEW S, S \subseteq Nat, S # {}
  PROVE  \E n \in S : \A m \in S : n <= m
<1>1. PICK top \in S : TRUE
  OBVIOUS
<1> DEFINE Low == S \cap (0 .. top)
           Unbounded == {T \in SUBSET Low : T # {} /\ ~ \E n \in T : \A m \in T : n <= m}
<1>2. IsFiniteSet(Low)
  <2>1. top \in Nat /\ Low \in SUBSET (0 .. top)
    BY <1>1
  <2>2. IsFiniteSet(0 .. top)
    BY <2>1, FS_Interval
  <2> HIDE DEF Low
  <2> QED BY <2>1, <2>2, FS_Subset
<1>3. Unbounded = {}
  <2> SUFFICES ASSUME Unbounded # {} PROVE FALSE
    OBVIOUS
  <2>1. IsWellFoundedOn(StrictSubsetOrdering(Low), SUBSET Low)
    <3> HIDE DEF Low
    <3> QED BY <1>2, FS_StrictSubsetOrderingWellFounded, FS_FiniteSubsetsOfFinite
  <2>2. PICK T \in Unbounded : \A U \in Unbounded : ~ (<<U, T>> \in StrictSubsetOrdering(Low))
    <3>1. Unbounded \subseteq SUBSET Low
      OBVIOUS
    <3> HIDE DEF Unbounded
    <3> QED BY <2>1, <3>1, WFMin
  <2>3. PICK n \in T : TRUE
    OBVIOUS
  <2>4. T \ {n} \notin Unbounded
    BY <2>2 DEF StrictSubsetOrdering
  <2>5. CASE T \ {n} = {}
    BY <2>5, <2>3
  <2>6. CASE T \ {n} # {}
    <3>1. PICK m \in T \ {n} : \A x \in T \ {n} : m <= x
      BY <2>4, <2>6
    <3>2. CASE n <= m
      BY <3>1, <3>2
    <3>3. CASE m <= n
      BY <3>1, <3>3, <2>3
    <3> QED BY <3>1, <3>2, <3>3, <2>3
  <2> QED BY <2>5, <2>6
<1>4. top \in Low
  BY <1>1
<1>5. PICK n \in Low : \A m \in Low : n <= m
  <2> HIDE DEF Low
  <2> QED BY <1>3, <1>4
<1> QED BY <1>1, <1>5

\* The states of the core before and after each of n cycles.
Cycles(s, n) ==
    LET run[i \in 0 .. n] == IF i = 0 THEN {s} ELSE {Tick(t) : t \in run[i - 1]} IN run
IsRun(r, s, n) == r = [i \in 0 .. n |-> IF i = 0 THEN {s} ELSE {Tick(t) : t \in r[i - 1]}]

LEMMA RunExists == ASSUME NEW s, NEW n \in Nat PROVE \E r : IsRun(r, s, n)
<1> DEFINE Bad == {k \in Nat : ~ \E r : IsRun(r, s, k)}
<1>1. SUFFICES Bad = {}
  OBVIOUS
<1>2. SUFFICES ASSUME Bad # {} PROVE FALSE
  OBVIOUS
<1>3. PICK k \in Bad : \A m \in Bad : k <= m
  BY <1>2, LeastNumber
<1>4. CASE k = 0
  <2>1. IsRun([i \in 0 .. 0 |-> {s}], s, 0)
    BY DEF IsRun
  <2> QED BY <2>1, <1>3, <1>4
<1>5. CASE k # 0
  <2>1. k - 1 \in Nat /\ k - 1 \notin Bad
    BY <1>3, <1>5
  <2>2. PICK r : IsRun(r, s, k - 1)
    BY <2>1
  <2> DEFINE x == [i \in 0 .. k |-> IF i = 0 THEN {s} ELSE {Tick(t) : t \in r[i - 1]}]
  <2>3. ASSUME NEW i \in 0 .. k - 1 PROVE x[i] = r[i]
    <3>1. r[i] = IF i = 0 THEN {s} ELSE {Tick(t) : t \in r[i - 1]}
      BY <2>2 DEF IsRun
    <3>2. i \in 0 .. k
      BY <2>1
    <3> QED BY <3>1, <3>2
  <2>4. ASSUME NEW i \in 0 .. k, i # 0 PROVE x[i - 1] = r[i - 1]
    <3>1. i - 1 \in 0 .. k - 1
      BY <2>4, <2>1
    <3> HIDE DEF x
    <3> QED BY <3>1, <2>3
  <2>5. x = [i \in 0 .. k |-> IF i = 0 THEN {s} ELSE {Tick(t) : t \in x[i - 1]}]
    BY <2>4
  <2>6. IsRun(x, s, k)
    BY <2>5 DEF IsRun
  <2> QED BY <2>6, <1>3
<1> QED BY <1>4, <1>5

LEMMA RunOfCycles ==
  ASSUME NEW s, NEW n \in Nat
  PROVE  IsRun(Cycles(s, n), s, n)
<1> DEFINE run[i \in 0 .. n] == IF i = 0 THEN {s} ELSE {Tick(t) : t \in run[i - 1]}
<1>1. Cycles(s, n) = run
  BY DEF Cycles
<1>2. run = CHOOSE r : IsRun(r, s, n)
  BY DEF IsRun
<1>3. IsRun(run, s, n)
  BY <1>2, RunExists
<1> QED BY <1>1, <1>3

LEMMA RetiredIs ==
  ASSUME NEW s, NEW n \in Nat
  PROVE  Retired(s, n) = {Enabling(t) : t \in Cycles(s, n)[n]}
BY DEF Retired, Cycles
-----------------------------------------------------------------------------
(* Where a number of cycles shorter than a line leads.                     *)

LEMMA ClockConstants ==
  /\ LineDots \in Nat \ {0} /\ VisibleLines \in Nat \ {0} /\ TotalLines \in Nat
  /\ VisibleLines < TotalLines /\ SearchDots \in Nat /\ SearchDots < LineDots
BY ClockAssumption

LineAfter(q, d, n) == IF d + n < LineDots THEN q ELSE (q + 1) % TotalLines
DotAfter(d, n) == IF d + n < LineDots THEN d + n ELSE d + n - LineDots

LEMMA LineOf ==
  ASSUME NEW q \in Nat, NEW d \in Dots
  PROVE  (q * LineDots + d) \div LineDots = q /\ (q * LineDots + d) % LineDots = d
BY ClockConstants DEF Dots

\* The line after the last is the first.
LEMMA NextOf ==
  ASSUME NEW q \in Lines
  PROVE  /\ (q + 1) % TotalLines \in Lines
         /\ (q + 1) % TotalLines = IF q + 1 = TotalLines THEN 0 ELSE q + 1
<1>1. q + 1 \in Nat /\ q + 1 <= TotalLines /\ TotalLines \in Nat \ {0}
  BY ClockConstants DEF Lines
<1>2. q + 1 < TotalLines => (q + 1) % TotalLines = q + 1
  BY <1>1
<1>3. TotalLines % TotalLines = 0
  BY <1>1
<1> QED BY <1>1, <1>2, <1>3 DEF Lines

LEMMA Places ==
  ASSUME NEW q \in Lines, NEW d \in Dots, NEW n \in 0 .. LineDots - 1
  PROVE  /\ LineAfter(q, d, n) \in Lines /\ DotAfter(d, n) \in Dots
         /\ n + 1 \in 0 .. LineDots - 1 =>
              /\ LineAfter(q, d, n + 1) = LineAfter(LineAfter(q, d, n), DotAfter(d, n), 1)
              /\ DotAfter(d, n + 1) = DotAfter(DotAfter(d, n), 1)
<1>1. LineAfter(q, d, n) \in Lines /\ DotAfter(d, n) \in Dots
  BY NextOf, ClockConstants DEF LineAfter, DotAfter, Dots
<1>2. ASSUME n + 1 \in 0 .. LineDots - 1
      PROVE  /\ LineAfter(q, d, n + 1) = LineAfter(LineAfter(q, d, n), DotAfter(d, n), 1)
             /\ DotAfter(d, n + 1) = DotAfter(DotAfter(d, n), 1)
  <2>1. LineDots \in Nat /\ d \in Nat /\ d < LineDots /\ n \in Nat /\ n + 1 < LineDots
    BY <1>2, ClockConstants DEF Dots
  <2>2. CASE d + n < LineDots
    BY <2>1, <2>2 DEF LineAfter, DotAfter
  <2>3. CASE ~(d + n < LineDots)
    <3>1. ~(d + (n + 1) < LineDots) /\ (d + n - LineDots) + 1 < LineDots
          /\ d + (n + 1) - LineDots = (d + n - LineDots) + 1
      BY <2>1, <2>3
    <3> QED BY <2>3, <3>1 DEF LineAfter, DotAfter
  <2> QED BY <2>2, <2>3
<1> QED BY <1>1, <1>2

\* The next dot is the next of its line, or the first of the next.
LEMMA NextPlace ==
  ASSUME NEW q \in Lines, NEW d \in Dots
  PROVE  (q * LineDots + d + 1) % (TotalLines * LineDots)
            = LineAfter(q, d, 1) * LineDots + DotAfter(d, 1)
<1>1. PICK l \in Nat \ {0} : l = LineDots
  BY ClockConstants
<1>2. PICK n \in Nat \ {0} : n = TotalLines
  BY ClockConstants
<1>3. q \in Nat /\ q + 1 <= n /\ d \in Nat /\ d + 1 <= l
  BY <1>1, <1>2 DEF Lines, Dots
<1>4. (q + 1) * l <= n * l /\ (q + 1) * l = q * l + l /\ n * l \in Nat \ {0} /\ q * l \in Nat
  <2>1. \A a, b, c \in Nat : a <= b => a * c <= b * c
    OBVIOUS
  <2>2. (q + 1) * l <= n * l
    BY <2>1, <1>3
  <2>3. (q + 1) * l = q * l + l /\ n * l \in Nat \ {0} /\ q * l \in Nat
    BY <1>3
  <2> QED BY <2>2, <2>3
<1>5. CASE d + 1 < l
  <2>1. q * l + d + 1 \in Nat /\ q * l + d + 1 < n * l
    BY <1>3, <1>4, <1>5
  <2>2. (q * l + d + 1) % (n * l) = q * l + d + 1
    <3>1. \A x \in Nat, y \in Nat : x < y => x % y = x
      OBVIOUS
    <3>2. PICK x \in Nat, y \in Nat : x = q * l + d + 1 /\ y = n * l
      BY <2>1, <1>4
    <3> QED BY <3>1, <3>2, <2>1
  <2> QED BY <2>2, <1>1, <1>2, <1>3, <1>4, <1>5 DEF LineAfter, DotAfter
<1>6. CASE ~(d + 1 < l)
  <2>1. d + 1 = l /\ q * l + d + 1 = (q + 1) * l
    BY <1>3, <1>4, <1>6
  <2>2. CASE q + 1 = n
    <3>1. (n * l) % (n * l) = 0
      <4>1. \A y \in Nat \ {0} : y % y = 0
        OBVIOUS
      <4> QED BY <4>1, <1>4
    <3>2. (q + 1) % n = 0
      BY <2>2, NextOf, <1>2
    <3>3. DotAfter(d, 1) = 0 /\ LineAfter(q, d, 1) = 0
      BY <2>1, <3>2, <1>1, <1>2, <1>3 DEF DotAfter, LineAfter
    <3> QED BY <2>1, <2>2, <3>1, <3>3, <1>1, <1>2
  <2>3. CASE q + 1 # n
    <3>1. (q + 2) * l <= n * l /\ (q + 2) * l = (q + 1) * l + l
      <4>1. \A a, b, c \in Nat : a <= b => a * c <= b * c
        OBVIOUS
      <4>2. q + 2 \in Nat /\ q + 2 <= n
        BY <2>3, <1>3
      <4> QED BY <4>1, <4>2, <1>3
    <3>2. PICK x \in Nat, y \in Nat : x = (q + 1) * l /\ y = n * l
      BY <1>3, <1>4
    <3>3. x < y
      BY <3>1, <3>2
    <3>4. \A a \in Nat, b \in Nat : a < b => a % b = a
      OBVIOUS
    <3>5. (q + 1) % n = q + 1
      BY <2>3, NextOf, <1>2
    <3>6. DotAfter(d, 1) = 0 /\ LineAfter(q, d, 1) = q + 1
      BY <2>1, <3>5, <1>1, <1>2, <1>3 DEF DotAfter, LineAfter
    <3> QED BY <2>1, <3>2, <3>3, <3>4, <3>6, <1>1, <1>2
  <2> QED BY <2>2, <2>3
<1> QED BY <1>5, <1>6
-----------------------------------------------------------------------------
(* The core's LCD.                                                         *)

\* What one cycle does to the fields of the LCD and to VBlank's interrupt.
LEMMA TickEffect ==
  ASSUME NEW s, LcdFields \subseteq DOMAIN s, NEW t, t = Tick(s)
  PROVE  /\ LcdFields \subseteq DOMAIN t
         /\ t.lcd = s.lcd /\ t.lcdLast = s.lcd /\ t.dot = NextDot(s)
         /\ "vblank" \in t.requested <=>
               \/ "vblank" \in s.requested
               \/ /\ s.lcd /\ From(s) \div LineDots # VisibleLines
                  /\ NextDot(s) \div LineDots = VisibleLines
<1>1. PICK u : u = DividerSet(s, (s.divider + 1) % TimerPeriod)
  OBVIOUS
<1>2. /\ LcdFields \subseteq DOMAIN u /\ u.lcd = s.lcd
      /\ "vblank" \in u.requested <=> "vblank" \in s.requested
  BY <1>1 DEF DividerSet, TimerInterrupt, LcdFields
<1>3. t = [u EXCEPT !.dot = NextDot(s), !.latched = StatLine(s), !.lcdLast = s.lcd,
                    !.requested = @ \cup LcdInterrupts(s)]
  BY <1>1 DEF Tick
<1>4. /\ LcdFields \subseteq DOMAIN t /\ t.lcd = u.lcd /\ t.lcdLast = s.lcd
      /\ t.dot = NextDot(s) /\ t.requested = u.requested \cup LcdInterrupts(s)
  BY <1>2, <1>3 DEF LcdFields
<1>5. "vblank" \in LcdInterrupts(s) <=>
          /\ s.lcd /\ From(s) \div LineDots # VisibleLines
          /\ NextDot(s) \div LineDots = VisibleLines
  BY DEF LcdInterrupts
<1> QED BY <1>2, <1>4, <1>5

\* The line after the last visible one begins.
Enters(q, l) == q # VisibleLines /\ l = VisibleLines

\* Where s is after some cycles, if its LCD began at dot d of line q.
After(s, t, q, d, n) ==
    /\ LcdFields \subseteq DOMAIN t /\ t.lcd = s.lcd
    /\ n = 0 => t = s
    /\ n > 0 => t.lcdLast = s.lcd
    /\ ~s.lcd => /\ n > 0 => t.dot = 0
                 /\ "vblank" \in t.requested <=> "vblank" \in s.requested
    /\ s.lcd /\ From(s) = q * LineDots + d =>
          /\ From(t) = LineAfter(q, d, n) * LineDots + DotAfter(d, n)
          /\ "vblank" \in t.requested <=>
                "vblank" \in s.requested \/ Enters(q, LineAfter(q, d, n))

\* One more cycle.
LEMMA OneMore ==
  ASSUME NEW s, NEW t, NEW q \in Lines, NEW d \in Dots, NEW n \in Nat, n + 1 < LineDots,
         s.lcd \in BOOLEAN, After(s, t, q, d, n)
  PROVE  After(s, Tick(t), q, d, n + 1)
<1>1. PICK u : u = Tick(t)
  OBVIOUS
<1>2. /\ LcdFields \subseteq DOMAIN u
      /\ u.lcd = t.lcd /\ u.lcdLast = t.lcd /\ u.dot = NextDot(t)
      /\ "vblank" \in u.requested <=>
            \/ "vblank" \in t.requested
            \/ /\ t.lcd /\ From(t) \div LineDots # VisibleLines
               /\ NextDot(t) \div LineDots = VisibleLines
  BY <1>1, TickEffect DEF After
<1>3. t.lcd = s.lcd /\ LcdFields \subseteq DOMAIN t
  BY DEF After
<1>4. CASE ~s.lcd
  <2>1. u.dot = 0
    BY <1>2, <1>3, <1>4 DEF NextDot
  <2>2. "vblank" \in u.requested <=> "vblank" \in s.requested
    BY <1>2, <1>3, <1>4 DEF After
  <2> QED BY <2>1, <2>2, <1>1, <1>2, <1>3, <1>4 DEF After
<1>5. CASE s.lcd /\ From(s) = q * LineDots + d
  <2>1. n \in 0 .. LineDots - 1 /\ n + 1 \in 0 .. LineDots - 1
    BY ClockConstants
  <2>2. PICK q1 \in Lines, d1 \in Dots : q1 = LineAfter(q, d, n) /\ d1 = DotAfter(d, n)
    BY <2>1, Places
  <2>3. PICK q2 \in Lines, d2 \in Dots : q2 = LineAfter(q1, d1, 1) /\ d2 = DotAfter(d1, 1)
    <3>1. 1 \in 0 .. LineDots - 1
      BY <2>1, ClockConstants
    <3> QED BY <3>1, Places
  <2>4. q2 = LineAfter(q, d, n + 1) /\ d2 = DotAfter(d, n + 1)
    BY <2>1, <2>2, <2>3, Places
  <2>5. From(t) = q1 * LineDots + d1
    BY <1>5, <2>2 DEF After
  <2>6. NextDot(t) = q2 * LineDots + d2
    BY <1>3, <1>5, <2>3, <2>5, NextPlace DEF NextDot
  <2>7. From(u) = q2 * LineDots + d2
    BY <1>2, <1>3, <1>5, <2>6 DEF From
  <2>8. From(t) \div LineDots = q1 /\ NextDot(t) \div LineDots = q2
    <3>1. q1 \in Nat /\ q2 \in Nat
      BY ClockConstants DEF Lines
    <3> QED BY <3>1, <2>5, <2>6, LineOf
  <2>9. "vblank" \in u.requested <=>
            "vblank" \in s.requested \/ Enters(q, q1) \/ Enters(q1, q2)
    <3>1. "vblank" \in t.requested <=>
              "vblank" \in s.requested \/ Enters(q, q1)
      BY <1>5, <2>2 DEF After
    <3>2. "vblank" \in u.requested <=>
              "vblank" \in t.requested \/ Enters(q1, q2)
      BY <1>2, <1>3, <1>5, <2>8 DEF Enters
    <3> QED BY <3>1, <3>2
  <2>10. \/ q1 = q /\ q2 = q
         \/ q1 = q /\ q2 = (q + 1) % TotalLines
         \/ q1 = (q + 1) % TotalLines /\ q2 = q1
    <3>1. LineDots \in Nat /\ d \in Nat /\ d < LineDots
      BY ClockConstants DEF Dots
    <3>2. CASE d + n < LineDots
      BY <3>1, <3>2, <2>2, <2>3 DEF LineAfter, DotAfter
    <3>3. CASE ~(d + n < LineDots)
      <4>1. d1 = d + n - LineDots /\ d1 + 1 < LineDots
        BY <3>1, <3>3, <2>2 DEF DotAfter
      <4> QED BY <3>3, <4>1, <2>2, <2>3 DEF LineAfter
    <3> QED BY <3>2, <3>3
  <2>11. (q + 1) % TotalLines # q
    BY NextOf, ClockConstants DEF Lines
  <2>12. "vblank" \in u.requested <=>
            "vblank" \in s.requested \/ Enters(q, q2)
    <3>1. Enters(q, q1) \/ Enters(q1, q2) <=> Enters(q, q2)
      BY <2>10, <2>11 DEF Enters
    <3> QED BY <2>9, <3>1
  <2> QED BY <2>4, <2>7, <2>12, <1>1, <1>2, <1>3, <1>5 DEF After
<1>6. CASE s.lcd /\ From(s) # q * LineDots + d
  BY <1>1, <1>2, <1>3, <1>6 DEF After
<1> QED BY <1>4, <1>5, <1>6

LEMMA AfterCycles ==
  ASSUME NEW s, LcdFields \subseteq DOMAIN s, s.lcd \in BOOLEAN,
         NEW q \in Lines, NEW d \in Dots, NEW n \in 0 .. LineDots - 1
  PROVE  \E t : Cycles(s, n)[n] = {t} /\ After(s, t, q, d, n)
<1>1. PICK r : r = Cycles(s, n)
  OBVIOUS
<1>2. n \in Nat /\ LineDots \in Nat
  BY ClockConstants
<1>3. r = [i \in 0 .. n |-> IF i = 0 THEN {s} ELSE {Tick(t) : t \in r[i - 1]}]
  BY <1>1, <1>2, RunOfCycles DEF IsRun
<1> DEFINE Bad == {i \in 0 .. n : ~ \E t : r[i] = {t} /\ After(s, t, q, d, i)}
<1>4. ASSUME Bad # {} PROVE FALSE
  <2>1. PICK i \in Bad : \A j \in Bad : i <= j
    <3>1. Bad \subseteq Nat
      BY <1>2
    <3> HIDE DEF Bad
    <3> QED BY <3>1, <1>4, LeastNumber
  <2>2. CASE i = 0
    <3>1. r[0] = {s}
      BY <1>2, <1>3
    <3>2. LineAfter(q, d, 0) = q /\ DotAfter(d, 0) = d
      BY <1>2 DEF LineAfter, DotAfter, Dots
    <3>3. After(s, s, q, d, 0)
      <4>1. ~(0 > 0)
        OBVIOUS
      <4>2. "vblank" \in s.requested <=>
                "vblank" \in s.requested \/ Enters(q, q)
        BY DEF Enters
      <4>3. From(s) = q * LineDots + d => From(s) = LineAfter(q, d, 0) * LineDots + DotAfter(d, 0)
        BY <3>2
      <4>4. "vblank" \in s.requested <=>
                "vblank" \in s.requested \/ Enters(q, LineAfter(q, d, 0))
        BY <3>2, <4>2
      <4> QED BY <4>1, <4>3, <4>4, Zenon DEF After
    <3> QED BY <3>1, <3>3, <2>1, <2>2
  <2>3. CASE i # 0
    <3>1. i - 1 \in 0 .. n /\ i - 1 \notin Bad /\ i \in 0 .. n /\ i - 1 \in Nat
      BY <2>1, <2>3, <1>2
    <3>2. PICK t : r[i - 1] = {t} /\ After(s, t, q, d, i - 1)
      BY <3>1
    <3>3. r[i] = {Tick(t)}
      <4>1. r[i] = {Tick(v) : v \in r[i - 1]}
        BY <3>1, <1>3, <2>3
      <4>2. r[i] = {Tick(v) : v \in {t}}
        BY <3>2, <4>1
      <4> QED BY <4>2, Zenon
    <3>4. After(s, Tick(t), q, d, (i - 1) + 1)
      <4>1. (i - 1) + 1 < LineDots
        BY <3>1, <1>2
      <4> QED BY <3>1, <3>2, <4>1, OneMore
    <3>5. (i - 1) + 1 = i
      BY <3>1
    <3> QED BY <3>3, <3>4, <3>5, <2>1
  <2> QED BY <2>2, <2>3
<1>5. n \in 0 .. n /\ n \notin Bad
  <2>1. Bad = {}
    BY <1>4
  <2> HIDE DEF Bad
  <2> QED BY <2>1, <1>2
<1> QED BY <1>1, <1>5

\* A retired instruction of at least a cycle and less than a line.
LEMMA RetiredEffect ==
  ASSUME NEW s, LcdFields \subseteq DOMAIN s, s.lcd \in BOOLEAN,
         NEW q \in Lines, NEW d \in Dots, NEW n \in 1 .. LineDots - 1,
         NEW c \in Retired(s, n)
  PROVE  After(s, c, q, d, n)
<1>1. n \in Nat /\ n \in 0 .. LineDots - 1 /\ n > 0
  BY ClockConstants
<1>2. PICK t : Cycles(s, n)[n] = {t} /\ After(s, t, q, d, n)
  BY <1>1, AfterCycles
<1>3. c = Enabling(t)
  BY <1>1, <1>2, RetiredIs
<1>4. /\ LcdFields \subseteq DOMAIN c
      /\ c.lcdLast = t.lcdLast /\ c.dot = t.dot /\ c.requested = t.requested
      /\ c.lcd = t.lcd
  <2>1. LcdFields \subseteq DOMAIN t
    BY <1>2 DEF After
  <2> QED BY <2>1, <1>3 DEF Enabling, LcdFields
<1>5. From(c) = From(t)
  BY <1>4 DEF From
<1> QED BY <1>1, <1>2, <1>4, <1>5 DEF After
-----------------------------------------------------------------------------
(* The PPU.                                                                *)

LEMMA ModeOfPlace ==
  ASSUME NEW q \in Lines, NEW d \in Dots
  PROVE  /\ ModeAt(q * LineDots + d) = IF q < VisibleLines THEN ModeAt(d) ELSE "vblank"
         /\ ModeAt(d) \in {"search", "draw", "hblank"}
<1>1. q \in Nat /\ VisibleLines \in Nat /\ 0 \in Nat /\ d \in Nat
  BY ClockConstants DEF Lines, Dots
<1>2. (q * LineDots + d) \div LineDots = q /\ (q * LineDots + d) % LineDots = d
  BY <1>1, LineOf
<1>3. d \div LineDots = 0 /\ d % LineDots = d
  <2>1. 0 * LineDots + d = d
    BY <1>1, ClockConstants
  <2> QED BY <2>1, <1>1, LineOf
<1>4. ~(0 >= VisibleLines)
  BY ClockConstants
<1> QED BY <1>1, <1>2, <1>3, <1>4 DEF ModeAt

\* What a step with the LCD on does to the PPU.
LEMMA PpuOnEffect ==
  ASSUME NEW p, PpuRight(p), NEW n \in 1 .. LineDots - 1, NEW r, r = PpuOn(p, n)
  PROVE  /\ PpuRight(r) /\ r.on = TRUE
         /\ r.ly = LineAfter(p.ly, p.dot, n) /\ r.dot = DotAfter(p.dot, n)
         /\ r.ly < VisibleLines => r.mode = ModeAt(r.dot)
         /\ EntersVBlank(p, TRUE, n) => r.captured = 0 .. VisibleLines - 1
<1> DEFINE Modes == {"search", "draw", "hblank", "vblank"}
<1>1. PICK q \in Lines, d \in Dots : q = p.ly /\ d = p.dot
  BY DEF PpuRight
<1>2. /\ q \in Nat /\ q < TotalLines /\ d \in Nat /\ d < LineDots
      /\ n \in Nat /\ n > 0 /\ n < LineDots /\ LineDots \in Nat
      /\ VisibleLines \in Nat /\ VisibleLines > 0 /\ TotalLines \in Nat
  BY ClockConstants DEF Lines, Dots
<1>3. /\ p \in [dot : Dots, ly : Lines, mode : Modes, captured : SUBSET Nat, on : BOOLEAN]
      /\ q < VisibleLines => 0 .. q - 1 \subseteq p.captured /\ p.captured \subseteq 0 .. q
      /\ q >= VisibleLines => p.captured = 0 .. VisibleLines - 1 /\ p.mode = "vblank"
  BY <1>1 DEF PpuRight
<1>4. PICK a : a = Capture([p EXCEPT !.dot = @ + n, !.on = TRUE])
  OBVIOUS
<1>5. /\ a \in [dot : Nat, ly : Lines, mode : Modes, captured : SUBSET Nat, on : {TRUE}]
      /\ a.dot = d + n /\ a.ly = q /\ a.mode = p.mode
      /\ a.captured = IF q < VisibleLines /\ d + n >= SearchDots THEN p.captured \cup {q} ELSE p.captured
  <2>1. PICK b : b = [p EXCEPT !.dot = @ + n, !.on = TRUE]
    OBVIOUS
  <2>2. /\ b \in [dot : Nat, ly : Lines, mode : Modes, captured : SUBSET Nat, on : {TRUE}]
        /\ b.dot = d + n /\ b.ly = q /\ b.mode = p.mode /\ b.captured = p.captured
    <3>1. PICK x \in Nat : x = d + n
      BY <1>2
    <3>2. b = [p EXCEPT !.dot = x, !.on = TRUE]
      BY <1>1, <2>1, <3>1
    <3> QED BY <1>1, <1>3, <3>1, <3>2
  <2>3. PICK rendered \in SUBSET Nat :
            rendered = IF q < VisibleLines /\ d + n >= SearchDots THEN p.captured \cup {q} ELSE p.captured
    BY <1>2, <1>3
  <2>4. a = [b EXCEPT !.captured = rendered]
    BY <2>1, <2>2, <2>3, <1>4 DEF Capture
  <2> QED BY <2>2, <2>3, <2>4
<1>6. CASE d + n < LineDots
  <2>1. r = IF q < VisibleLines THEN [a EXCEPT !.mode = ModeAt(d + n)] ELSE a
    BY <1>2, <1>4, <1>5, <1>6 DEF PpuOn
  <2>2. d + n \in Dots
    BY <1>2, <1>6 DEF Dots
  <2>3. ModeAt(d + n) \in Modes
    BY <2>2, <1>1, ModeOfPlace
  <2>4. /\ r \in [dot : Dots, ly : Lines, mode : Modes, captured : SUBSET Nat, on : BOOLEAN]
        /\ r.dot = d + n /\ r.ly = q /\ r.captured = a.captured /\ r.on = TRUE
        /\ r.mode = IF q < VisibleLines THEN ModeAt(d + n) ELSE p.mode
    BY <2>1, <2>2, <2>3, <1>5
  <2>5. q < VisibleLines => 0 .. q - 1 \subseteq r.captured /\ r.captured \subseteq 0 .. q
    BY <2>4, <1>3, <1>5, <1>2
  <2>6. q >= VisibleLines => r.captured = 0 .. VisibleLines - 1 /\ r.mode = "vblank"
    BY <2>4, <1>2, <1>3, <1>5
  <2>7. PpuRight(r)
    BY <2>4, <2>5, <2>6 DEF PpuRight
  <2>8. ~EntersVBlank(p, TRUE, n)
    BY <1>1, <1>2, <1>6 DEF EntersVBlank
  <2> QED BY <2>4, <2>7, <2>8, <1>1, <1>6 DEF LineAfter, DotAfter
<1>7. CASE ~(d + n < LineDots)
  <2>1. a.dot >= LineDots /\ d + n >= SearchDots
    BY <1>2, <1>5, <1>7, ClockConstants
  <2>2. PICK l \in Lines, e \in Dots : l = (q + 1) % TotalLines /\ e = d + n - LineDots
    BY <1>2, <1>7, NextOf DEF Dots
  <2>3. l = IF q + 1 = TotalLines THEN 0 ELSE q + 1
    BY <2>2, NextOf
  <2>4. l \in Nat
    BY <1>2 DEF Lines
  <2>5. q < VisibleLines => a.captured = 0 .. q
    <3>1. ASSUME q < VisibleLines PROVE a.captured = p.captured \cup {q}
      BY <1>5, <2>1, <3>1
    <3>2. ASSUME q < VisibleLines PROVE 0 .. q - 1 \subseteq p.captured /\ p.captured \subseteq 0 .. q
      BY <3>2, <1>3
    <3>3. 0 .. q = (0 .. q - 1) \cup {q}
      BY <1>2
    <3> QED BY <3>1, <3>2, <3>3
  <2>6. PICK b : b = NextLine(a)
    OBVIOUS
  <2>7. /\ b \in [dot : Dots, ly : Lines, mode : Modes, captured : SUBSET Nat, on : {TRUE}]
        /\ b.dot = e /\ b.ly = l
        /\ b.captured = IF l = 0 THEN {} ELSE a.captured
        /\ b.mode = IF l < VisibleLines THEN "draw" ELSE "vblank"
    <3>1. a.dot - LineDots = e /\ (a.ly + 1) % TotalLines = l
      <4>1. a.dot = d + n /\ a.ly = q
        BY <1>5
      <4> QED BY <4>1, <2>2, <1>2
    <3>2. PICK lines \in SUBSET Nat, mode \in Modes :
              /\ lines = IF l = 0 THEN {} ELSE a.captured
              /\ mode = IF l < VisibleLines THEN "draw" ELSE "vblank"
      BY <1>5
    <3>3. b = [a EXCEPT !.dot = e, !.ly = l, !.captured = lines, !.mode = mode]
      BY <3>1, <3>2, <2>6, <1>5 DEF NextLine
    <3> QED BY <3>2, <3>3, <1>5
  <2>8. PICK c : c = Capture(b)
    OBVIOUS
  <2>9. /\ c \in [dot : Dots, ly : Lines, mode : Modes, captured : SUBSET Nat, on : {TRUE}]
        /\ c.dot = e /\ c.ly = l /\ c.mode = b.mode
        /\ c.captured = IF l < VisibleLines /\ e >= SearchDots THEN b.captured \cup {l} ELSE b.captured
    BY <2>4, <2>7, <2>8 DEF Capture
  <2>10. r = IF l < VisibleLines THEN [c EXCEPT !.mode = ModeAt(e)] ELSE c
    BY <1>4, <1>7, <2>1, <2>6, <2>8, <2>9 DEF PpuOn
  <2>11. ModeAt(e) \in Modes
    BY <1>1, ModeOfPlace
  <2>12. /\ r \in [dot : Dots, ly : Lines, mode : Modes, captured : SUBSET Nat, on : BOOLEAN]
         /\ r.dot = e /\ r.ly = l /\ r.captured = c.captured /\ r.on = TRUE
         /\ r.mode = IF l < VisibleLines THEN ModeAt(e) ELSE b.mode
    BY <2>9, <2>10, <2>11
  <2>13. ASSUME l < VisibleLines
         PROVE  0 .. l - 1 \subseteq r.captured /\ r.captured \subseteq 0 .. l
    <3>1. CASE l = 0
      BY <3>1, <2>7, <2>9, <2>12
    <3>2. CASE l # 0
      <4>1. l = q + 1 /\ q < VisibleLines
        BY <3>2, <2>3, <2>13, <1>2
      <4>2. b.captured = 0 .. q
        BY <3>2, <4>1, <2>5, <2>7
      <4> QED BY <4>1, <4>2, <2>9, <2>12, <1>2
    <3> QED BY <3>1, <3>2
  <2>14. ASSUME l >= VisibleLines
         PROVE  r.captured = 0 .. VisibleLines - 1 /\ r.mode = "vblank"
    <3>1. l # 0 /\ l = q + 1 /\ ~(l < VisibleLines)
      BY <2>3, <2>4, <2>14, <1>2
    <3>2. a.captured = 0 .. VisibleLines - 1
      <4>1. CASE q < VisibleLines
        <5>1. q = VisibleLines - 1
          BY <3>1, <4>1, <2>14, <1>2
        <5> QED BY <5>1, <4>1, <2>5
      <4>2. CASE ~(q < VisibleLines)
        BY <4>2, <1>2, <1>3, <1>5
      <4> QED BY <4>1, <4>2
    <3> QED BY <3>1, <3>2, <2>7, <2>9, <2>12
  <2>15. PpuRight(r)
    BY <2>12, <2>13, <2>14 DEF PpuRight
  <2>16. EntersVBlank(p, TRUE, n) => r.captured = 0 .. VisibleLines - 1
    <3>1. ASSUME EntersVBlank(p, TRUE, n) PROVE l >= VisibleLines
      <4>1. q = VisibleLines - 1
        BY <3>1, <1>1 DEF EntersVBlank
      <4> QED BY <4>1, <2>3, <1>2, ClockConstants
    <3> QED BY <3>1, <2>14
  <2> QED BY <2>2, <2>12, <2>15, <2>16, <1>1, <1>7 DEF LineAfter, DotAfter
<1> QED BY <1>6, <1>7

\* Switched off, it is at the first dot of the first line.
LEMMA PpuOffEffect ==
  ASSUME NEW p, PpuRight(p), NEW r, r = PpuOff(p)
  PROVE  PpuRight(r) /\ r.ly = 0 /\ r.dot = 0 /\ r.on = FALSE
<1>1. 0 \in Dots /\ 0 \in Lines /\ 0 < VisibleLines
  BY ClockConstants DEF Dots, Lines
<1>2. /\ r \in [dot : Dots, ly : Lines, mode : {"search", "draw", "hblank", "vblank"},
                captured : SUBSET Nat, on : BOOLEAN]
      /\ r.dot = 0 /\ r.ly = 0 /\ r.captured = {} /\ r.on = FALSE
  BY <1>1 DEF PpuRight, PpuOff
<1> QED BY <1>1, <1>2, ClockConstants DEF PpuRight
-----------------------------------------------------------------------------
(* The machine's steps.                                                    *)

\* A state the cpu retires an instruction in: its LCD as it was.
Executed(s) ==
    /\ LcdFields \subseteq DOMAIN s
    /\ s.lcd \in BOOLEAN /\ s.lcdLast \in BOOLEAN
    /\ ~s.lcdLast => s.dot = 0

\* Both LCDs take the cycles of an instruction.
LEMMA RetiresKeeps ==
  ASSUME PpuRight(ppu), NEW s, Executed(s), NEW n \in 1 .. LineDots - 1, Retires(s, n)
  PROVE  /\ CpuRight' /\ PpuRight(ppu)' /\ last'.complete
         /\ ~s.lcd \/ s.dot = ppu.ly * LineDots + ppu.dot => Together'
<1>1. PICK p, r, c : p = ppu /\ r = ppu' /\ c = cpu'
  OBVIOUS
<1>2. PICK q \in Lines, d \in Dots : q = p.ly /\ d = p.dot
  BY <1>1 DEF PpuRight
<1>3. /\ q \in Nat /\ q < TotalLines /\ d \in Nat /\ d < LineDots
      /\ n \in Nat /\ n > 0 /\ n < LineDots /\ LineDots \in Nat
      /\ VisibleLines \in Nat /\ VisibleLines > 0 /\ VisibleLines < TotalLines
  BY ClockConstants DEF Lines, Dots
<1>4. c \in Retired(s, n) /\ r = PpuStep(p, s.lcd, n)
  BY <1>1 DEF Retires
<1>5. After(s, c, q, d, n)
  BY <1>4, RetiredEffect DEF Executed
<1>6. PICK frame : frame = EntersVBlank(p, s.lcd, n)
  OBVIOUS
<1>7. /\ last'.interrupt = ("vblank" \in c.requested \ s.requested)
      /\ last'.frame = frame
      /\ last'.complete = (frame => r.captured = 0 .. VisibleLines - 1)
  BY <1>1, <1>6 DEF Retires
<1>8. CASE ~s.lcd
  <2>1. PpuRight(r) /\ r.ly = 0 /\ r.dot = 0 /\ r.on = FALSE
    BY <1>1, <1>4, <1>8, PpuOffEffect DEF PpuStep
  <2>2. frame = FALSE
    BY <1>6, <1>8 DEF EntersVBlank
  <2>3. /\ LcdFields \subseteq DOMAIN c /\ c.lcd = s.lcd /\ c.lcdLast = s.lcd /\ c.dot = 0
        /\ "vblank" \in c.requested <=> "vblank" \in s.requested
    BY <1>3, <1>5, <1>8 DEF After
  <2>4. CpuRight'
    BY <1>1, <1>8, <2>3 DEF CpuRight, Executed
  <2>5. c.dot = r.ly * LineDots + r.dot
    BY <2>1, <2>3, <1>3
  <2>6. Together'
    BY <2>1, <2>2, <2>3, <2>5, <1>1, <1>7 DEF Together
  <2> QED BY <2>1, <2>2, <2>4, <2>6, <1>1, <1>7
<1>9. CASE s.lcd
  <2>1. s.lcd = TRUE
    BY <1>9 DEF Executed
  <2>2. r = PpuOn(p, n)
    BY <2>1, <1>4 DEF PpuStep
  <2>3. /\ PpuRight(r) /\ r.on = TRUE
        /\ r.ly = LineAfter(q, d, n) /\ r.dot = DotAfter(d, n)
        /\ r.ly < VisibleLines => r.mode = ModeAt(r.dot)
        /\ EntersVBlank(p, TRUE, n) => r.captured = 0 .. VisibleLines - 1
    BY <2>2, <1>1, <1>2, PpuOnEffect
  <2>4. /\ LcdFields \subseteq DOMAIN c /\ c.lcd = TRUE /\ c.lcdLast = TRUE /\ From(c) = c.dot
        /\ From(s) = s.dot
    BY <2>1, <1>3, <1>5 DEF After, From, Executed
  <2>5. CpuRight'
    BY <2>4, <1>1 DEF CpuRight
  <2>6. last'.complete
    BY <2>1, <2>3, <1>6, <1>7
  <2>7. frame <=> q = VisibleLines - 1 /\ d + n >= LineDots
    BY <2>1, <1>2, <1>6 DEF EntersVBlank
  <2>8. frame <=> Enters(q, r.ly)
    <3>1. r.ly = IF d + n < LineDots THEN q ELSE IF q + 1 = TotalLines THEN 0 ELSE q + 1
      BY <2>3, NextOf DEF LineAfter
    <3>2. Enters(q, r.ly) <=> q = VisibleLines - 1 /\ d + n >= LineDots
      BY <3>1, <1>3 DEF Enters
    <3> QED BY <3>2, <2>7
  <2>9. ASSUME s.dot = ppu.ly * LineDots + ppu.dot
        PROVE  Together'
    <3>1. From(s) = q * LineDots + d
      BY <2>4, <2>9, <1>1, <1>2
    <3>2. /\ c.dot = r.ly * LineDots + r.dot
          /\ "vblank" \in c.requested <=> "vblank" \in s.requested \/ Enters(q, r.ly)
      BY <2>1, <2>3, <2>4, <3>1, <1>5 DEF After
    <3>3. r.mode = ModeAt(c.dot)
      <4>1. PICK l \in Lines, e \in Dots : l = r.ly /\ e = r.dot
        BY <2>3 DEF PpuRight
      <4>2. ModeAt(c.dot) = IF l < VisibleLines THEN ModeAt(e) ELSE "vblank"
        BY <4>1, <3>2, ModeOfPlace
      <4>3. l >= VisibleLines => r.mode = "vblank"
        BY <4>1, <2>3 DEF PpuRight
      <4>4. l \in Nat
        BY <1>3 DEF Lines
      <4> QED BY <4>1, <4>2, <4>3, <4>4, <2>3, <1>3
    <3>4. last'.interrupt => last'.frame
      BY <3>2, <2>8, <1>7
    <3>5. last'.frame => "vblank" \in c.requested
      BY <3>2, <2>8, <1>7
    <3> QED BY <3>2, <3>3, <3>4, <3>5, <1>1 DEF Together
  <2> QED BY <2>1, <2>3, <2>5, <2>6, <2>9, <1>1
<1> QED BY <1>8, <1>9

\* A step of the machine keeps the LCDs together, whatever its instruction changed.
LEMMA StepKeeps ==
  ASSUME ClockInv, NEW s, NEW n \in 1 .. LineDots - 1, Retires(s, n),
         LcdFields \subseteq DOMAIN s, s.dot = cpu.dot, s.lcdLast = cpu.lcdLast,
         \/ s.lcd = cpu.lcd /\ apart' = apart
         \/ s.lcd = ~cpu.lcd /\ apart' = (apart /\ ~cpu.lcd)
  PROVE  ClockInv'
<1>1. Executed(s)
  BY DEF ClockInv, CpuRight, Executed
<1>2. /\ CpuRight' /\ PpuRight(ppu)' /\ last'.complete
      /\ ~s.lcd \/ s.dot = ppu.ly * LineDots + ppu.dot => Together'
  BY <1>1, RetiresKeeps DEF ClockInv
<1>3. cpu.lcd \in BOOLEAN /\ apart \in BOOLEAN /\ apart' \in BOOLEAN
  BY DEF ClockInv, CpuRight
<1>4. ASSUME ~apart' PROVE ~s.lcd \/ s.dot = ppu.ly * LineDots + ppu.dot
  <2>1. CASE ~apart
    BY <2>1 DEF ClockInv, Together
  <2>2. CASE apart
    BY <2>2, <1>3, <1>4
  <2> QED BY <2>1, <2>2
<1> QED BY <1>2, <1>3, <1>4 DEF ClockInv

LEMMA ClockInvInit == ClockInit => ClockInv
<1> SUFFICES ASSUME ClockInit PROVE ClockInv
  OBVIOUS
<1>1. CpuRight
  BY DEF ClockInit, NewCore, Loaded, CpuRight, LcdFields
<1>2. cpu.dot = 0 /\ ppu.ly = 0 /\ ppu.dot = 0 /\ ppu.on = FALSE
  BY DEF ClockInit, NewCore, Loaded, NewPpu
<1>3. PpuRight(ppu)
  BY ClockConstants DEF ClockInit, NewPpu, PpuRight, Lines, Dots
<1>4. Together
  BY <1>2, ClockConstants DEF Together, ClockInit, NoEvent
<1> QED BY <1>1, <1>3, <1>4 DEF ClockInv, ClockInit, NoEvent

LEMMA ClockInvStep == ClockInv /\ [ClockNext]_clockVars => ClockInv'
<1> SUFFICES ASSUME ClockInv, [ClockNext]_clockVars PROVE ClockInv'
  OBVIOUS
<1>1. /\ IdleCycles \in 1 .. LineDots - 1 /\ EntryCycles \in 1 .. LineDots - 1
      /\ \A n \in InstructionCycles : n \in 1 .. LineDots - 1
  BY ClockAssumption
<1>2. /\ LcdFields \subseteq DOMAIN cpu /\ cpu.lcd \in BOOLEAN /\ cpu.lcdLast \in BOOLEAN
      /\ ~cpu.lcdLast => cpu.dot = 0
  BY DEF ClockInv, CpuRight
<1>3. /\ LcdFields \subseteq DOMAIN Running
      /\ Running.lcd = cpu.lcd /\ Running.dot = cpu.dot /\ Running.lcdLast = cpu.lcdLast
  BY <1>2 DEF Running, LcdFields
<1>4. CASE IdleStep
  BY <1>1, <1>2, <1>4, StepKeeps DEF IdleStep
<1>5. CASE ServiceInterrupt
  <2>1. PICK served : Retires([cpu EXCEPT !.halt = FALSE, !.ime = FALSE, !.enabling = FALSE,
                                !.delay = 0, !.requested = @ \ {served}], EntryCycles)
    BY <1>5 DEF ServiceInterrupt
  <2>2. PICK s : s = [cpu EXCEPT !.halt = FALSE, !.ime = FALSE, !.enabling = FALSE,
                                  !.delay = 0, !.requested = @ \ {served}]
    OBVIOUS
  <2>3. LcdFields \subseteq DOMAIN s /\ s.lcd = cpu.lcd /\ s.dot = cpu.dot /\ s.lcdLast = cpu.lcdLast
    BY <2>2, <1>2 DEF LcdFields
  <2>4. Retires(s, EntryCycles) /\ apart' = apart
    BY <2>1, <2>2, <1>5 DEF ServiceInterrupt
  <2> QED BY <1>1, <2>3, <2>4, StepKeeps
<1>6. ASSUME NEW n \in InstructionCycles, Instruction(n) PROVE ClockInv'
  BY <1>1, <1>3, <1>6, StepKeeps DEF Instruction
<1>7. ASSUME NEW n \in InstructionCycles, CpuControls(n) PROVE ClockInv'
  <2>1. PICK s \in {SetIme(FALSE), SetIme(TRUE), ScheduleImeEnable,
                     [Running EXCEPT !.halt = TRUE], [Running EXCEPT !.stop = TRUE]} : Changes(s, n)
    BY <1>7 DEF CpuControls
  <2>2. LcdFields \subseteq DOMAIN s /\ s.lcd = cpu.lcd /\ s.dot = cpu.dot /\ s.lcdLast = cpu.lcdLast
    BY <2>1, <1>3 DEF LcdFields, SetIme, ScheduleImeEnable
  <2>3. Retires(s, n) /\ apart' = apart
    BY <2>1, <1>7 DEF Changes, CpuControls
  <2> QED BY <1>1, <2>2, <2>3, StepKeeps
<1>8. ASSUME NEW n \in InstructionCycles, DeviceWrites(n) PROVE ClockInv'
  <2>1. PICK s : /\ s \in {[Running EXCEPT !.enabled = v] : v \in IeValues}
                         \cup {[Running EXCEPT !.requested = {}]}
                         \cup {[Running EXCEPT !.sources = v] : v \in StatValues}
                         \cup {[Running EXCEPT !.lyc = (@ + 1) % TotalLines]}
                         \cup {[Running EXCEPT !.timer = ~@]}
                 /\ Changes(s, n)
    BY <1>8 DEF DeviceWrites
  <2>2. LcdFields \subseteq DOMAIN s /\ s.lcd = cpu.lcd /\ s.dot = cpu.dot /\ s.lcdLast = cpu.lcdLast
    BY <2>1, <1>3 DEF LcdFields
  <2>3. Retires(s, n) /\ apart' = apart
    BY <2>1, <1>8 DEF Changes, DeviceWrites
  <2> QED BY <1>1, <2>2, <2>3, StepKeeps
<1>9. ASSUME NEW n \in InstructionCycles, WriteLcdc(n) PROVE ClockInv'
  <2>1. PICK s : s = [Running EXCEPT !.lcd = ~@]
    OBVIOUS
  <2>2. LcdFields \subseteq DOMAIN s /\ s.lcd = ~cpu.lcd /\ s.dot = cpu.dot /\ s.lcdLast = cpu.lcdLast
    BY <2>1, <1>3 DEF LcdFields
  <2>3. Retires(s, n) /\ apart' = (apart /\ ~cpu.lcd)
    BY <2>1, <1>9 DEF Changes, WriteLcdc
  <2> QED BY <1>1, <2>2, <2>3, StepKeeps
<1>10. CASE PressKey
  <2>1. PICK raised \in SUBSET {"joypad"} :
            cpu' = [cpu EXCEPT !.stop = FALSE, !.requested = @ \cup raised]
    BY <1>10 DEF PressKey
  <2>2. /\ LcdFields \subseteq DOMAIN cpu' /\ cpu'.lcd = cpu.lcd
        /\ cpu'.dot = cpu.dot /\ cpu'.lcdLast = cpu.lcdLast
    BY <2>1, <1>2 DEF LcdFields
  <2>3. ppu' = ppu /\ apart' = apart /\ last' = NoEvent
    BY <1>10 DEF PressKey
  <2>4. CpuRight' /\ PpuRight(ppu)'
    BY <2>2, <2>3, <1>2 DEF CpuRight, PpuRight, ClockInv
  <2>5. Together => Together'
    BY <2>2, <2>3 DEF Together, NoEvent
  <2> QED BY <2>3, <2>4, <2>5 DEF ClockInv, NoEvent
<1>11. CASE LoadRom
  <2>1. PICK u : u = DividerSet(cpu, 0)
    OBVIOUS
  <2>2. LcdFields \subseteq DOMAIN u /\ u.dot = cpu.dot /\ u.lcdLast = cpu.lcdLast
    BY <2>1, <1>2 DEF DividerSet, LcdFields
  <2>3. cpu' = Loaded(u) /\ ppu' = NewPpu /\ last' = NoEvent /\ apart' = cpu.lcdLast
    BY <2>1, <1>11 DEF LoadRom
  <2>4. /\ LcdFields \subseteq DOMAIN cpu' /\ cpu'.lcd = TRUE
        /\ cpu'.dot = cpu.dot /\ cpu'.lcdLast = cpu.lcdLast
    BY <2>2, <2>3 DEF Loaded, LcdFields
  <2>5. CpuRight'
    BY <2>4, <1>2 DEF CpuRight
  <2>6. PpuRight(ppu)'
    BY <2>3, ClockConstants DEF NewPpu, PpuRight, Lines, Dots
  <2>7. ~apart' => Together'
    <3>1. ppu'.ly = 0 /\ ppu'.dot = 0 /\ ppu'.on = FALSE
      BY <2>3 DEF NewPpu
    <3>2. 0 = 0 * LineDots + 0
      BY ClockConstants
    <3> QED BY <2>3, <2>4, <1>2, <3>1, <3>2 DEF Together, NoEvent
  <2> QED BY <2>3, <2>5, <2>6, <2>7, <1>2 DEF ClockInv, NoEvent
<1>12. CASE UNCHANGED clockVars
  BY <1>12 DEF clockVars, ClockInv, CpuRight, PpuRight, Together
<1> QED BY <1>4, <1>5, <1>6, <1>7, <1>8, <1>9, <1>10, <1>11, <1>12 DEF ClockNext, ClockStep

\* The core's LCD, which raises VBlank's interrupt, and the PPU, which renders the
\* lines and announces the frame, stay at the same dot in the same mode, and every
\* line of an announced frame has been rendered, until a program is loaded with the
\* LCD on (GameBoyMachine's step and loadRom).
THEOREM LcdsStayTogether == ClockSpec => []LcdsAgree
<1>1. ClockInit => ClockInv
  BY ClockInvInit
<1>2. ClockInv /\ [ClockNext]_clockVars => ClockInv'
  BY ClockInvStep
<1>3. ClockInv => LcdsAgree
  BY DEF ClockInv, Together, LcdsAgree
<1> QED BY <1>1, <1>2, <1>3, PTL DEF ClockSpec

-----------------------------------------------------------------------------
(* The Game Gear's cartridge.                                              *)

GearFields ==
    {"kind", "banks", "control", "sram", "dirty", "extra", "extraMapped", "extraDirty"}
Ram == [1 .. 2 -> Nat]

\* A mapper: the Codemasters RAM is there before it is mapped.
MapperRight(g) ==
    /\ GearFields \subseteq DOMAIN g
    /\ g.sram \in Ram /\ g.extra \in Nat \cup {NoRam} /\ g.extraMapped \in BOOLEAN
    /\ g.extraMapped => g.extra \in Nat

BiosRight(b) == {"present", "control"} \subseteq DOMAIN b

\* A save file: none, the Codemasters RAM, or the two windows of the others.
SaveRight(save) ==
    \/ save = NoSave
    \/ save.extra \in Nat
    \/ save.extra = NoRam /\ save.sram \in Ram

\* The next start makes a Codemasters mapper just where this one has.
KindRight(r, g) == Codemasters(g) <=> MapperKind(r, TRUE) = "codemasters"

FilesRight ==
    HasRom => DOMAIN gearFile = GearCartridges /\ \A c \in GearCartridges : SaveRight(gearFile[c])

StateRight ==
    gearState # NoGearState =>
        /\ gearState.rom \in GearCartridges /\ MapperRight(gearState.gear)
        /\ KindRight(gearState.rom, gearState.gear) /\ BiosRight(gearState.bios)

GearInv ==
    /\ rom \in GearCartridges \cup {NoRom}
    /\ MapperRight(gear) /\ (HasRom => KindRight(rom, gear))
    /\ BiosRight(bios) /\ codeGeneration \in Nat
    /\ FilesRight /\ StateRight /\ GearCleanMeansSaved

LEMMA PairIsRam == ASSUME NEW x \in Nat, NEW y \in Nat PROVE <<x, y>> \in Ram
BY DEF Ram

LEMMA NoSaveIsNoRam == NoSave.sram \notin Ram /\ NoSave.extra = NoRam
BY DEF NoSave, Ram, NoRam

LEMMA NoRomIsNone == NoRom \notin GearCartridges
<1> SUFFICES ASSUME NoRom \in RomHints PROVE FALSE
  BY GearAssumption
<1>1. NoRom.size \in Chips
  BY DEF RomHints
<1> QED BY <1>1 DEF NoRom, Chips

LEMMA ResetRight ==
    ASSUME NEW r, NEW g, GearFields \subseteq DOMAIN g, g.sram \in Ram
    PROVE  /\ MapperRight(Reset(r, g)) /\ Reset(r, g).sram = g.sram /\ Reset(r, g).kind = g.kind
           /\ Reset(r, g).extra = NoRam
BY DEF MapperRight, Reset, GearFields, NoRam

LEMMA NewMapperRight ==
    ASSUME NEW r, NEW kind
    PROVE  MapperRight(NewMapper(r, kind)) /\ NewMapper(r, kind).kind = kind
<1> DEFINE g == [kind |-> kind, banks |-> <<0, 0, 0>>, control |-> 0, sram |-> <<0, 0>>, dirty |-> FALSE,
                 extra |-> NoRam, extraMapped |-> FALSE, extraDirty |-> FALSE]
<1>1. GearFields \subseteq DOMAIN g /\ g.sram \in Ram /\ g.kind = kind
  BY PairIsRam DEF GearFields
<1> QED BY <1>1, ResetRight DEF NewMapper

LEMMA ImportRight ==
    ASSUME NEW g, MapperRight(g), NEW save, SaveRight(save)
    PROVE  LET h == ImportSave(g, save) IN
           GearFields \subseteq DOMAIN h /\ h.sram \in Ram /\ h.kind = g.kind
<1>1. CASE save = NoSave \/ ~SupportsSaveData(g)
  BY <1>1 DEF ImportSave, MarkSaveClean, MapperRight, GearFields
<1>2. CASE save # NoSave /\ SupportsSaveData(g) /\ Codemasters(g) /\ save.extra # NoRam
  BY <1>2 DEF ImportSave, MapperRight, GearFields
<1>3. CASE save # NoSave /\ SupportsSaveData(g) /\ ~(Codemasters(g) /\ save.extra # NoRam)
  <2>1. PICK s \in Ram : s = IF save.extra # NoRam THEN <<save.extra, 0>> ELSE save.sram
    <3>1. CASE save.extra # NoRam
      <4>1. save.extra \in Nat
        BY <1>3, <3>1 DEF SaveRight
      <4> QED BY <3>1, <4>1, PairIsRam
    <3>2. CASE save.extra = NoRam
      <4>1. save.extra \notin Nat
        BY <3>2 DEF NoRam
      <4>2. save.sram \in Ram
        BY <1>3, <4>1 DEF SaveRight
      <4> QED BY <3>2, <4>2
    <3> QED BY <3>1, <3>2
  <2>2. ImportSave(g, save) = [g EXCEPT !.sram = s, !.dirty = FALSE]
    BY <1>3, <2>1 DEF ImportSave
  <2> QED BY <2>2 DEF MapperRight, GearFields
<1> QED BY <1>1, <1>2, <1>3

LEMMA StartedRight ==
    ASSUME NEW r, NEW save, SaveRight(save)
    PROVE  /\ MapperRight(Started(r, save)) /\ KindRight(r, Started(r, save))
           /\ Started(r, save).extra = NoRam
           /\ Started(r, save).kind = MapperKind(r, TRUE)
<1> DEFINE n == NewMapper(r, MapperKind(r, TRUE))
<1> DEFINE h == ImportSave(n, save)
<1>1. MapperRight(n) /\ n.kind = MapperKind(r, TRUE)
  BY NewMapperRight
<1>2. GearFields \subseteq DOMAIN h /\ h.sram \in Ram /\ h.kind = n.kind
  <2> HIDE DEF n
  <2> QED BY <1>1, ImportRight
<1>3. Started(r, save) = Reset(r, h)
  BY DEF Started
<1> HIDE DEF h, n
<1>4. /\ MapperRight(Reset(r, h)) /\ Reset(r, h).kind = h.kind /\ Reset(r, h).extra = NoRam
  BY <1>2, ResetRight
<1>5. Started(r, save).kind = MapperKind(r, TRUE)
  BY <1>1, <1>2, <1>3, <1>4
<1>6. KindRight(r, Started(r, save))
  BY <1>5 DEF KindRight, Codemasters
<1> QED BY <1>3, <1>4, <1>5, <1>6

\* What is saved of the two windows is what the next start finds.
LEMMA StartedFinds ==
    ASSUME NEW r, NEW s \in Ram, NEW save, save = [sram |-> s, extra |-> NoRam],
           MapperKind(r, TRUE) # "5365"
    PROVE  Started(r, save).sram = s
<1> DEFINE n == NewMapper(r, MapperKind(r, TRUE))
<1>1. MapperRight(n) /\ n.kind = MapperKind(r, TRUE)
  BY NewMapperRight
<1>2. save # NoSave /\ SupportsSaveData(n) /\ save.extra = NoRam /\ save.sram = s
  BY <1>1, NoSaveIsNoRam DEF SupportsSaveData, NoSave
<1> HIDE DEF n
<1>3. ImportSave(n, save) = [n EXCEPT !.sram = s, !.dirty = FALSE]
  BY <1>2 DEF ImportSave
<1>4. PICK h : h = [n EXCEPT !.sram = s, !.dirty = FALSE]
  OBVIOUS
<1>5. GearFields \subseteq DOMAIN h /\ h.sram = s
  BY <1>1, <1>4 DEF MapperRight, GearFields
<1>6. Started(r, save) = Reset(r, h)
  BY <1>3, <1>4 DEF Started, n
<1> QED BY <1>5, <1>6, ResetRight

LEMMA WriteBankRight ==
    ASSUME NEW g, MapperRight(g), NEW n, NEW v
    PROVE  LET h == WriteBank(g, n, v) IN
           /\ MapperRight(h) /\ h.kind = g.kind /\ h.sram = g.sram /\ h.extra = g.extra
           /\ h.dirty = g.dirty /\ h.extraDirty = g.extraDirty
BY DEF WriteBank, MapperRight, GearFields

LEMMA ControlWriteRight ==
    ASSUME NEW g, MapperRight(g), NEW a, NEW v \in Nat
    PROVE  LET h == ControlWrite(g, a, v) IN
           /\ MapperRight(h) /\ h.kind = g.kind /\ h.sram = g.sram
           /\ h.dirty = g.dirty /\ h.extraDirty = g.extraDirty
           /\ h.extra = NoRam => g.extra = NoRam
<1>1. CASE ~Codemasters(g)
  BY <1>1, WriteBankRight DEF ControlWrite
<1>2. CASE Codemasters(g)
  <2> DEFINE slot == a \div 16384
             b == WriteBank(g, slot + 1, v % 128)
             e == IF v >= 128 /\ b.extra = NoRam THEN 0 ELSE b.extra
  <2>1. /\ MapperRight(b) /\ b.kind = g.kind /\ b.sram = g.sram /\ b.extra = g.extra
        /\ b.dirty = g.dirty /\ b.extraDirty = g.extraDirty
    BY WriteBankRight
  <2>2. ControlWrite(g, a, v) = IF slot # 1 THEN b ELSE [b EXCEPT !.extraMapped = v >= 128, !.extra = e]
    BY <1>2 DEF ControlWrite, WriteSlot
  <2>3. e \in Nat \cup {NoRam} /\ (v >= 128 => e \in Nat) /\ (e = NoRam => b.extra = NoRam)
    BY <2>1 DEF MapperRight, NoRam
  <2> HIDE DEF b, slot, e
  <2>4. CASE slot # 1
    BY <2>1, <2>2, <2>4
  <2>5. CASE slot = 1
    <3>1. CASE v >= 128
      <4>1. ControlWrite(g, a, v) = [b EXCEPT !.extraMapped = TRUE, !.extra = e]
        BY <2>2, <2>5, <3>1
      <4> QED BY <2>1, <2>3, <3>1, <4>1 DEF MapperRight, GearFields
    <3>2. CASE ~(v >= 128)
      <4>1. ControlWrite(g, a, v) = [b EXCEPT !.extraMapped = FALSE, !.extra = e]
        <5>1. (v >= 128) = FALSE
          BY <3>2
        <5>2. ControlWrite(g, a, v) = [b EXCEPT !.extraMapped = v >= 128, !.extra = e]
          BY <2>2, <2>5
        <5> QED BY <5>1, <5>2
      <4> QED BY <2>1, <2>3, <3>2, <4>1 DEF MapperRight, GearFields
    <3> QED BY <3>1, <3>2
  <2> QED BY <2>4, <2>5
<1> QED BY <1>1, <1>2

\* A write to the RAM moves nothing: what it may change is the RAM, and then the
\* flag that it is not saved.
LEMMA MappedWriteRight ==
    ASSUME NEW g, MapperRight(g), NEW a, NEW v \in Nat
    PROVE  LET h == MappedWrite(g, a, v) IN
           /\ MapperRight(h) /\ h.kind = g.kind /\ h.banks = g.banks
           /\ h.control = g.control /\ h.extraMapped = g.extraMapped
           /\ h.extra = NoRam => g.extra = NoRam
           /\ h.dirty = TRUE \/ (h.sram = g.sram /\ h.dirty = g.dirty)
           /\ h.extraDirty = TRUE \/ h.extraDirty = g.extraDirty
<1>1. CASE ExtraAt(g, a)
  BY <1>1 DEF MappedWrite, MapperRight, GearFields, NoRam
<1>2. CASE ~ExtraAt(g, a) /\ g.sram[SramWindow(g)] = v
  BY <1>2 DEF MappedWrite
<1>3. CASE ~ExtraAt(g, a) /\ g.sram[SramWindow(g)] # v
  <2>1. PICK s : s = [g.sram EXCEPT ![SramWindow(g)] = v]
    OBVIOUS
  <2>2. s \in Ram
    BY <2>1 DEF MapperRight, Ram
  <2>3. MappedWrite(g, a, v) = [g EXCEPT !.sram = s, !.dirty = TRUE]
    BY <1>3, <2>1 DEF MappedWrite
  <2> QED BY <2>2, <2>3 DEF MapperRight, GearFields
<1> QED BY <1>1, <1>2, <1>3

LEMMA MarkSaveCleanRight ==
    ASSUME NEW g, MapperRight(g)
    PROVE  LET h == MarkSaveClean(g) IN
           /\ MapperRight(h) /\ h.kind = g.kind /\ h.sram = g.sram /\ h.extra = g.extra
           /\ h.banks = g.banks /\ h.control = g.control /\ h.extraMapped = g.extraMapped
BY DEF MarkSaveClean, MapperRight, GearFields

\* What is saved of a right mapper is a right save, and of two windows those windows.
LEMMA ExportRight ==
    ASSUME NEW g, MapperRight(g)
    PROVE  LET save == ExportSaveData(g) IN
           /\ SaveRight(save)
           /\ save.extra = NoRam => save = [sram |-> g.sram, extra |-> NoRam]
BY DEF ExportSaveData, MapperRight, SaveRight, NoRam

LEMMA SavedRight ==
    ASSUME NEW r, NEW g, MapperRight(g), NEW files,
           DOMAIN files = GearCartridges, \A c \in GearCartridges : SaveRight(files[c])
    PROVE  /\ DOMAIN Saved(r, g, files) = GearCartridges
           /\ \A c \in GearCartridges : SaveRight(Saved(r, g, files)[c])
<1>1. PICK save : save = ExportSaveData(g)
  OBVIOUS
<1>2. SaveRight(save)
  BY <1>1, ExportRight
<1>3. Saved(r, g, files) = files \/ Saved(r, g, files) = [files EXCEPT ![r] = save]
  BY <1>1 DEF Saved
<1> QED BY <1>2, <1>3

LEMMA GearInvInit == GearInit => GearInv
<1> SUFFICES ASSUME GearInit PROVE GearInv
  OBVIOUS
<1>1. ~HasRom
  BY DEF GearInit, HasRom
<1>2. MapperRight(gear)
  BY NewMapperRight DEF GearInit
<1>3. BiosRight(bios) /\ codeGeneration \in Nat /\ rom = NoRom /\ gearState = NoGearState
  BY DEF GearInit, BiosRight
<1> QED BY <1>1, <1>2, <1>3 DEF GearInv, FilesRight, StateRight, GearCleanMeansSaved

\* A start: of a file that is right, it is clean and what it found.
LEMMA StartKeeps ==
    ASSUME GearInv, InsertRom
    PROVE  GearInv'
<1>1. PICK r \in GearCartridges :
          /\ rom' = r /\ gear' = Started(r, gearFile'[r])
          /\ gearFile' = IF HasRom THEN Saved(rom, gear, gearFile) ELSE [c \in GearCartridges |-> NoSave]
  BY DEF InsertRom
<1>2. DOMAIN gearFile' = GearCartridges /\ \A c \in GearCartridges : SaveRight(gearFile'[c])
  <2>1. CASE HasRom
    BY <1>1, <2>1, SavedRight DEF GearInv, FilesRight
  <2>2. CASE ~HasRom
    BY <1>1, <2>2 DEF SaveRight
  <2> QED BY <2>1, <2>2
<1>3. MapperRight(gear)' /\ KindRight(rom, gear)'
  BY <1>1, <1>2, StartedRight
<1>4. BiosRight(bios)' /\ codeGeneration' \in Nat
  BY DEF InsertRom, GearInv, BiosRight
<1>5. gearState' = gearState
  BY DEF InsertRom
<1>6. GearCleanMeansSaved'
  BY <1>1 DEF GearCleanMeansSaved
<1> QED BY <1>1, <1>2, <1>3, <1>4, <1>5, <1>6 DEF GearInv, FilesRight, StateRight

LEMMA WriteKeeps ==
    ASSUME GearInv, WriteMemory
    PROVE  GearInv'
<1>1. PICK a \in GearAddresses, v \in GearValues :
          \/ HandlesControlWrite(gear, a) /\ gear' = ControlWrite(gear, a, v)
                /\ codeGeneration' = codeGeneration + 1
          \/ gear' = MappedWrite(gear, a, v) /\ codeGeneration' = codeGeneration
  BY DEF WriteMemory
<1>2. v \in Nat /\ HasRom /\ MapperRight(gear)
  BY GearAssumption DEF WriteMemory, GearInv
<1>3. UNCHANGED <<rom, bios, gearFile, gearState, gearRewound>>
  BY DEF WriteMemory
<1>4. /\ MapperRight(gear') /\ gear'.kind = gear.kind
      /\ gear'.extra = NoRam => gear.extra = NoRam
      /\ \/ gear'.dirty = TRUE
         \/ gear'.sram = gear.sram /\ gear'.dirty = gear.dirty
              /\ (gear'.extraDirty = TRUE \/ gear'.extraDirty = gear.extraDirty)
  <2>1. CASE gear' = ControlWrite(gear, a, v)
    BY <1>2, <2>1, ControlWriteRight
  <2>2. CASE gear' = MappedWrite(gear, a, v)
    BY <1>2, <2>2, MappedWriteRight, ZenonT(20)
  <2> QED BY <1>1, <2>1, <2>2
<1>5. KindRight(rom, gear)'
  BY <1>2, <1>3, <1>4 DEF KindRight, Codemasters, GearInv
<1>6. GearCleanMeansSaved'
  <2> SUFFICES ASSUME ~HasDirtySaveData(gear'), ~gearRewound', gear'.extra = NoRam,
                      SupportsSaveData(Started(rom, gearFile[rom])), gearFile[rom].extra = NoRam
               PROVE  gear'.sram = Started(rom, gearFile[rom]).sram
    BY <1>3 DEF GearCleanMeansSaved
  <2>1. gear'.sram = gear.sram /\ ~HasDirtySaveData(gear)
    BY <1>4 DEF HasDirtySaveData, Codemasters
  <2> QED BY <1>2, <1>3, <1>4, <2>1 DEF GearInv, GearCleanMeansSaved
<1>7. codeGeneration' \in Nat
  BY <1>1 DEF GearInv
<1> QED BY <1>2, <1>3, <1>4, <1>5, <1>6, <1>7
        DEF GearInv, FilesRight, StateRight, HasRom

LEMMA FlushKeeps ==
    ASSUME GearInv, FlushGearSave
    PROVE  GearInv'
<1>1. /\ HasRom /\ SupportsSaveData(gear) /\ HasDirtySaveData(gear)
      /\ gearFile' = Saved(rom, gear, gearFile) /\ gear' = MarkSaveClean(gear)
      /\ UNCHANGED <<rom, bios, codeGeneration, gearState>>
  BY DEF FlushGearSave
<1>2. MapperRight(gear) /\ rom \in GearCartridges /\ KindRight(rom, gear)
  BY <1>1 DEF GearInv, HasRom
<1>3. /\ MapperRight(gear') /\ gear'.kind = gear.kind
      /\ gear'.sram = gear.sram /\ gear'.extra = gear.extra
  BY <1>1, <1>2, MarkSaveCleanRight
<1>4. DOMAIN gearFile' = GearCartridges /\ \A c \in GearCartridges : SaveRight(gearFile'[c])
  BY <1>1, <1>2, SavedRight DEF GearInv, FilesRight
<1>5. gearFile'[rom] = ExportSaveData(gear)
  BY <1>1, <1>2 DEF Saved, GearInv, FilesRight, HasRom
<1>6. GearCleanMeansSaved'
  <2> DEFINE save == ExportSaveData(gear)
  <2> SUFFICES ASSUME SupportsSaveData(Started(rom, save)), save.extra = NoRam
               PROVE  gear'.sram = Started(rom, save).sram
    BY <1>1, <1>5 DEF GearCleanMeansSaved
  <2>1. save = [sram |-> gear.sram, extra |-> NoRam]
    BY <1>2, ExportRight
  <2>2. MapperKind(rom, TRUE) # "5365"
    <3>1. SaveRight(save)
      BY <1>2, ExportRight
    <3> HIDE DEF save
    <3> QED BY <3>1, StartedRight DEF SupportsSaveData
  <2>3. gear.sram \in Ram
    BY <1>2 DEF MapperRight
  <2> HIDE DEF save
  <2> QED BY <1>3, <2>1, <2>2, <2>3, StartedFinds
<1> QED BY <1>1, <1>2, <1>3, <1>4, <1>6
        DEF GearInv, FilesRight, StateRight, HasRom, KindRight, Codemasters

LEMMA LoadKeeps ==
    ASSUME GearInv, LoadGearState
    PROVE  GearInv'
<1>1. /\ HasRom /\ gearState.rom = rom /\ Imports(MapperKind(rom, FALSE), gearState.gear)
      /\ gear' = [gearState.gear EXCEPT !.kind = MapperKind(rom, FALSE)]
      /\ bios' = gearState.bios /\ codeGeneration' = codeGeneration + 2 /\ gearRewound' = TRUE
      /\ UNCHANGED <<rom, gearFile, gearState>>
  BY DEF LoadGearState
<1>2. gearState # NoGearState
  BY <1>1 DEF NoGearState, HasRom
<1>3. /\ MapperRight(gearState.gear) /\ KindRight(rom, gearState.gear) /\ BiosRight(bios')
  BY <1>1, <1>2 DEF GearInv, StateRight
<1>4. MapperRight(gear') /\ gear'.kind = MapperKind(rom, FALSE)
  BY <1>1, <1>3 DEF MapperRight, GearFields
<1>5. KindRight(rom, gear')
  BY <1>1, <1>3, <1>4 DEF KindRight, Codemasters, Imports
<1>6. GearCleanMeansSaved'
  BY <1>1 DEF GearCleanMeansSaved
<1> QED BY <1>1, <1>3, <1>4, <1>5, <1>6 DEF GearInv, FilesRight, StateRight, HasRom

LEMMA GearInvStep == GearInv /\ [GearNext]_gearVars => GearInv'
<1> SUFFICES ASSUME GearInv, [GearNext]_gearVars PROVE GearInv'
  OBVIOUS
<1>1. CASE InsertBios
  <2>1. BiosRight(bios)' /\ codeGeneration' \in Nat
    <3>1. bios' = [bios EXCEPT !.present = TRUE] /\ codeGeneration' = codeGeneration + 1
      BY <1>1 DEF InsertBios
    <3> QED BY <3>1 DEF BiosRight, GearInv
  <2>2. UNCHANGED <<rom, gear, gearFile, gearState, gearRewound>>
    BY <1>1 DEF InsertBios
  <2> QED BY <2>1, <2>2 DEF GearInv, FilesRight, StateRight, HasRom, GearCleanMeansSaved
<1>2. CASE WriteMemoryControl
  <2>1. PICK v \in GearValues :
            /\ bios' = [bios EXCEPT !.control = v]
            /\ codeGeneration' = codeGeneration + 1 \/ codeGeneration' = codeGeneration
    BY <1>2 DEF WriteMemoryControl
  <2>2. v \in Nat
    BY GearAssumption
  <2>3. BiosRight(bios)' /\ codeGeneration' \in Nat
    BY <2>1, <2>2 DEF GearInv, BiosRight
  <2>4. UNCHANGED <<rom, gear, gearFile, gearState, gearRewound>>
    BY <1>2 DEF WriteMemoryControl
  <2> QED BY <2>3, <2>4 DEF GearInv, FilesRight, StateRight, HasRom, GearCleanMeansSaved
<1>3. CASE SaveGearState
  <2>1. /\ HasRom /\ gearState' = [rom |-> rom, gear |-> gear, bios |-> bios]
        /\ UNCHANGED <<rom, gear, bios, codeGeneration, gearFile, gearRewound>>
    BY <1>3 DEF SaveGearState
  <2>2. /\ gearState'.rom \in GearCartridges /\ MapperRight(gearState'.gear)
        /\ KindRight(gearState'.rom, gearState'.gear) /\ BiosRight(gearState'.bios)
    BY <2>1 DEF GearInv, HasRom
  <2> QED BY <2>1, <2>2 DEF GearInv, FilesRight, StateRight, HasRom, GearCleanMeansSaved
<1>4. CASE UNCHANGED gearVars
  BY <1>4 DEF gearVars, GearInv, FilesRight, StateRight, HasRom, GearCleanMeansSaved
<1> QED BY <1>1, <1>2, <1>3, <1>4, StartKeeps, WriteKeeps, FlushKeeps, LoadKeeps DEF GearNext

LEMMA GearStatesLoad == GearInv => GearOwnStatesLoad
<1> SUFFICES ASSUME GearInv, gearState # NoGearState, gearState.rom.name = "none"
             PROVE  Imports(MapperKind(gearState.rom, FALSE), gearState.gear)
  BY DEF GearOwnStatesLoad
<1>1. KindRight(gearState.rom, gearState.gear)
  BY DEF GearInv, StateRight
<1>2. MapperKind(gearState.rom, TRUE) = MapperKind(gearState.rom, FALSE)
  BY DEF MapperKind
<1> QED BY <1>1, <1>2 DEF KindRight, Imports

\* Below the RAM, where the BIOS is not, the cartridge is read, by the same rule
\* by which it is executed, and the debugger names what it finds.
LEMMA GearReads == GearCodeIsWhatIsRead
<1>1. ASSUME NEW a \in Nat, CodeCell(a)[1] # "none" PROVE CodeCell(a) = ReadCell(a)
  <2>1. CASE a \in InputPorts \/ a >= 65024
    <3>1. CodeCell(a) = <<"none">>
      BY <2>1 DEF CodeCell, InputPorts
    <3> QED BY <1>1, <3>1
  <2>2. CASE ~(a \in InputPorts \/ a >= 65024)
    BY <2>2 DEF CodeCell, ReadCell
  <2> QED BY <2>1, <2>2
<1>2. ASSUME NEW a \in Nat, GearLocation(a)[1] \in {1, 2}
      PROVE  \/ BiosMapped /\ a < 1024 /\ GearLocation(a) = <<2, 0, a>> /\ ReadCell(a) = <<"bios", a>>
             \/ \E bank : /\ GearLocation(a) = <<1, bank, a % 16384>>
                          /\ ReadCell(a) = <<"rom", bank, a % 16384>>
  <2>1. CASE BiosMapped /\ a < 1024
    <3>1. GearLocation(a) = <<2, 0, a>>
      BY <2>1 DEF GearLocation, ExtraAt
    <3>2. ReadCell(a) = <<"bios", a>>
      BY <2>1 DEF ReadCell
    <3> QED BY <2>1, <3>1, <3>2
  <2>2. CASE ~(BiosMapped /\ a < 1024)
    <3>1. a \notin InputPorts
      BY <1>2, <2>2 DEF GearLocation
    <3>2. ~ExtraAt(gear, a)
      BY <1>2, <2>2, <3>1 DEF GearLocation
    <3>3. a < 49152
      BY <1>2, <2>2, <3>1, <3>2 DEF GearLocation
    <3>4. ~(a >= 32768 /\ SramEnabled(gear))
      BY <1>2, <2>2, <3>1, <3>2, <3>3 DEF GearLocation
    <3>5. GearLocation(a) = <<1, CartridgeCell(rom, gear, a)[2], a % 16384>>
      BY <2>2, <3>1, <3>2, <3>3, <3>4 DEF GearLocation
    <3>6. PICK bank : CartridgeCell(rom, gear, a) = <<"rom", bank, a % 16384>>
      BY <3>2, <3>4 DEF CartridgeCell
    <3>7. ReadCell(a) = CartridgeCell(rom, gear, a)
      BY <2>2, <3>1, <3>3 DEF ReadCell
    <3> QED BY <3>5, <3>6, <3>7
  <2> QED BY <2>1, <2>2
<1>3. ASSUME NEW a \in Nat, NEW b \in Nat,
             GearLocation(a) = GearLocation(b), GearLocation(a)[1] \in {1, 2}
      PROVE  ReadCell(a) = ReadCell(b)
  BY <1>2, <1>3
<1> QED BY <1>1, <1>3, GearAssumption DEF GearCodeIsWhatIsRead

\* The cartridge's code is where its mapping says.
LEMMA SameMapping ==
    ASSUME NEW r, NEW g, NEW h, NEW a, h.kind = g.kind, h.banks = g.banks, h.control = g.control,
           h.extraMapped = g.extraMapped
    PROVE  CartridgeCell(r, h, a) = CartridgeCell(r, g, a)
<1>1. ExtraAt(h, a) = ExtraAt(g, a) /\ SramEnabled(h) = SramEnabled(g) /\ SramWindow(h) = SramWindow(g)
  BY DEF ExtraAt, Codemasters, SramEnabled, SramWindow
<1>2. \A p : PageBank(r, h, p) = PageBank(r, g, p)
  BY DEF PageBank
<1> QED BY <1>1, <1>2 DEF CartridgeCell

\* A step after which the generation is what it was has moved nothing.
LEMMA QuietStep ==
    ASSUME GearInv, [GearNext]_gearVars, codeGeneration' = codeGeneration
    PROVE  /\ rom' = rom /\ bios'.present = bios.present /\ bios'.control = bios.control
           /\ gear'.kind = gear.kind /\ gear'.banks = gear.banks
           /\ gear'.control = gear.control /\ gear'.extraMapped = gear.extraMapped
<1>1. codeGeneration \in Nat /\ MapperRight(gear)
  BY DEF GearInv
<1>2. CASE WriteMemory
  <2>1. PICK a \in GearAddresses, v \in GearValues :
            \/ codeGeneration' = codeGeneration + 1
            \/ gear' = MappedWrite(gear, a, v)
    BY <1>2 DEF WriteMemory
  <2>2. gear' = MappedWrite(gear, a, v) /\ v \in Nat
    BY <1>1, <2>1, GearAssumption
  <2>3. UNCHANGED <<rom, bios>>
    BY <1>2 DEF WriteMemory
  <2> QED BY <1>1, <2>2, <2>3, MappedWriteRight, ZenonT(20)
<1>3. CASE WriteMemoryControl
  <2>1. PICK v \in GearValues :
            /\ bios' = [bios EXCEPT !.control = v]
            /\ codeGeneration' = IF bios.control # v THEN codeGeneration + 1 ELSE codeGeneration
    BY <1>3 DEF WriteMemoryControl
  <2>2. bios.control = v
    BY <1>1, <2>1
  <2>3. bios'.present = bios.present /\ bios'.control = bios.control
    BY <2>1, <2>2 DEF GearInv, BiosRight
  <2>4. UNCHANGED <<rom, gear>>
    BY <1>3 DEF WriteMemoryControl
  <2> QED BY <2>3, <2>4
<1>4. CASE FlushGearSave
  <2>1. gear' = MarkSaveClean(gear) /\ UNCHANGED <<rom, bios>>
    BY <1>4 DEF FlushGearSave
  <2> QED BY <1>1, <2>1, MarkSaveCleanRight
<1>5. CASE SaveGearState \/ UNCHANGED gearVars
  BY <1>5 DEF SaveGearState, gearVars
<1>6. ~(InsertRom \/ InsertBios \/ LoadGearState)
  <2>1. codeGeneration' # codeGeneration + 1 /\ codeGeneration' # codeGeneration + 2
    BY <1>1
  <2> QED BY <2>1 DEF InsertRom, InsertBios, LoadGearState
<1> QED BY <1>2, <1>3, <1>4, <1>5, <1>6 DEF GearNext

LEMMA CodeStays ==
    ASSUME GearInv, [GearNext]_gearVars, codeGeneration' = codeGeneration, NEW a
    PROVE  CodeCell(a)' = CodeCell(a)
<1>1. CartridgeCell(rom, gear, a)' = CartridgeCell(rom, gear, a)
  BY QuietStep, SameMapping
<1>2. BiosMapped' = BiosMapped
  BY QuietStep DEF BiosMapped
<1> QED BY <1>1, <1>2 DEF CodeCell

-----------------------------------------------------------------------------
(* The Game Boy's cartridge: its bank registers, twice.                    *)

LEMMA BankCounts ==
    ASSUME NEW g, g.banks \in Nat, g.banks >= 2
    PROVE  RomBankCount(g) = g.banks /\ BankCount(g) = g.banks
<1>1. \A x \in {g.banks, 2} : x <= g.banks
  OBVIOUS
<1>2. \A x \in {g.banks, 1} : x <= g.banks
  OBVIOUS
<1>3. ASSUME NEW S, S \subseteq Nat, NEW n \in S, \A x \in S : x <= n PROVE Max(S) = n
  <2>1. \E x \in S : \A y \in S : x >= y
    BY <1>3
  <2>2. Max(S) \in S /\ \A y \in S : Max(S) >= y
    BY <2>1 DEF Max
  <2>3. PICK most \in Nat : most = Max(S)
    BY <1>3, <2>2
  <2>4. most >= n /\ most <= n
    BY <1>3, <2>2, <2>3
  <2> QED BY <1>3, <2>3, <2>4
<1> QED BY <1>1, <1>2, <1>3 DEF RomBankCount, BankCount

LEMMA NoGameIsNone == NoGame \notin Cartridges
<1> SUFFICES ASSUME NoGame \in Headers PROVE FALSE
  BY CartridgesAssumption
<1>1. NoGame.banks \notin {0, 1}
  BY DEF Headers
<1> QED BY <1>1 DEF NoGame

LEMMA CartridgeHas ==
    ASSUME NEW g \in Cartridges
    PROVE  /\ g.mapper \in {"None", "MBC1", "MBC2", "MBC3", "MBC5"}
           /\ g.zero \in BOOLEAN /\ g.battery \in BOOLEAN /\ g.rtc \in BOOLEAN
           /\ g.banks \in Nat /\ g.banks >= 2 /\ g.ramBanks \in Nat
           /\ RomBankCount(g) = g.banks /\ BankCount(g) = g.banks
<1>1. g \in Headers
  BY CartridgesAssumption
<1>2. /\ g.mapper \in {"None", "MBC1", "MBC2", "MBC3", "MBC5"}
      /\ g.zero \in BOOLEAN /\ g.battery \in BOOLEAN /\ g.rtc \in BOOLEAN
      /\ g.banks \in Nat \ {0, 1} /\ g.ramBanks \in Nat
  BY <1>1 DEF Headers
<1> QED BY <1>2, BankCounts

LEMMA Mbc1BankInRange ==
    ASSUME NEW n \in Nat, n >= 2, NEW u \in Nat, NEW l \in Nat
    PROVE  Mbc1Bank(u, l, n) \in 0 .. n - 1
<1> DEFINE bank == (u * 32 + l) % n
           skipped == IF bank % 32 = 0 THEN (bank + 1) % n ELSE bank
<1>1. \A x \in Nat : x % n \in 0 .. n - 1
  OBVIOUS
<1>2. bank \in 0 .. n - 1
  BY <1>1
<1>3. skipped \in 0 .. n - 1
  <2> HIDE DEF bank
  <2> QED BY <1>1, <1>2
<1>4. 1 % n \in 0 .. n - 1
  BY <1>1
<1>5. Mbc1Bank(u, l, n) = IF skipped = 0 THEN 1 % n ELSE skipped
  BY DEF Mbc1Bank
<1> HIDE DEF skipped
<1> QED BY <1>3, <1>4, <1>5

\* The mapper's registers: what they can hold, and the bank they select.
BankFields == {"low", "bank", "upper", "mode"}
BankRight(g, m) ==
    /\ BankFields \subseteq DOMAIN m
    /\ m.low \in Nat /\ m.bank \in Nat /\ m.upper \in Nat /\ m.mode \in 0 .. 1
    /\ m.bank < g.banks
    /\ g.mapper = "MBC1" => m.low \in 1 .. 31 /\ m.upper \in 0 .. 3
                                /\ m.bank = Mbc1Bank(m.upper, m.low, g.banks)
    /\ g.mapper = "MBC2" => m.low \in 1 .. 15
    /\ g.mapper = "MBC3" => m.low \in 1 .. 127 /\ m.bank = Clamped(m.low, g.banks)
    /\ g.mapper = "MBC5" => m.low \in 0 .. 511
    /\ g.mapper = "None" => m.low = 1 /\ m.bank = 1

\* The cartridge's: what its own import accepts.
BoardFields == {"romBank", "ramBank", "ramOn", "rtcSelect", "low", "upper", "mode"}
BoardRight(g, b) ==
    /\ BoardFields \subseteq DOMAIN b
    /\ b.low \in 1 .. 31 /\ b.upper \in 0 .. 3 /\ b.mode \in 0 .. 1
    /\ b.romBank \in Nat /\ b.ramBank \in Nat
    /\ BoardMapper(g) \in {"None", "MBC1"} => b.romBank = 1
    /\ BoardMapper(g) = "MBC2" => b.romBank \in 1 .. 15
    /\ BoardMapper(g) = "MBC3" => b.romBank \in 1 .. 127
    /\ BoardMapper(g) = "MBC5" => b.romBank \in 0 .. 511
    /\ IF BoardMapper(g) = "MBC3" THEN b.ramBank < 4
       ELSE IF BoardMapper(g) = "MBC5" THEN b.ramBank < 16 ELSE b.ramBank = 0
    /\ b.rtcSelect = NoRtc \/ RtcRegisterSelected(g, b)

\* The two have made the same selection, but for bank 0 of an MBC5, which a
\* loaded state makes bank 1 in the mapper's register.
SelectionRight(g, m, b) ==
    /\ g.mapper = "MBC1" => m.low = b.low /\ m.upper = b.upper /\ m.mode = b.mode
    /\ g.mapper = "MBC2" => m.low = b.romBank /\ m.bank = m.low % g.banks
    /\ g.mapper = "MBC3" => m.low = b.romBank
    /\ g.mapper = "MBC5" =>
           \/ m.low = b.romBank /\ m.bank = Clamped(m.low, g.banks)
           \/ b.romBank % 256 = 0 /\ m.low = b.romBank + 1

LEMMA ClampedInRange ==
    ASSUME NEW n \in Nat, n >= 2, NEW l \in Nat
    PROVE  Clamped(l, n) \in 0 .. n - 1
BY DEF Clamped

LEMMA NonZeroOf ==
    ASSUME NEW x \in Nat
    PROVE  NonZero(x) \in Nat /\ NonZero(x) >= 1 /\ (x >= 1 => NonZero(x) = x)
BY DEF NonZero

LEMMA NonZeroBits ==
    ASSUME NEW v \in Nat
    PROVE  NonZero(v % 16) \in 1 .. 15 /\ NonZero(v % 32) \in 1 .. 31 /\ NonZero(v % 128) \in 1 .. 127
BY DEF NonZero

\* A mapper's register after a write: that register, and the bank it selects.
LEMMA BankWrite ==
    ASSUME NEW g \in Cartridges, NEW m, BankRight(g, m), NEW a \in Nat, NEW v \in Nat, v < 256
    PROVE  LET h == MapperWrite(g, m, a, v) IN
           BankRight(g, h) /\ (~RomBankChanged(g, a) => h.bank = m.bank)
<1>0. /\ g.mapper \in {"None", "MBC1", "MBC2", "MBC3", "MBC5"}
      /\ g.banks \in Nat /\ g.banks >= 2 /\ RomBankCount(g) = g.banks
  BY CartridgeHas
<1> USE <1>0
<1>1. CASE g.mapper = "MBC1"
  <2>1. ASSUME NEW l \in 1 .. 31, NEW u \in 0 .. 3, NEW d \in 0 .. 1, NEW h,
               h = [m EXCEPT !.low = l, !.upper = u, !.mode = d,
                             !.bank = Mbc1Bank(u, l, g.banks)]
        PROVE  BankRight(g, h)
    <3>1. PICK k \in 0 .. g.banks - 1 : k = Mbc1Bank(u, l, g.banks)
      <4>1. u \in Nat /\ l \in Nat
        OBVIOUS
      <4>2. Mbc1Bank(u, l, g.banks) \in 0 .. g.banks - 1
        BY ONLY <1>0, <4>1, Mbc1BankInRange
      <4> QED BY <4>2
    <3>2. h = [m EXCEPT !.low = l, !.upper = u, !.mode = d, !.bank = k]
      BY <2>1, <3>1
    <3>3. BankFields \subseteq DOMAIN h /\ h.low = l /\ h.upper = u /\ h.mode = d /\ h.bank = k
      BY <3>2 DEF BankRight, BankFields
    <3> QED BY <1>1, <3>1, <3>3 DEF BankRight
  <2>0. m.low \in 1 .. 31 /\ m.upper \in 0 .. 3 /\ m.mode \in 0 .. 1
    BY <1>1 DEF BankRight
  <2>2. CASE a < 8192
    BY <1>1, <2>2 DEF MapperWrite, Between
  <2>3. CASE Between(a, 8192, 16383)
    <3>1. PICK l \in 1 .. 31 : l = NonZero(v % 32)
      BY NonZeroBits
    <3>2. MapperWrite(g, m, a, v) = UpdateMbc1Banking(g, [m EXCEPT !.low = l])
      BY <1>1, <2>3, <3>1 DEF MapperWrite, Between
    <3>3. MapperWrite(g, m, a, v) =
              [m EXCEPT !.low = l, !.upper = m.upper, !.mode = m.mode,
                        !.bank = Mbc1Bank(m.upper, l, g.banks)]
      BY <3>2 DEF UpdateMbc1Banking, BankRight, BankFields
    <3>4. RomBankChanged(g, a)
      BY <1>1, <2>3 DEF RomBankChanged, Between
    <3> QED BY <2>0, <2>1, <3>3, <3>4
  <2>4. CASE Between(a, 16384, 24575)
    <3>1. PICK u \in 0 .. 3 : u = v % 4
      OBVIOUS
    <3>2. MapperWrite(g, m, a, v) = UpdateMbc1Banking(g, [m EXCEPT !.upper = u])
      BY <1>1, <2>4, <3>1 DEF MapperWrite, Between
    <3>3. MapperWrite(g, m, a, v) =
              [m EXCEPT !.low = m.low, !.upper = u, !.mode = m.mode,
                        !.bank = Mbc1Bank(u, m.low, g.banks)]
      BY <3>2 DEF UpdateMbc1Banking, BankRight, BankFields
    <3>4. RomBankChanged(g, a)
      BY <1>1, <2>4 DEF RomBankChanged, Between
    <3> QED BY <2>0, <2>1, <3>3, <3>4
  <2>5. CASE a >= 24576
    <3>1. PICK d \in 0 .. 1 : d = v % 2
      OBVIOUS
    <3>2. MapperWrite(g, m, a, v) = UpdateMbc1Banking(g, [m EXCEPT !.mode = d])
      BY <1>1, <2>5, <3>1 DEF MapperWrite, Between
    <3>3. MapperWrite(g, m, a, v) =
              [m EXCEPT !.low = m.low, !.upper = m.upper, !.mode = d,
                        !.bank = Mbc1Bank(m.upper, m.low, g.banks)]
      BY <3>2 DEF UpdateMbc1Banking, BankRight, BankFields
    <3>4. RomBankChanged(g, a)
      BY <1>1, <2>5 DEF RomBankChanged
    <3> QED BY <2>0, <2>1, <3>3, <3>4
  <2> QED BY <2>2, <2>3, <2>4, <2>5 DEF Between
<1>2. CASE g.mapper = "MBC2"
  <2>1. CASE a < 16384 /\ (a \div 256) % 2 = 1
    <3>1. PICK l \in 1 .. 15 : l = NonZero(v % 16)
      BY NonZeroBits
    <3>2. MapperWrite(g, m, a, v) = [m EXCEPT !.low = l, !.bank = l % g.banks]
      BY <1>2, <2>1, <3>1 DEF MapperWrite
    <3>3. l % g.banks \in 0 .. g.banks - 1
      OBVIOUS
    <3>4. RomBankChanged(g, a)
      BY <1>2, <2>1 DEF RomBankChanged
    <3>5. PICK k \in 0 .. g.banks - 1 : k = l % g.banks
      BY <3>3
    <3> QED BY <1>2, <3>2, <3>4, <3>5 DEF BankRight, BankFields
  <2>2. CASE ~(a < 16384 /\ (a \div 256) % 2 = 1)
    BY <1>2, <2>2 DEF MapperWrite
  <2> QED BY <2>1, <2>2
<1>3. CASE g.mapper = "MBC3"
  <2>1. CASE Between(a, 8192, 16383)
    <3>1. PICK l \in 1 .. 127 : l = NonZero(v % 128)
      BY NonZeroBits
    <3>2. MapperWrite(g, m, a, v) = [m EXCEPT !.low = l, !.bank = Clamped(l, g.banks)]
      BY <1>3, <2>1, <3>1 DEF MapperWrite, Between
    <3>3. RomBankChanged(g, a)
      BY <1>3, <2>1 DEF RomBankChanged
    <3>4. Clamped(l, g.banks) \in 0 .. g.banks - 1
      <4>1. l \in Nat /\ g.banks \in Nat /\ g.banks >= 2
        BY CartridgeHas
      <4> QED BY <4>1, ClampedInRange
    <3> QED BY <1>3, <3>2, <3>3, <3>4 DEF BankRight, BankFields
  <2>2. CASE Between(a, 16384, 24575)
    <3>1. MapperWrite(g, m, a, v) = [m EXCEPT !.upper = v]
      BY <1>3, <2>2 DEF MapperWrite, Between
    <3> QED BY <1>3, <3>1 DEF BankRight, BankFields
  <2>3. CASE ~Between(a, 8192, 16383) /\ ~Between(a, 16384, 24575)
    BY <1>3, <2>3 DEF MapperWrite
  <2> QED BY <2>1, <2>2, <2>3
<1>4. CASE g.mapper = "MBC5"
  <2>1. ASSUME NEW l \in 0 .. 511, NEW h, h = UpdateMbc5Banking(g, [m EXCEPT !.low = l])
        PROVE  BankRight(g, h)
    <3>1. h = [m EXCEPT !.low = l, !.bank = Clamped(l, g.banks)]
      BY <2>1 DEF UpdateMbc5Banking, BankRight, BankFields
    <3>2. Clamped(l, g.banks) \in 0 .. g.banks - 1
      <4>1. l \in Nat /\ g.banks \in Nat /\ g.banks >= 2
        BY CartridgeHas
      <4> QED BY <4>1, ClampedInRange
    <3> QED BY <1>4, <3>1, <3>2 DEF BankRight, BankFields
  <2>2. CASE Between(a, 8192, 12287)
    <3>1. PICK l \in 0 .. 511 : l = (m.low \div 256) * 256 + v
      <4>1. PICK q \in 0 .. 1 : q = m.low \div 256
        BY <1>4 DEF BankRight
      <4>2. q * 256 + v \in 0 .. 511
        OBVIOUS
      <4> QED BY <4>1, <4>2
    <3>2. MapperWrite(g, m, a, v) = UpdateMbc5Banking(g, [m EXCEPT !.low = l])
      BY <1>4, <2>2, <3>1 DEF MapperWrite, Between
    <3>3. RomBankChanged(g, a)
      BY <1>4, <2>2 DEF RomBankChanged, Between
    <3> QED BY <2>1, <3>2, <3>3
  <2>3. CASE Between(a, 12288, 16383)
    <3>1. PICK l \in 0 .. 511 : l = (v % 2) * 256 + (m.low % 256)
      <4>1. PICK p \in 0 .. 255 : p = m.low % 256
        BY <1>4 DEF BankRight
      <4>2. PICK o \in 0 .. 1 : o = v % 2
        OBVIOUS
      <4>3. o * 256 + p \in 0 .. 511
        OBVIOUS
      <4> QED BY <4>1, <4>2, <4>3
    <3>2. MapperWrite(g, m, a, v) = UpdateMbc5Banking(g, [m EXCEPT !.low = l])
      BY <1>4, <2>3, <3>1 DEF MapperWrite, Between
    <3>3. RomBankChanged(g, a)
      BY <1>4, <2>3 DEF RomBankChanged, Between
    <3> QED BY <2>1, <3>2, <3>3
  <2>4. CASE Between(a, 16384, 24575)
    <3>1. MapperWrite(g, m, a, v) = [m EXCEPT !.upper = v % 16]
      BY <1>4, <2>4 DEF MapperWrite, Between
    <3>2. PICK u \in Nat : u = v % 16
      OBVIOUS
    <3> QED BY <1>4, <3>1, <3>2 DEF BankRight, BankFields
  <2>5. CASE ~Between(a, 8192, 12287) /\ ~Between(a, 12288, 16383) /\ ~Between(a, 16384, 24575)
    BY <1>4, <2>5 DEF MapperWrite
  <2> QED BY <2>2, <2>3, <2>4, <2>5
<1>5. CASE g.mapper = "None"
  BY <1>5 DEF MapperWrite
<1> QED BY <1>1, <1>2, <1>3, <1>4, <1>5

LEMMA BoardMappers ==
    ASSUME NEW g \in Cartridges
    PROVE  BoardMapper(g) \in {"None", "MBC1", "MBC2", "MBC3", "MBC5"}
               /\ (g.mapper # "None" => BoardMapper(g) = g.mapper)
BY CartridgeHas DEF BoardMapper

\* The two parts of an MBC5's bank number, replaced one by one.
LEMMA Mbc5Parts ==
    ASSUME NEW r \in 0 .. 511, NEW v \in Nat, v < 256
    PROVE  (r \div 256) * 256 + v \in 0 .. 511 /\ (v % 2) * 256 + (r % 256) \in 0 .. 511
<1>1. PICK q \in 0 .. 1 : q = r \div 256
  OBVIOUS
<1>2. PICK p \in 0 .. 255 : p = r % 256
  OBVIOUS
<1>3. PICK o \in 0 .. 1 : o = v % 2
  OBVIOUS
<1>4. q * 256 + v \in 0 .. 511 /\ o * 256 + p \in 0 .. 511
  OBVIOUS
<1> QED BY <1>1, <1>2, <1>3, <1>4

\* The cartridge's register after the same write.
LEMMA BoardWrite ==
    ASSUME NEW g \in Cartridges, NEW b, BoardRight(g, b), NEW a \in Nat, NEW v \in Nat, v < 256
    PROVE  BoardRight(g, WriteControl(g, b, a, v))
<1> DEFINE k == WriteControl(g, b, a, v)
<1>1. PICK on : on = Enables(v)
  OBVIOUS
<1>2. BoardRight(g, [b EXCEPT !.ramOn = on])
  BY DEF BoardRight, BoardFields, RtcRegisterSelected
<1>3. CASE BoardMapper(g) = "MBC1"
  <2>1. PICK l \in 1 .. 31 : l = NonZero(v % 32)
    BY NonZeroBits
  <2>2. PICK u \in 0 .. 3 : u = v % 4
    OBVIOUS
  <2>3. PICK d \in 0 .. 1 : d = v % 2
    OBVIOUS
  <2>4. \/ k = [b EXCEPT !.ramOn = on] \/ k = [b EXCEPT !.low = l]
        \/ k = [b EXCEPT !.upper = u] \/ k = [b EXCEPT !.mode = d] \/ k = b
    BY <1>1, <1>3, <2>1, <2>2, <2>3 DEF WriteControl, Between
  <2>5. /\ BoardRight(g, [b EXCEPT !.low = l]) /\ BoardRight(g, [b EXCEPT !.upper = u])
        /\ BoardRight(g, [b EXCEPT !.mode = d])
    BY <1>3 DEF BoardRight, BoardFields, RtcRegisterSelected
  <2> QED BY <1>2, <2>4, <2>5
<1>4. CASE BoardMapper(g) = "MBC2"
  <2>1. PICK l \in 1 .. 15 : l = NonZero(v % 16)
    BY NonZeroBits
  <2>2. k = [b EXCEPT !.ramOn = on] \/ k = [b EXCEPT !.romBank = l] \/ k = b
    BY <1>1, <1>4, <2>1 DEF WriteControl
  <2>3. BoardRight(g, [b EXCEPT !.romBank = l])
    BY <1>4 DEF BoardRight, BoardFields, RtcRegisterSelected
  <2> QED BY <1>2, <2>2, <2>3
<1>5. CASE BoardMapper(g) = "MBC3"
  <2>1. PICK l \in 1 .. 127 : l = NonZero(v % 128)
    BY NonZeroBits
  <2>2. \/ k = [b EXCEPT !.ramOn = on] \/ k = [b EXCEPT !.romBank = l] \/ k = b
        \/ v <= 3 /\ k = [b EXCEPT !.ramBank = v, !.rtcSelect = NoRtc]
        \/ g.rtc /\ v \in RtcRegisters /\ k = [b EXCEPT !.rtcSelect = v]
    BY <1>1, <1>5, <2>1 DEF WriteControl, Between
  <2>3. BoardRight(g, [b EXCEPT !.romBank = l])
    BY <1>5 DEF BoardRight, BoardFields, RtcRegisterSelected
  <2>4. v <= 3 => BoardRight(g, [b EXCEPT !.ramBank = v, !.rtcSelect = NoRtc])
    BY <1>5 DEF BoardRight, BoardFields, RtcRegisterSelected
  <2>5. g.rtc /\ v \in RtcRegisters => BoardRight(g, [b EXCEPT !.rtcSelect = v])
    BY <1>5 DEF BoardRight, BoardFields, RtcRegisterSelected
  <2> QED BY <1>2, <2>2, <2>3, <2>4, <2>5
<1>6. CASE BoardMapper(g) = "MBC5"
  <2>1. b.romBank \in 0 .. 511
    BY <1>6 DEF BoardRight
  <2> DEFINE low == (b.romBank \div 256) * 256 + v
             high == (v % 2) * 256 + (b.romBank % 256)
  <2>a. low \in 0 .. 511 /\ high \in 0 .. 511
    BY <2>1, Mbc5Parts, ZenonT(40)
  <2>2. PICK l \in 0 .. 511 : l = low
    BY <2>a
  <2>3. PICK h \in 0 .. 511 : h = high
    BY <2>a
  <2>4. PICK r \in 0 .. 15 : r = v % 16
    OBVIOUS
  <2>5. \/ k = [b EXCEPT !.ramOn = on] \/ k = [b EXCEPT !.romBank = l] \/ k = b
        \/ k = [b EXCEPT !.romBank = h] \/ k = [b EXCEPT !.ramBank = r]
    BY <1>1, <1>6, <2>2, <2>3, <2>4 DEF WriteControl, Between
  <2>6. /\ BoardRight(g, [b EXCEPT !.romBank = l]) /\ BoardRight(g, [b EXCEPT !.romBank = h])
        /\ BoardRight(g, [b EXCEPT !.ramBank = r])
    BY <1>6 DEF BoardRight, BoardFields, RtcRegisterSelected
  <2> QED BY <1>2, <2>5, <2>6
<1>7. CASE BoardMapper(g) = "None"
  BY <1>7 DEF WriteControl
<1> QED BY <1>3, <1>4, <1>5, <1>6, <1>7, BoardMappers

\* The write is one selection to both of them.
LEMMA SelectionWrite ==
    ASSUME NEW g \in Cartridges, NEW m, NEW b, BankRight(g, m), BoardRight(g, b),
           SelectionRight(g, m, b), NEW a \in Nat, NEW v \in Nat, v < 256
    PROVE  SelectionRight(g, MapperWrite(g, m, a, v), WriteControl(g, b, a, v))
<1> DEFINE h == MapperWrite(g, m, a, v)
           k == WriteControl(g, b, a, v)
<1> SUFFICES SelectionRight(g, h, k)
  OBVIOUS
<1>0. /\ g.mapper \in {"None", "MBC1", "MBC2", "MBC3", "MBC5"}
      /\ g.banks \in Nat /\ g.banks >= 2 /\ RomBankCount(g) = g.banks
      /\ g.mapper # "None" => BoardMapper(g) = g.mapper
      /\ BankFields \subseteq DOMAIN m /\ BoardFields \subseteq DOMAIN b
  BY CartridgeHas, BoardMappers DEF BankRight, BoardRight
<1>1. CASE g.mapper = "MBC1"
  <2>0. m.low = b.low /\ m.upper = b.upper /\ m.mode = b.mode
    BY <1>1 DEF SelectionRight
  <2>1. CASE a < 8192
    <3>1. h = m /\ k = [b EXCEPT !.ramOn = Enables(v)]
      BY <1>0, <1>1, <2>1 DEF MapperWrite, WriteControl, Between
    <3> QED BY <1>0, <1>1, <2>0, <3>1 DEF SelectionRight, BoardFields
  <2>2. CASE Between(a, 8192, 16383)
    <3>1. /\ h = UpdateMbc1Banking(g, [m EXCEPT !.low = NonZero(v % 32)])
          /\ k = [b EXCEPT !.low = NonZero(v % 32)]
      BY <1>0, <1>1, <2>2 DEF MapperWrite, WriteControl, Between
    <3> HIDE DEF h, k
    <3>2. /\ h.low = NonZero(v % 32) /\ h.upper = m.upper /\ h.mode = m.mode
          /\ k.low = NonZero(v % 32) /\ k.upper = b.upper /\ k.mode = b.mode
      BY <1>0, <3>1 DEF UpdateMbc1Banking, BankFields, BoardFields
    <3> QED BY <1>1, <2>0, <3>2 DEF SelectionRight
  <2>3. CASE Between(a, 16384, 24575)
    <3>1. /\ h = UpdateMbc1Banking(g, [m EXCEPT !.upper = v % 4])
          /\ k = [b EXCEPT !.upper = v % 4]
      BY <1>0, <1>1, <2>3 DEF MapperWrite, WriteControl, Between
    <3> HIDE DEF h, k
    <3>2. /\ h.low = m.low /\ h.upper = v % 4 /\ h.mode = m.mode
          /\ k.low = b.low /\ k.upper = v % 4 /\ k.mode = b.mode
      BY <1>0, <3>1 DEF UpdateMbc1Banking, BankFields, BoardFields
    <3> QED BY <1>1, <2>0, <3>2 DEF SelectionRight
  <2>4. CASE a >= 24576
    <3>1. /\ h = UpdateMbc1Banking(g, [m EXCEPT !.mode = v % 2])
          /\ k = [b EXCEPT !.mode = v % 2]
      BY <1>0, <1>1, <2>4 DEF MapperWrite, WriteControl, Between
    <3> HIDE DEF h, k
    <3>2. /\ h.low = m.low /\ h.upper = m.upper /\ h.mode = v % 2
          /\ k.low = b.low /\ k.upper = b.upper /\ k.mode = v % 2
      BY <1>0, <3>1 DEF UpdateMbc1Banking, BankFields, BoardFields
    <3> QED BY <1>1, <2>0, <3>2 DEF SelectionRight
  <2> QED BY <2>1, <2>2, <2>3, <2>4 DEF Between
<1>2. CASE g.mapper = "MBC2"
  <2>0. m.low = b.romBank /\ m.bank = m.low % g.banks
    BY <1>2 DEF SelectionRight
  <2>1. CASE a < 16384 /\ (a \div 256) % 2 = 1
    <3>1. PICK l : l = NonZero(v % 16)
      OBVIOUS
    <3>2. h = [m EXCEPT !.low = l, !.bank = l % g.banks] /\ k = [b EXCEPT !.romBank = l]
      BY <1>0, <1>2, <2>1, <3>1 DEF MapperWrite, WriteControl
    <3> HIDE DEF h, k
    <3>3. h.low = l /\ h.bank = l % g.banks /\ k.romBank = l
      BY <1>0, <3>2 DEF BankFields, BoardFields
    <3> QED BY <1>2, <3>3 DEF SelectionRight
  <2>2. CASE ~(a < 16384 /\ (a \div 256) % 2 = 1)
    <3>1. h = m /\ (k = b \/ k = [b EXCEPT !.ramOn = Enables(v)])
      BY <1>0, <1>2, <2>2 DEF MapperWrite, WriteControl
    <3> QED BY <1>0, <1>2, <2>0, <3>1 DEF SelectionRight, BoardFields
  <2> QED BY <2>1, <2>2
<1>3. CASE g.mapper = "MBC3"
  <2>0. m.low = b.romBank
    BY <1>3 DEF SelectionRight
  <2>1. CASE Between(a, 8192, 16383)
    <3>1. PICK l : l = NonZero(v % 128)
      OBVIOUS
    <3>2. h = [m EXCEPT !.low = l, !.bank = Clamped(l, g.banks)] /\ k = [b EXCEPT !.romBank = l]
      BY <1>0, <1>3, <2>1, <3>1 DEF MapperWrite, WriteControl, Between
    <3> HIDE DEF h, k
    <3>3. h.low = l /\ k.romBank = l
      BY <1>0, <3>2 DEF BankFields, BoardFields
    <3> QED BY <1>3, <3>3 DEF SelectionRight
  <2>2. CASE ~Between(a, 8192, 16383)
    <3>1. h = m \/ h = [m EXCEPT !.upper = v]
      BY <1>0, <1>3, <2>2 DEF MapperWrite, Between
    <3>2. \/ k = b \/ k = [b EXCEPT !.ramOn = Enables(v)] \/ k = [b EXCEPT !.rtcSelect = v]
          \/ k = [b EXCEPT !.ramBank = v, !.rtcSelect = NoRtc]
      BY <1>0, <1>3, <2>2 DEF WriteControl, Between
    <3> HIDE DEF h, k
    <3>3. h.low = m.low /\ k.romBank = b.romBank
      BY <1>0, <3>1, <3>2 DEF BankFields, BoardFields
    <3> QED BY <1>3, <2>0, <3>3 DEF SelectionRight
  <2> QED BY <2>1, <2>2
<1>4. CASE g.mapper = "MBC5"
  <2>0. /\ m.low \in 0 .. 511 /\ b.romBank \in 0 .. 511
        /\ \/ m.low = b.romBank /\ m.bank = Clamped(m.low, g.banks)
           \/ b.romBank % 256 = 0 /\ m.low = b.romBank + 1
    BY <1>0, <1>4 DEF SelectionRight, BankRight, BoardRight
  <2>1. CASE Between(a, 8192, 12287)
    <3>1. (m.low \div 256) * 256 + v = (b.romBank \div 256) * 256 + v
      BY <2>0
    <3>2. PICK l : l = (m.low \div 256) * 256 + v
      OBVIOUS
    <3>3. /\ h = UpdateMbc5Banking(g, [m EXCEPT !.low = l])
          /\ k = [b EXCEPT !.romBank = l]
      BY <1>0, <1>4, <2>1, <3>1, <3>2 DEF MapperWrite, WriteControl, Between
    <3> HIDE DEF h, k
    <3>4. h.low = l /\ h.bank = Clamped(l, g.banks) /\ k.romBank = l
      BY <1>0, <3>3 DEF UpdateMbc5Banking, BankFields, BoardFields
    <3> QED BY <1>4, <3>4 DEF SelectionRight
  <2>2. CASE Between(a, 12288, 16383)
    <3>1. PICK l : l = (v % 2) * 256 + (m.low % 256)
      OBVIOUS
    <3>2. PICK r : r = (v % 2) * 256 + (b.romBank % 256)
      OBVIOUS
    <3>3. l = r \/ (r % 256 = 0 /\ l = r + 1)
      <4>1. m.low = b.romBank \/ (b.romBank % 256 = 0 /\ m.low % 256 = 1)
        BY <2>0
      <4>2. \A o \in Nat : (o * 256 + 0) % 256 = 0
        OBVIOUS
      <4>3. PICK o \in 0 .. 1 : o = v % 2
        OBVIOUS
      <4> QED BY <3>1, <3>2, <4>1, <4>2, <4>3
    <3>4. /\ h = UpdateMbc5Banking(g, [m EXCEPT !.low = l])
          /\ k = [b EXCEPT !.romBank = r]
      BY <1>0, <1>4, <2>2, <3>1, <3>2 DEF MapperWrite, WriteControl, Between
    <3> HIDE DEF h, k
    <3>5. h.low = l /\ h.bank = Clamped(l, g.banks) /\ k.romBank = r
      BY <1>0, <3>4 DEF UpdateMbc5Banking, BankFields, BoardFields
    <3> QED BY <1>4, <3>3, <3>5 DEF SelectionRight
  <2>3. CASE ~Between(a, 8192, 12287) /\ ~Between(a, 12288, 16383)
    <3>1. h = m \/ h = [m EXCEPT !.upper = v % 16]
      BY <1>0, <1>4, <2>3 DEF MapperWrite, Between
    <3>2. \/ k = b \/ k = [b EXCEPT !.ramOn = Enables(v)] \/ k = [b EXCEPT !.ramBank = v % 16]
      BY <1>0, <1>4, <2>3 DEF WriteControl, Between
    <3> HIDE DEF h, k
    <3>3. h.low = m.low /\ h.bank = m.bank /\ k.romBank = b.romBank
      BY <1>0, <3>1, <3>2 DEF BankFields, BoardFields
    <3> QED BY <1>4, <2>0, <3>3 DEF SelectionRight
  <2> QED BY <2>1, <2>2, <2>3
<1>5. CASE g.mapper = "None"
  BY <1>5 DEF SelectionRight
<1> QED BY <1>0, <1>1, <1>2, <1>3, <1>4, <1>5

WindowFields == {"fixed", "switchable", "boot"}
StoreFields == {"ram", "rtc", "latched", "dirty"}

\* The registers of both, and the windows that show the banks they select.
RegistersRight(g, m, b, w) ==
    /\ BankRight(g, m) /\ BoardRight(g, b) /\ SelectionRight(g, m, b)
    /\ WindowFields \subseteq DOMAIN w
    /\ w.fixed = CurrentFixedRomBank(g, m) /\ w.switchable = m.bank

\* A save file is the RAM, and the clock where there is one.
SaveIs(g, save) ==
    save = [ram |-> save.ram,
            clock |-> IF g.rtc THEN [registers |-> save.clock.registers, latched |-> save.clock.latched]
                      ELSE NoClock]

BusStateRight ==
    stateFile # NothingSaved =>
        /\ stateFile.game \in Cartridges /\ StoreFields \subseteq DOMAIN stateFile.store
        /\ RegistersRight(stateFile.game, stateFile.mapper, stateFile.board, stateFile.windows)

BusInv ==
    /\ game \in Cartridges \cup {NoGame}
    /\ game # NoGame =>
           /\ RegistersRight(game, mapper, board, windows)
           /\ DOMAIN savFile = Cartridges /\ \A c \in Cartridges : SaveIs(c, savFile[c])
    /\ StoreFields \subseteq DOMAIN store
    /\ BusStateRight /\ CleanMeansSaved

LEMMA ResetRegistersRight ==
    ASSUME NEW g \in Cartridges, NEW boot
    PROVE  RegistersRight(g, MapperReset, BoardReset(g),
               [fixed |-> CurrentFixedRomBank(g, MapperReset), switchable |-> MapperReset.bank,
                boot |-> boot])
<1>0. /\ g.mapper \in {"None", "MBC1", "MBC2", "MBC3", "MBC5"}
      /\ g.banks \in Nat /\ g.banks >= 2
  BY CartridgeHas
<1>1. 1 % g.banks = 1 /\ Clamped(1, g.banks) = 1 /\ Mbc1Bank(0, 1, g.banks) = 1
  <2>1. 1 % g.banks = 1
    BY <1>0
  <2>2. 0 * 32 + 1 = 1 /\ 1 % 32 = 1
    OBVIOUS
  <2>3. Mbc1Bank(0, 1, g.banks) = 1
    BY <2>1, <2>2 DEF Mbc1Bank
  <2> QED BY <1>0, <2>1, <2>3 DEF Clamped
<1>2. BankRight(g, MapperReset)
  BY <1>0, <1>1 DEF BankRight, BankFields, MapperReset
<1>3. BoardRight(g, BoardReset(g))
  BY <1>0 DEF BoardRight, BoardFields, BoardReset
<1>4. SelectionRight(g, MapperReset, BoardReset(g))
  BY <1>0, <1>1 DEF SelectionRight, MapperReset, BoardReset
<1> QED BY <1>2, <1>3, <1>4 DEF RegistersRight, WindowFields

LEMMA RegisterWrite ==
    ASSUME NEW g \in Cartridges, NEW m, NEW b, NEW w, RegistersRight(g, m, b, w),
           NEW a \in Nat, NEW v \in Nat, v < 256
    PROVE  LET h == MapperWrite(g, m, a, v)
               fixed == CurrentFixedRomBank(g, h)
           IN  RegistersRight(g, h, WriteControl(g, b, a, v),
                   [w EXCEPT !.switchable = IF RomBankChanged(g, a) THEN h.bank ELSE @,
                             !.fixed = IF fixed # CurrentFixedRomBank(g, m) THEN fixed ELSE @])
<1> DEFINE h == MapperWrite(g, m, a, v)
           k == WriteControl(g, b, a, v)
           fixed == CurrentFixedRomBank(g, h)
           x == IF RomBankChanged(g, a) THEN h.bank ELSE w.switchable
           y == IF fixed # CurrentFixedRomBank(g, m) THEN fixed ELSE w.fixed
<1>1. /\ BankRight(g, m) /\ BoardRight(g, b) /\ SelectionRight(g, m, b)
      /\ WindowFields \subseteq DOMAIN w
      /\ w.fixed = CurrentFixedRomBank(g, m) /\ w.switchable = m.bank
  BY DEF RegistersRight
<1>2. BankRight(g, h) /\ (~RomBankChanged(g, a) => h.bank = m.bank)
  BY <1>1, BankWrite
<1>3. BoardRight(g, k)
  BY <1>1, BoardWrite
<1>4. SelectionRight(g, h, k)
  BY <1>1, SelectionWrite
<1>5. x = h.bank /\ y = fixed
  BY <1>1, <1>2
<1> SUFFICES RegistersRight(g, h, k, [w EXCEPT !.switchable = x, !.fixed = y])
  BY <1>1 DEF WindowFields
<1> HIDE DEF h, k, x, y
<1> QED BY <1>1, <1>2, <1>3, <1>4, <1>5 DEF RegistersRight, WindowFields, fixed

\* A low bank of 0, which only an MBC5 can have, is loaded as 1.
LEMMA LoadedRegisters ==
    ASSUME NEW g \in Cartridges, NEW m, NEW b, NEW w, RegistersRight(g, m, b, w),
           NEW h, h = [m EXCEPT !.low = NonZero(@)], NEW k, k = [b EXCEPT !.low = NonZero(@)]
    PROVE  RegistersRight(g, h, k, [w EXCEPT !.fixed = CurrentFixedRomBank(g, h)])
<1>0. g.mapper \in {"None", "MBC1", "MBC2", "MBC3", "MBC5"} /\ g.banks \in Nat
  BY CartridgeHas
<1>1. /\ BankRight(g, m) /\ BoardRight(g, b) /\ SelectionRight(g, m, b)
      /\ WindowFields \subseteq DOMAIN w
      /\ w.fixed = CurrentFixedRomBank(g, m) /\ w.switchable = m.bank
  BY DEF RegistersRight
<1>2. m.low \in Nat /\ b.low \in Nat /\ b.low >= 1
  BY <1>1 DEF BankRight, BoardRight
<1>3. PICK l : l = NonZero(m.low)
  OBVIOUS
<1>4. l \in Nat /\ (m.low >= 1 => l = m.low) /\ (m.low = 0 => l = 1)
  BY <1>2, <1>3 DEF NonZero
<1>5. /\ BankFields \subseteq DOMAIN h /\ h.low = l /\ h.bank = m.bank
      /\ h.upper = m.upper /\ h.mode = m.mode
  BY <1>1, <1>3 DEF BankRight, BankFields
<1>6. /\ BoardFields \subseteq DOMAIN k /\ k.low = b.low /\ k.upper = b.upper /\ k.mode = b.mode
      /\ k.romBank = b.romBank /\ k.ramBank = b.ramBank /\ k.rtcSelect = b.rtcSelect
  BY <1>1, <1>2 DEF BoardRight, BoardFields, NonZero
<1>7. g.mapper = "MBC5" \/ l = m.low
  BY <1>0, <1>1, <1>4 DEF BankRight
<1>8. BankRight(g, h)
  BY <1>0, <1>1, <1>4, <1>5, <1>7 DEF BankRight
<1>9. BoardRight(g, k)
  BY <1>1, <1>6 DEF BoardRight, RtcRegisterSelected
<1>10. SelectionRight(g, h, k)
  <2>1. CASE l = m.low
    BY <1>1, <1>5, <1>6, <2>1 DEF SelectionRight
  <2>2. CASE g.mapper = "MBC5" /\ m.low = 0
    <3>1. b.romBank = 0
      <4>1. b.romBank \in 0 .. 511
        BY <1>1, <2>2, BoardMappers DEF BoardRight
      <4> QED BY <1>1, <2>2, <4>1 DEF SelectionRight
    <3>2. h.low = 1 /\ k.romBank = 0
      BY <1>4, <1>5, <1>6, <2>2, <3>1
    <3> QED BY <2>2, <3>2 DEF SelectionRight
  <2> QED BY <1>2, <1>4, <1>7, <2>1, <2>2
<1> QED BY <1>1, <1>5, <1>8, <1>9, <1>10 DEF RegistersRight, WindowFields

LEMMA SaveDataIs == ASSUME NEW g, NEW s PROVE SaveIs(g, SaveData(g, s))
BY DEF SaveIs, SaveData

LEMMA ImportIs ==
    ASSUME NEW g, NEW save, SaveIs(g, save)
    PROVE  StoreFields \subseteq DOMAIN ImportSaveData(g, save) /\ SaveData(g, ImportSaveData(g, save)) = save
<1>1. CASE g.rtc
  <2>1. PICK s : s = [ram |-> save.ram, rtc |-> save.clock.registers, latched |-> save.clock.latched,
                      dirty |-> FALSE]
    OBVIOUS
  <2>2. StoreFields \subseteq DOMAIN s /\ s.ram = save.ram /\ s.rtc = save.clock.registers
        /\ s.latched = save.clock.latched
    BY <2>1 DEF StoreFields
  <2>3. ImportSaveData(g, save) = s
    BY <1>1, <2>1 DEF ImportSaveData
  <2>4. save = [ram |-> save.ram,
                clock |-> [registers |-> save.clock.registers, latched |-> save.clock.latched]]
    BY <1>1 DEF SaveIs
  <2>5. SaveData(g, s) = [ram |-> save.ram,
                clock |-> [registers |-> save.clock.registers, latched |-> save.clock.latched]]
    BY <1>1, <2>2 DEF SaveData
  <2> QED BY <2>2, <2>3, <2>4, <2>5
<1>2. CASE ~g.rtc
  <2>1. PICK s : s = [EmptyStore(g) EXCEPT !.ram = save.ram]
    OBVIOUS
  <2>2. StoreFields \subseteq DOMAIN s /\ s.ram = save.ram
    BY <2>1 DEF StoreFields, EmptyStore
  <2>3. ImportSaveData(g, save) = s
    BY <1>2, <2>1 DEF ImportSaveData
  <2>4. save = [ram |-> save.ram, clock |-> NoClock] /\ SaveData(g, s) = [ram |-> save.ram, clock |-> NoClock]
    BY <1>2, <2>2 DEF SaveIs, SaveData
  <2> QED BY <2>2, <2>3, <2>4
<1> QED BY <1>1, <1>2

\* What a write leaves of the store: the save as it was, or the flag.
Kept(g, s, h) ==
    /\ StoreFields \subseteq DOMAIN h
    /\ (g.battery /\ ~h.dirty) => ~s.dirty /\ SaveData(g, h) = SaveData(g, s)

LEMMA LatchKeeps ==
    ASSUME NEW g, NEW s, StoreFields \subseteq DOMAIN s, NEW a, NEW v
    PROVE  Kept(g, s, Latched(g, s, a, v))
<1>1. CASE BoardMapper(g) = "MBC3" /\ a >= 24576 /\ s.latched # (v % 2 = 1)
  <2>1. PICK h : h = [s EXCEPT !.latched = ~s.latched, !.dirty = s.dirty \/ (g.rtc /\ g.battery)]
    OBVIOUS
  <2>2. /\ StoreFields \subseteq DOMAIN h /\ h.ram = s.ram /\ h.rtc = s.rtc
        /\ h.dirty <=> s.dirty \/ (g.rtc /\ g.battery)
    BY <2>1 DEF StoreFields
  <2>3. Latched(g, s, a, v) = h
    BY <1>1, <2>1 DEF Latched
  <2>4. ~g.rtc => SaveData(g, h) = SaveData(g, s)
    BY <2>2 DEF SaveData
  <2> QED BY <2>2, <2>3, <2>4 DEF Kept
<1>2. CASE ~(BoardMapper(g) = "MBC3" /\ a >= 24576 /\ s.latched # (v % 2 = 1))
  BY <1>2 DEF Latched, Kept
<1> QED BY <1>1, <1>2

LEMMA ExternalKeeps ==
    ASSUME NEW g, NEW b, NEW s, StoreFields \subseteq DOMAIN s, NEW v
    PROVE  Kept(g, s, WriteExternalArea(g, b, s, v))
<1> DEFINE h == WriteExternalArea(g, b, s, v)
<1> SUFFICES Kept(g, s, h)
  OBVIOUS
<1>1. \/ h = s
      \/ \E r : h = [s EXCEPT !.rtc = r, !.dirty = s.dirty \/ g.battery]
      \/ \E r : h = [s EXCEPT !.ram = r, !.dirty = s.dirty \/ g.battery]
  <2>1. CASE BoardMapper(g) = "None" \/ ~b.ramOn
    BY <2>1 DEF WriteExternalArea
  <2>2. CASE ~(BoardMapper(g) = "None" \/ ~b.ramOn) /\ RtcRegisterSelected(g, b)
    <3>1. h = IF s.rtc[b.rtcSelect] = v THEN s
              ELSE [s EXCEPT !.rtc[b.rtcSelect] = v, !.dirty = s.dirty \/ g.battery]
      BY <2>2 DEF WriteExternalArea
    <3>2. PICK r : r = [s.rtc EXCEPT ![b.rtcSelect] = v]
      OBVIOUS
    <3> QED BY <3>1, <3>2
  <2>3. CASE ~(BoardMapper(g) = "None" \/ ~b.ramOn) /\ ~RtcRegisterSelected(g, b)
    <3>1. PICK bank : bank = SelectedRamBankIndex(g, b)
      OBVIOUS
    <3>2. h = IF g.ramBanks = 0 \/ s.ram[bank] = v THEN s
              ELSE [s EXCEPT !.ram[bank] = v, !.dirty = s.dirty \/ g.battery]
      BY <2>3, <3>1 DEF WriteExternalArea
    <3>3. PICK r : r = [s.ram EXCEPT ![bank] = v]
      OBVIOUS
    <3> QED BY <3>2, <3>3
  <2> QED BY <2>1, <2>2, <2>3
<1>2. ASSUME NEW r, h = [s EXCEPT !.rtc = r, !.dirty = s.dirty \/ g.battery]
             \/ h = [s EXCEPT !.ram = r, !.dirty = s.dirty \/ g.battery]
      PROVE  StoreFields \subseteq DOMAIN h /\ (h.dirty <=> s.dirty \/ g.battery)
  <2> HIDE DEF h
  <2> QED BY <1>2 DEF StoreFields
<1> HIDE DEF h
<1>3. CASE h = s
  BY <1>3 DEF Kept
<1>4. CASE h # s
  BY <1>1, <1>2, <1>4 DEF Kept
<1> QED BY <1>3, <1>4

LEMMA KeptTwice ==
    ASSUME NEW g, NEW s, NEW h, NEW k, Kept(g, s, h), Kept(g, h, k)
    PROVE  Kept(g, s, k)
BY DEF Kept

LEMMA BusInvInit == BusInit => BusInv
BY DEF BusInit, BusInv, BusStateRight, EmptyStore, StoreFields, NoGame, CleanMeansSaved

LEMMA LoadCartridgeKeeps ==
    ASSUME BusInv, LoadCartridge
    PROVE  BusInv'
<1>1. PICK g \in Cartridges, boot \in BOOLEAN :
          /\ game' = g
          /\ mapper' = MapperReset /\ board' = BoardReset(g)
          /\ savFile' = IF game = NoGame THEN [c \in Cartridges |-> SaveData(c, EmptyStore(c))] ELSE Flushed
          /\ store' = ImportSaveData(g, savFile'[g])
          /\ windows' = [fixed |-> CurrentFixedRomBank(g, mapper'), switchable |-> mapper'.bank,
                         boot |-> boot]
  BY DEF LoadCartridge
<1>2. DOMAIN savFile' = Cartridges /\ \A c \in Cartridges : SaveIs(c, savFile'[c])
  <2>1. CASE game = NoGame
    BY <1>1, <2>1, SaveDataIs
  <2>2. CASE game # NoGame
    <3>1. PICK save : save = SaveData(game, store)
      OBVIOUS
    <3>2. savFile' = savFile \/ savFile' = [savFile EXCEPT ![game] = save]
      BY <1>1, <2>2, <3>1 DEF Flushed
    <3>3. SaveIs(game, save)
      BY <3>1, SaveDataIs
    <3> QED BY <2>2, <3>2, <3>3 DEF BusInv
  <2> QED BY <2>1, <2>2
<1>3. RegistersRight(game', mapper', board', windows')
  BY <1>1, ResetRegistersRight
<1>4. StoreFields \subseteq DOMAIN store' /\ SaveData(g, store') = savFile'[g]
  BY <1>1, <1>2, ImportIs
<1>5. stateFile' = stateFile
  BY DEF LoadCartridge
<1> QED BY <1>1, <1>2, <1>3, <1>4, <1>5 DEF BusInv, BusStateRight, CleanMeansSaved

\* A step that leaves the files alone, and the save or its flag.
LEMMA KeptKeeps ==
    ASSUME BusInv, game # NoGame, UNCHANGED <<game, savFile, stateFile, rewound>>,
           RegistersRight(game, mapper', board', windows'), Kept(game, store, store')
    PROVE  BusInv'
<1>1. CleanMeansSaved'
  BY DEF Kept, CleanMeansSaved, BusInv
<1> QED BY <1>1 DEF BusInv, BusStateRight, Kept

LEMMA BusInvStep == BusInv /\ [BusNext]_busVars => BusInv'
<1> SUFFICES ASSUME BusInv, [BusNext]_busVars PROVE BusInv'
  OBVIOUS
<1>1. CASE LoadCartridge
  BY <1>1, LoadCartridgeKeeps
<1>2. CASE WriteRegister
  <2>1. PICK a \in Registers, v \in BusValues :
            LET next == MapperWrite(game, mapper, a, v)
                fixed == CurrentFixedRomBank(game, next)
            IN  /\ mapper' = next
                /\ board' = WriteControl(game, board, a, v)
                /\ store' = Latched(game, store, a, v)
                /\ windows' = [windows EXCEPT
                       !.switchable = IF RomBankChanged(game, a) THEN next.bank ELSE @,
                       !.fixed = IF fixed # CurrentFixedRomBank(game, mapper) THEN fixed ELSE @]
    BY <1>2 DEF WriteRegister
  <2>2. a \in Nat /\ v \in Nat /\ v < 256
    BY CartridgesAssumption
  <2>3. game \in Cartridges /\ RegistersRight(game, mapper, board, windows)
    BY <1>2 DEF WriteRegister, BusInv
  <2>4. RegistersRight(game, mapper', board', windows')
    BY <2>1, <2>2, <2>3, RegisterWrite
  <2>5. Kept(game, store, store')
    BY <2>1, LatchKeeps DEF BusInv
  <2> QED BY <1>2, <2>4, <2>5, KeptKeeps DEF WriteRegister
<1>3. CASE WriteRam
  <2>1. PICK v \in BusValues :
            store' = WriteExternalArea(game, board, WriteExternalArea(game, board, store, v), v)
    BY <1>3 DEF WriteRam
  <2>2. PICK once : once = WriteExternalArea(game, board, store, v)
    OBVIOUS
  <2>3. Kept(game, store, once)
    BY <2>2, ExternalKeeps DEF BusInv
  <2>4. Kept(game, once, store')
    BY <2>1, <2>2, <2>3, ExternalKeeps DEF Kept
  <2>5. Kept(game, store, store')
    BY <2>3, <2>4, KeptTwice
  <2>6. /\ game # NoGame
        /\ UNCHANGED <<game, mapper, board, windows, savFile, stateFile, rewound>>
    BY <1>3 DEF WriteRam
  <2> QED BY <2>5, <2>6, KeptKeeps DEF BusInv
<1>4. CASE DisableBootRom
  <2>1. /\ windows' = [windows EXCEPT !.boot = FALSE]
        /\ UNCHANGED <<game, mapper, board, store, savFile, stateFile, rewound>>
    BY <1>4 DEF DisableBootRom
  <2>2. game # NoGame => RegistersRight(game, mapper, board, windows')
    BY <2>1 DEF BusInv, RegistersRight, WindowFields
  <2> QED BY <2>1, <2>2 DEF BusInv, BusStateRight, CleanMeansSaved
<1>5. CASE FlushCartridgeSave
  <2>1. /\ game.battery /\ store.dirty
        /\ savFile' = Flushed /\ store' = [store EXCEPT !.dirty = FALSE]
        /\ UNCHANGED <<game, mapper, board, windows, stateFile>>
    BY <1>5 DEF FlushCartridgeSave
  <2>2. game \in Cartridges
    BY <2>1 DEF BusInv, NoGame
  <2>3. PICK save : save = SaveData(game, store)
    OBVIOUS
  <2>4. savFile' = [savFile EXCEPT ![game] = save]
    BY <2>1, <2>3 DEF Flushed
  <2>5. /\ StoreFields \subseteq DOMAIN store' /\ store'.ram = store.ram
        /\ store'.rtc = store.rtc /\ store'.latched = store.latched
    BY <2>1 DEF BusInv, StoreFields
  <2>6. SaveData(game, store') = save
    BY <2>3, <2>5 DEF SaveData
  <2>7. game # NoGame
    BY <2>2, NoGameIsNone
  <2>8. DOMAIN savFile' = Cartridges /\ \A c \in Cartridges : SaveIs(c, savFile'[c])
    BY <2>3, <2>4, <2>7, SaveDataIs DEF BusInv
  <2>9. CleanMeansSaved'
    BY <2>1, <2>2, <2>4, <2>6, <2>7 DEF CleanMeansSaved, BusInv
  <2> QED BY <2>1, <2>5, <2>8, <2>9 DEF BusInv, BusStateRight
<1>6. CASE SaveState
  <2>1. /\ game # NoGame
        /\ stateFile' = [game |-> game, mapper |-> mapper, board |-> board, store |-> store,
                         windows |-> windows]
        /\ UNCHANGED <<game, mapper, board, store, windows, savFile, rewound>>
    BY <1>6 DEF SaveState
  <2>2. BusStateRight'
    BY <2>1 DEF BusInv, BusStateRight
  <2> QED BY <2>1, <2>2 DEF BusInv, CleanMeansSaved
<1>7. CASE LoadState
  <2>1. /\ game # NoGame /\ stateFile.game = game
        /\ mapper' = [stateFile.mapper EXCEPT !.low = NonZero(@)]
        /\ board' = [stateFile.board EXCEPT !.low = NonZero(@)]
        /\ store' = ImportStore(game, store, stateFile.store)
        /\ windows' = [stateFile.windows EXCEPT !.fixed = CurrentFixedRomBank(game, mapper')]
        /\ rewound' = TRUE
        /\ UNCHANGED <<game, savFile, stateFile>>
    BY <1>7 DEF LoadState
  <2>2. stateFile # NothingSaved
    BY <2>1 DEF NothingSaved
  <2>3. /\ game \in Cartridges /\ StoreFields \subseteq DOMAIN stateFile.store
        /\ RegistersRight(game, stateFile.mapper, stateFile.board, stateFile.windows)
    BY <2>1, <2>2 DEF BusInv, BusStateRight
  <2>4. RegistersRight(game, mapper', board', windows')
    BY <2>1, <2>3, LoadedRegisters
  <2>5. StoreFields \subseteq DOMAIN store'
    BY <2>1, <2>3 DEF ImportStore, StoreFields
  <2>6. CleanMeansSaved'
    BY <2>1 DEF CleanMeansSaved
  <2> QED BY <2>1, <2>4, <2>5, <2>6 DEF BusInv, BusStateRight
<1>8. CASE UNCHANGED busVars
  BY <1>8 DEF busVars, BusInv, BusStateRight, CleanMeansSaved
<1> QED BY <1>1, <1>2, <1>3, <1>4, <1>5, <1>6, <1>7, <1>8 DEF BusNext

LEMMA ViewsOfRom == BusInv => RomViewsAgree
<1> SUFFICES ASSUME BusInv, game # NoGame
             PROVE  /\ windows.fixed = CurrentFixedRomBank(game, mapper)
                    /\ windows.switchable = mapper.bank
                    /\ SameSelection
                    /\ game.mapper = BoardMapper(game) =>
                           /\ CurrentFixedRomBank(game, mapper) = FixedBankIndex(game, board)
                           /\ mapper.low = board.romBank /\ board.romBank < BankCount(game) =>
                                  mapper.bank = SwitchableBankIndex(game, board)
                           /\ game.mapper = "MBC1" => mapper.bank = SwitchableBankIndex(game, board)
  BY DEF RomViewsAgree
<1>0. /\ game \in Cartridges /\ RegistersRight(game, mapper, board, windows)
      /\ BankRight(game, mapper) /\ BoardRight(game, board) /\ SelectionRight(game, mapper, board)
  BY DEF BusInv, RegistersRight
<1>1. /\ game.mapper \in {"None", "MBC1", "MBC2", "MBC3", "MBC5"}
      /\ game.banks \in Nat /\ game.banks >= 2
      /\ RomBankCount(game) = game.banks /\ BankCount(game) = game.banks
  BY <1>0, CartridgeHas
<1>2. SameSelection
  BY <1>0, <1>1 DEF SelectionRight, SameSelection
<1>3. ASSUME game.mapper = BoardMapper(game)
      PROVE  CurrentFixedRomBank(game, mapper) = FixedBankIndex(game, board)
  <2>1. mapper.mode \in 0 .. 1
    BY <1>0 DEF BankRight
  <2>2. game.mapper = "MBC1" => mapper.mode = board.mode /\ mapper.upper = board.upper
    BY <1>0 DEF SelectionRight
  <2> QED BY <1>1, <1>3, <2>1, <2>2 DEF CurrentFixedRomBank, FixedBankIndex
<1>4. ASSUME game.mapper = BoardMapper(game), game.mapper = "MBC1"
      PROVE  mapper.bank = SwitchableBankIndex(game, board)
  <2>1. mapper.bank = Mbc1Bank(board.upper, board.low, game.banks)
    BY <1>0, <1>4 DEF SelectionRight, BankRight
  <2> QED BY <1>1, <1>4, <2>1 DEF SwitchableBankIndex
<1>5. ASSUME game.mapper = BoardMapper(game), mapper.low = board.romBank, board.romBank < game.banks
      PROVE  mapper.bank = SwitchableBankIndex(game, board)
  <2>1. board.romBank \in Nat /\ board.romBank % game.banks = board.romBank
    <3>1. board.romBank \in Nat
      BY <1>0 DEF BoardRight
    <3>2. \A n, m \in Nat : n < m => n % m = n
      OBVIOUS
    <3> QED BY <1>1, <1>5, <3>1, <3>2
  <2>2. CASE game.mapper = "None"
    <3>1. mapper.bank = 1
      BY <1>0, <2>2 DEF BankRight
    <3> QED BY <1>1, <1>5, <2>2, <3>1 DEF SwitchableBankIndex
  <2>3. CASE game.mapper = "MBC2"
    <3>1. mapper.bank = board.romBank % game.banks
      BY <1>0, <1>5, <2>3 DEF SelectionRight
    <3> QED BY <1>1, <1>5, <2>3, <3>1 DEF SwitchableBankIndex
  <2>4. CASE game.mapper = "MBC3"
    <3>1. board.romBank >= 1 /\ mapper.bank = Clamped(board.romBank, game.banks)
      BY <1>0, <1>5, <2>4 DEF BankRight, BoardRight
    <3>2. mapper.bank = board.romBank
      BY <1>1, <1>5, <2>1, <3>1 DEF Clamped
    <3>3. SwitchableBankIndex(game, board) =
              NonZero(board.romBank % game.banks) % game.banks
      BY <1>1, <1>5, <2>4 DEF SwitchableBankIndex
    <3>4. NonZero(board.romBank % game.banks) = board.romBank
      BY <2>1, <3>1 DEF NonZero
    <3> QED BY <2>1, <3>2, <3>3, <3>4
  <2>5. CASE game.mapper = "MBC5"
    <3>1. mapper.bank = Clamped(board.romBank, game.banks)
      BY <1>0, <1>5, <2>1, <2>5 DEF SelectionRight
    <3>2. mapper.bank = board.romBank
      BY <1>1, <1>5, <2>1, <3>1 DEF Clamped
    <3> QED BY <1>1, <1>5, <2>1, <2>5, <3>2 DEF SwitchableBankIndex
  <2> QED BY <1>1, <1>4, <1>5, <2>2, <2>3, <2>4, <2>5
<1> QED BY <1>0, <1>1, <1>2, <1>3, <1>4, <1>5 DEF RegistersRight

LEMMA StatesLoad == BusInv => OwnStatesLoad
<1> SUFFICES ASSUME BusInv, stateFile # NothingSaved
             PROVE  MapperAccepts(stateFile.game, stateFile.mapper)
                        /\ BoardAccepts(stateFile.game, stateFile.board)
  BY DEF OwnStatesLoad
<1>1. PICK g \in Cartridges : g = stateFile.game
  BY DEF BusInv, BusStateRight
<1>2. BankRight(g, stateFile.mapper) /\ BoardRight(g, stateFile.board)
  BY <1>1 DEF BusInv, BusStateRight, RegistersRight
<1>3. g.banks \in Nat /\ g.banks >= 2 /\ RomBankCount(g) = g.banks /\ BankCount(g) = g.banks
  BY CartridgeHas
<1>4. MapperAccepts(g, stateFile.mapper)
  BY <1>2, <1>3 DEF MapperAccepts, BankRight
<1>5. BoardAccepts(g, stateFile.board)
  BY <1>2, <1>3, BoardMappers DEF BoardAccepts, BoardRight
<1> QED BY <1>1, <1>4, <1>5

-----------------------------------------------------------------------------
(* Code, and what is read.                                                 *)

LEMMA NextOfTwo ==
    ASSUME NEW x, NEW n, NEW i PROVE [<<x, n>> EXCEPT ![Len(<<x, n>>)] = @ + i] = <<x, n + i>>
OBVIOUS

LEMMA NextOfThree ==
    ASSUME NEW x, NEW y, NEW n, NEW i
    PROVE  [<<x, y, n>> EXCEPT ![Len(<<x, y, n>>)] = @ + i] = <<x, y, n + i>>
OBVIOUS

\* A view is the storage its first byte is in, and so is each of its addresses.
LEMMA ViewIsRead ==
    ASSUME NEW a \in Nat, NEW size \in Nat, a + size <= CodeViewEnd(a), NEW i \in 0 .. size - 1
    PROVE  CodeView(a, i) = Read(a + i)
<1>0. PICK b \in Nat : b = a + i /\ b < CodeViewEnd(a)
  <2>1. CodeViewEnd(a) \in Nat
    BY DEF CodeViewEnd
  <2> QED BY <2>1
<1>1. CASE windows.boot /\ a < 256
  <2>1. b < 256
    BY <1>0, <1>1 DEF CodeViewEnd, Between
  <2>2. Cell(a) = <<"boot", a>>
    BY <1>1 DEF Cell, Between
  <2>3. Read(b) = <<"boot", b>>
    BY <1>0, <1>1, <2>1 DEF Read, ResolveEchoAddress, Cell, Between
  <2> QED BY <1>0, <2>2, <2>3, NextOfTwo, NextOfThree DEF CodeView
<1>2. CASE ~(windows.boot /\ a < 256) /\ a < 16384
  <2>1. b < 16384 /\ ~(windows.boot /\ b < 256)
    BY <1>0, <1>2 DEF CodeViewEnd, Between
  <2>2. Cell(a) = RomCell(windows.fixed, a)
    BY <1>2 DEF Cell, Between
  <2>3. Read(b) = RomCell(windows.fixed, b)
    BY <1>0, <2>1 DEF Read, ResolveEchoAddress, Cell, Between
  <2>4. Offset(a) = a /\ Offset(b) = a + i
    BY <1>0, <1>2, <2>1 DEF Offset
  <2> QED BY <1>0, <2>2, <2>3, <2>4, NextOfTwo, NextOfThree DEF CodeView, RomCell
<1>3. CASE Between(a, 16384, 32767)
  <2>1. Between(b, 16384, 32767)
    BY <1>0, <1>3 DEF CodeViewEnd, Between
  <2>2. Cell(a) = RomCell(windows.switchable, a)
    BY <1>3 DEF Cell, Between
  <2>3. Read(b) = RomCell(windows.switchable, b)
    BY <1>0, <2>1 DEF Read, ResolveEchoAddress, Cell, Between
  <2>4. Offset(a) = a - 16384 /\ Offset(b) = Offset(a) + i
    BY <1>0, <1>3, <2>1 DEF Offset, Between
  <2> QED BY <1>0, <2>2, <2>3, <2>4, NextOfTwo, NextOfThree DEF CodeView, RomCell
<1>4. CASE Between(a, 49152, 57343)
  <2>1. Between(b, 49152, 57343)
    BY <1>0, <1>4 DEF CodeViewEnd, Between
  <2>2. Cell(a) = <<"work", a - 49152>>
    BY <1>4 DEF Cell, Between
  <2>3. Read(b) = <<"work", b - 49152>>
    BY <1>0, <2>1 DEF Read, ResolveEchoAddress, Cell, Between
  <2>4. b - 49152 = a - 49152 + i
    BY <1>0
  <2> QED BY <1>0, <2>2, <2>3, <2>4, NextOfTwo, NextOfThree DEF CodeView
<1>5. CASE Between(a, 65408, 65534)
  <2>1. Between(b, 65408, 65534)
    BY <1>0, <1>5 DEF CodeViewEnd, Between
  <2>2. Cell(a) = <<"high", a>>
    BY <1>5 DEF Cell, Between
  <2>3. Read(b) = <<"high", b>>
    BY <1>0, <2>1 DEF Read, ResolveEchoAddress, Cell, Between
  <2> QED BY <1>0, <2>2, <2>3, NextOfTwo, NextOfThree DEF CodeView
<1>6. CASE ~(a < 16384) /\ ~Between(a, 16384, 32767) /\ ~Between(a, 49152, 57343)
           /\ ~Between(a, 65408, 65534)
  <2>1. CodeViewEnd(a) = 0
    BY <1>6 DEF CodeViewEnd, Between
  <2> QED BY <1>0, <2>1
<1> QED BY <1>1, <1>2, <1>3, <1>4, <1>5, <1>6

\* The cell a name is given to: the boot ROM's, the ROM's, or the RAM's.
NamedCell(name) ==
    IF name[1] = 2 THEN <<"boot", name[3]>>
    ELSE IF name[1] = 1 THEN IF name[2] < game.banks THEN <<"rom", name[2], name[3]>> ELSE <<"open">>
    ELSE IF name[3] < 8192 THEN <<"external", name[2], name[3]>>
    ELSE IF Between(name[3], 49152, 57343) THEN <<"work", name[3] - 49152>>
    ELSE <<"high", name[3]>>

LEMMA NamedPlaces ==
    ASSUME BusInv, game # NoGame, NEW a \in Nat, a < 65536, Location(a)[1] \in {1, 2, 3}
    PROVE  Read(a) = NamedCell(Location(a))
<1>0. PICK e \in Nat : /\ e = ResolveEchoAddress(a) /\ e < 65536
                       /\ ~Between(e, 57344, 65023)
  BY DEF ResolveEchoAddress, Between
<1>1. /\ windows.fixed = CurrentFixedRomBank(game, mapper) /\ windows.switchable = mapper.bank
  BY DEF BusInv, RegistersRight
<1>2. Read(a) = Cell(e)
  BY <1>0 DEF Read
<1>3. CASE windows.boot /\ e < 256
  <2>1. Location(a) = <<2, 0, e>>
    BY <1>0, <1>3 DEF Location, Between
  <2>2. Cell(e) = <<"boot", e>>
    BY <1>3 DEF Cell, Between
  <2> QED BY <1>2, <2>1, <2>2 DEF NamedCell, Between
<1>4. CASE ~(windows.boot /\ e < 256) /\ e < 32768
  <2>1. PICK bank : bank = IF e < 16384 THEN CurrentFixedRomBank(game, mapper) ELSE mapper.bank
    OBVIOUS
  <2>2. Location(a) = <<1, bank, Offset(e)>>
    BY <1>0, <1>4, <2>1 DEF Location, Between
  <2>3. Cell(e) = RomCell(bank, e)
    BY <1>1, <1>4, <2>1 DEF Cell, Between
  <2> QED BY <1>2, <2>2, <2>3 DEF NamedCell, RomCell
<1>5. CASE Between(e, 40960, 49151)
  <2>1. Location(a) = IF ExternalCell(e)[1] = "external"
                      THEN <<3, ExternalCell(e)[2], ExternalCell(e)[3]>> ELSE <<0, 0, e>>
    BY <1>0, <1>5 DEF Location, Between
  <2>2. ExternalCell(e)[1] = "external"
    <3> SUFFICES ASSUME ExternalCell(e)[1] # "external" PROVE FALSE
      OBVIOUS
    <3>1. Location(a) = <<0, 0, e>>
      BY <2>1
    <3> QED BY <3>1
  <2>3. Cell(e) = ExternalCell(e)
    BY <1>5 DEF Cell, Between
  <2>4. PICK bank \in Nat, offset \in Nat :
            offset < 8192 /\ ExternalCell(e) = <<"external", bank, offset>>
    <3>1. /\ ~(BoardMapper(game) = "None" \/ ~board.ramOn) /\ ~RtcRegisterSelected(game, board)
          /\ game.ramBanks # 0
      BY <2>2 DEF ExternalCell
    <3>2. ExternalCell(e) = <<"external", SelectedRamBankIndex(game, board),
                  (e - 40960) % (IF BoardMapper(game) = "MBC2" THEN 512 ELSE 8192)>>
      BY <3>1 DEF ExternalCell
    <3>3. PICK n \in {512, 8192} : n = (IF BoardMapper(game) = "MBC2" THEN 512 ELSE 8192)
      OBVIOUS
    <3>3a. (e - 40960) % n \in Nat /\ (e - 40960) % n < 8192
      <4>1. e - 40960 \in Nat
        BY <1>5 DEF Between
      <4>2. CASE n = 512
        BY <4>1, <4>2
      <4>3. CASE n = 8192
        BY <4>1, <4>3
      <4> QED BY <3>3, <4>2, <4>3
    <3>4. SelectedRamBankIndex(game, board) \in Nat
      <4>1. game \in Cartridges /\ board.upper \in Nat /\ board.ramBank \in Nat
        BY DEF BusInv, RegistersRight, BoardRight
      <4>2. game.ramBanks \in Nat \ {0}
        BY <3>1, <4>1, CartridgeHas
      <4>3. \A x \in Nat : x % game.ramBanks \in Nat
        BY <4>2
      <4>4. BoardMapper(game) \in {"None", "MBC1", "MBC2", "MBC3", "MBC5"}
        BY <4>1, BoardMappers
      <4> QED BY <4>1, <4>2, <4>3, <4>4 DEF SelectedRamBankIndex
    <3>5. PICK bank \in Nat : bank = SelectedRamBankIndex(game, board)
      BY <3>4
    <3>6. PICK offset \in Nat : offset = (e - 40960) % n /\ offset < 8192
      BY ONLY <3>3a
    <3>7. ExternalCell(e) = <<"external", bank, offset>>
      BY <3>2, <3>3, <3>5, <3>6
    <3> QED BY ONLY <3>5, <3>6, <3>7
  <2>5. Location(a) = <<3, bank, offset>>
    BY <2>1, <2>4
  <2> QED BY <1>2, <2>3, <2>4, <2>5 DEF NamedCell, Between
<1>6. CASE Between(e, 49152, 57343)
  <2>1. Location(a) = <<3, 0, e>>
    BY <1>0, <1>6 DEF Location, Between
  <2>2. Cell(e) = <<"work", e - 49152>>
    BY <1>6 DEF Cell, Between
  <2> QED BY <1>2, <1>6, <2>1, <2>2 DEF NamedCell, Between
<1>7. CASE Between(e, 65408, 65534)
  <2>1. Location(a) = <<3, 0, e>>
    BY <1>0, <1>7 DEF Location, Between
  <2>2. Cell(e) = <<"high", e>>
    BY <1>7 DEF Cell, Between
  <2> QED BY <1>2, <1>7, <2>1, <2>2 DEF NamedCell, Between
<1>8. CASE ~(e < 32768) /\ ~Between(e, 40960, 49151) /\ ~Between(e, 49152, 57343)
           /\ ~Between(e, 65408, 65534)
  <2>1. Location(a) \in {<<4, 0, e>>, <<0, 0, e>>, <<5, 0, e>>}
    BY <1>0, <1>8 DEF Location, Between
  <2> QED BY <2>1
<1> QED BY <1>3, <1>4, <1>5, <1>6, <1>7, <1>8

LEMMA OneName ==
    ASSUME BusInv, game # NoGame, NEW a \in Nat, a < 65536, NEW b \in Nat, b < 65536,
           Location(a) = Location(b), Location(a)[1] \in {1, 2, 3}
    PROVE  Read(a) = Read(b)
BY NamedPlaces

LEMMA CodeIsRead == BusInv => CodeIsWhatIsRead
<1>1. \A a \in Addresses : a \in Nat /\ a < 65536
  BY CartridgesAssumption
<1>2. \A size \in ViewSizes : size \in Nat
  BY CartridgesAssumption
<1>3. ASSUME NEW a \in Addresses, NEW size \in ViewSizes, a + size <= CodeViewEnd(a),
             NEW i \in 0 .. size - 1
      PROVE  CodeView(a, i) = Read(a + i)
  <2>1. a \in Nat /\ a < 65536
    BY <1>1
  <2>2. size \in Nat
    BY <1>2
  <2> QED BY ONLY <1>3, <2>1, <2>2, ViewIsRead
<1>4. ASSUME BusInv, game # NoGame, NEW a \in Addresses, NEW b \in Addresses,
             Location(a) = Location(b), Location(a)[1] \in {1, 2, 3}
      PROVE  Read(a) = Read(b)
  BY <1>1, <1>4, OneName
<1> QED BY <1>3, <1>4 DEF CodeIsWhatIsRead

-----------------------------------------------------------------------------
(* Both machines.                                                          *)

LEMMA BusesInvStep ==
    ASSUME BusInv, GearInv, [BusesNext]_busesVars
    PROVE  BusInv' /\ GearInv' /\ [GearNext]_gearVars
<1>1. [BusNext]_busVars /\ [GearNext]_gearVars
  BY DEF BusesNext, busesVars
<1> QED BY <1>1, BusInvStep, GearInvStep

\* On both machines the bank the memory map shows is the one the cartridge holds
\* and the one the code views and the debugger name; a clean cartridge is what
\* the next start will load, and every saved state can be loaded
\* (GameBoyMemoryMap.cpp, GameBoyCartridge.hpp, GameGearMemoryMap.cpp,
\* GameGearCartridge.cpp).
THEOREM CartridgesAgree == BusesSpec => []BusesAgree
<1>1. BusesInit => BusInv /\ GearInv
  BY BusInvInit, GearInvInit DEF BusesInit
<1>2. (BusInv /\ GearInv) /\ [BusesNext]_busesVars => (BusInv /\ GearInv)'
  BY BusesInvStep
<1>3. BusInv /\ GearInv => BusesAgree
  <2> SUFFICES ASSUME BusInv, GearInv PROVE BusesAgree
    OBVIOUS
  <2>1. BanksAgree
    BY ViewsOfRom, CodeIsRead, GearReads DEF BanksAgree
  <2>2. CleanMeansSaved /\ GearCleanMeansSaved
    BY DEF BusInv, GearInv
  <2>3. SavesAgree
    BY <2>2, StatesLoad, GearStatesLoad DEF SavesAgree
  <2> QED BY <2>1, <2>3 DEF BusesAgree
<1> QED BY <1>1, <1>2, <1>3, PTL DEF BusesSpec

\* The code at an address changes only in a step that moves the generation of
\* the mapping, which lowered and translated blocks are checked against
\* (GameGearMemoryMap.cpp).
THEOREM CodeMovesKnown == BusesSpec => CodeMovesOpenly
<1>1. BusesInit => BusInv /\ GearInv
  BY BusInvInit, GearInvInit DEF BusesInit
<1>2. (BusInv /\ GearInv) /\ [BusesNext]_busesVars => (BusInv /\ GearInv)'
  BY BusesInvStep
<1>3. (BusInv /\ GearInv) /\ [BusesNext]_busesVars =>
          [ (HasRom /\ \E a \in GearAddresses : CodeCell(a)' # CodeCell(a))
                => codeGeneration' # codeGeneration ]_gearVars
  <2> SUFFICES ASSUME BusInv, GearInv, [BusesNext]_busesVars,
                      NEW a \in GearAddresses, CodeCell(a)' # CodeCell(a)
               PROVE  codeGeneration' # codeGeneration
    OBVIOUS
  <2> QED BY BusesInvStep, CodeStays
<1> QED BY <1>1, <1>2, <1>3, PTL DEF BusesSpec, CodeMovesOpenly

-----------------------------------------------------------------------------
\* A property of 0 that each number hands to the next one holds up to any number.
LEMMA HandedOn ==
    ASSUME NEW N \in Nat, NEW S \in SUBSET Nat, 0 \in S,
           \A n \in Nat : n < N /\ n \in S => n + 1 \in S
    PROVE  \A n \in 0 .. N : n \in S
<1> SUFFICES ASSUME {n \in 0 .. N : n \notin S} # {} PROVE FALSE
  OBVIOUS
<1>1. {n \in 0 .. N : n \notin S} \in SUBSET Nat
  OBVIOUS
<1>2. PICK n \in {m \in 0 .. N : m \notin S} : \A m \in {k \in 0 .. N : k \notin S} : n <= m
  BY <1>1, LeastNumber
<1>3. n # 0
  BY <1>2
<1>4. PICK k \in Nat : n = k + 1 /\ k < N
  BY <1>2, <1>3
<1>5. k \in S
  BY <1>2, <1>4
<1> QED BY <1>2, <1>4, <1>5

-----------------------------------------------------------------------------
(* Translated blocks.                                                      *)

\* Which addresses are memory, and what an instruction and a block are made of.
Cells == {a \in Address : Normalize(a) = a /\ a >= RomSize}
Instructions == [at : Address, bytes : Seq(Opcodes)]
TranslatedBlock ==
    [start : Address, end : Address, instructions : Seq(Instructions), lowered : Nat,
     valid : BOOLEAN, generation : Nat, stale : BOOLEAN]

\* An instruction has its bytes, and those of a block that does not wrap lie between
\* its first and its last.
BlockRight(block) ==
    /\ block \in TranslatedBlock
    /\ block.lowered <= Len(block.instructions)
    /\ \A i \in 1 .. Len(block.instructions) : Len(block.instructions[i].bytes) \in {1, 2}
    /\ block.start <= block.end =>
           \A i \in 1 .. Len(block.instructions) :
               /\ block.start <= block.instructions[i].at
               /\ block.instructions[i].at + Len(block.instructions[i].bytes) - 1 <= block.end

\* The blocks that a page's counter counts.
Live(c, p) == {i \in DOMAIN c.blocks : c.blocks[i].valid /\ p \in CoveredPages(c.blocks[i])}

SlotRight(c, slot) ==
    slot # NoSlot =>
        /\ slot.block \in 1 .. Len(c.blocks)
        /\ slot.index \in 1 .. Len(c.blocks[slot.block].instructions)

Slots == [block : Nat, index : Nat]
CacheShape(c) ==
    c \in [blocks : Seq(TranslatedBlock), slots : [Address -> Slots], pages : [Pages -> Int], generation : Nat]

CacheRight(c) ==
    /\ CacheShape(c)
    /\ \A i \in 1 .. Len(c.blocks) : BlockRight(c.blocks[i])
    /\ \A p \in Pages : c.pages[p] = Cardinality(Live(c, p))
    /\ \A a \in Address :
          /\ SlotRight(c, c.slots[a])
          /\ c.slots[a] # NoSlot => c.blocks[c.slots[a].block].instructions[c.slots[a].index].at = a

\* Unless it escapes, an instruction of a block is what memory holds.
BlockFresh(mem, b, block) ==
    block.valid =>
        \A i \in 1 .. Len(block.instructions) :
            \/ Escapes(block, i)
            \/ block.instructions[i].bytes = Fetched(mem, b, block.instructions[i].at)

AllFresh(mem, b, c) == \A i \in 1 .. Len(c.blocks) : BlockFresh(mem, b, c.blocks[i])

BlocksInv ==
    /\ memory \in [Cells -> Opcodes] /\ pc \in Address /\ policy \in Policies
    /\ CacheRight(cache) /\ AllFresh(memory, romBank, cache)
    /\ policy = "baseline" => cache.blocks = << >>
    /\ session \in Slots /\ SlotRight(cache, session)

-----------------------------------------------------------------------------
LEMMA BlockConstants ==
    /\ RomSize \in Nat /\ RomSize > 0 /\ RamSize \in Nat /\ RamSize > 0
    /\ HighSize \in Nat /\ HighSize > 0 /\ PageSize \in Nat /\ PageSize > 0
    /\ MaxBlocks \in Nat /\ MaxBlocks > 0 /\ MaxInstructions \in Nat /\ MaxInstructions > 0
    /\ Stores \subseteq Opcodes /\ MaxStores \in Nat
BY BlocksAssumption

LEMMA AddressRanges ==
    /\ Echo \in Nat /\ High \in Nat /\ AddressCount \in Nat /\ AddressCount > 3
    /\ RomSize < Echo /\ Echo < High /\ High < AddressCount
    /\ High = Echo + RamSize /\ Echo = RomSize + RamSize
    /\ Address = 0 .. AddressCount - 1
BY BlockConstants DEF Echo, High, AddressCount, Address

\* The echo is memory, as is what lies above the ROM.
LEMMA NormalAddress ==
    ASSUME NEW a \in Address
    PROVE  /\ Normalize(a) \in Address
           /\ Normalize(a) < RomSize \/ Normalize(a) \in Cells
           /\ Normalize(a) < RomSize <=> a < RomSize
           /\ a < Echo \/ a >= High => Normalize(a) = a
BY BlockConstants, AddressRanges DEF Normalize, Cells

LEMMA ByteIsOpcode ==
    ASSUME NEW mem \in [Cells -> Opcodes], NEW b, NEW a \in Address
    PROVE  Byte(mem, b, a) \in Opcodes
BY NormalAddress DEF Byte, RomByte, Opcodes

\* An instruction has one byte or two, each from the memory.
LEMMA FetchedBytes ==
    ASSUME NEW mem \in [Cells -> Opcodes], NEW b, NEW a \in Address
    PROVE  /\ Fetched(mem, b, a) \in Seq(Opcodes)
           /\ Len(Fetched(mem, b, a)) = Length(Byte(mem, b, a))
           /\ Len(Fetched(mem, b, a)) \in {1, 2}
           /\ \A i \in 1 .. Len(Fetched(mem, b, a)) : (a + i - 1) % AddressCount \in Address
<1> DEFINE n == Length(Byte(mem, b, a))
<1>1. n \in {1, 2}
  BY DEF Length
<1>2. \A i \in 1 .. n : (a + i - 1) % AddressCount \in Address
  BY <1>1, AddressRanges
<1>3. \A i \in 1 .. n : Byte(mem, b, (a + i - 1) % AddressCount) \in Opcodes
  BY <1>2, ByteIsOpcode
<1>4. Fetched(mem, b, a) = [i \in 1 .. n |-> Byte(mem, b, (a + i - 1) % AddressCount)]
  BY DEF Fetched
<1> HIDE DEF n
<1>5. Fetched(mem, b, a) \in [1 .. n -> Opcodes]
  BY <1>3, <1>4
<1>6. n \in Nat
  BY <1>1
<1>7. Fetched(mem, b, a) \in Seq(Opcodes) /\ Len(Fetched(mem, b, a)) = n
  BY <1>5, <1>6
<1> QED BY <1>1, <1>2, <1>7 DEF n

LEMMA FetchedTwiceBytes ==
    ASSUME NEW mem \in [Cells -> Opcodes], NEW b, NEW a \in Address
    PROVE  FetchedTwice(mem, b, a) \in Seq(Opcodes) /\ Len(FetchedTwice(mem, b, a)) \in {1, 2}
<1> DEFINE n == Length(Byte(mem, b, a))
           At(i) == IF i = 1 THEN a ELSE (a + i - 2) % AddressCount
<1>1. n \in {1, 2}
  BY DEF Length
<1>2. \A i \in 1 .. n : At(i) \in Address
  BY <1>1, AddressRanges
<1>3. FetchedTwice(mem, b, a) = [i \in 1 .. n |-> Byte(mem, b, At(i))]
  BY DEF FetchedTwice
<1> HIDE DEF n, At
<1>4. \A i \in 1 .. n : Byte(mem, b, At(i)) \in Opcodes
  BY <1>2, ByteIsOpcode
<1>5. FetchedTwice(mem, b, a) \in [1 .. n -> Opcodes]
  BY <1>3, <1>4
<1>6. n \in Nat
  BY <1>1
<1>7. FetchedTwice(mem, b, a) \in Seq(Opcodes) /\ Len(FetchedTwice(mem, b, a)) = n
  BY <1>5, <1>6
<1> QED BY <1>1, <1>7

\* Pages go up with addresses.
LEMMA PageOrder ==
    ASSUME NEW a \in Address, NEW x \in Address, a <= x
    PROVE  Page(a) \in Pages /\ Page(a) \in Nat /\ Page(x) \in Nat /\ Page(a) <= Page(x)
<1>1. PICK q \in Nat, r \in Nat : a = q * PageSize + r /\ r < PageSize /\ q = a \div PageSize
  BY BlockConstants, AddressRanges
<1> QED
  BY <1>1, BlockConstants, AddressRanges DEF Page, Pages

-----------------------------------------------------------------------------
(* The cache.                                                              *)

\* d is c with some blocks invalidated.
Aged(c, d) ==
    /\ Len(d.blocks) = Len(c.blocks)
    /\ \A i \in 1 .. Len(c.blocks) :
          \E v \in BOOLEAN : d.blocks[i] = [c.blocks[i] EXCEPT !.valid = v] /\ (v => c.blocks[i].valid)

LEMMA BlockFields ==
    ASSUME NEW block, BlockRight(block), NEW v \in BOOLEAN
    PROVE  /\ BlockRight([block EXCEPT !.valid = v])
           /\ CoveredPages([block EXCEPT !.valid = v]) = CoveredPages(block)
           /\ \A i : Escapes([block EXCEPT !.valid = v], i) <=> Escapes(block, i)
<1>1. PICK d : d = [block EXCEPT !.valid = v]
  OBVIOUS
<1>2. d \in TranslatedBlock
  BY <1>1 DEF BlockRight, TranslatedBlock
<1>3. /\ d.start = block.start /\ d.end = block.end /\ d.instructions = block.instructions
      /\ d.lowered = block.lowered /\ d.stale = block.stale
  BY <1>1 DEF BlockRight, TranslatedBlock
<1> QED BY <1>1, <1>2, <1>3 DEF BlockRight, CoveredPages, Escapes

LEMMA AgedBlocks ==
    ASSUME NEW c, NEW d, CacheShape(c), \A i \in 1 .. Len(c.blocks) : BlockRight(c.blocks[i]), Aged(c, d)
    PROVE  /\ \A i \in 1 .. Len(d.blocks) : BlockRight(d.blocks[i])
           /\ \A slot : SlotRight(c, slot) => SlotRight(d, slot)
           /\ \A i \in 1 .. Len(c.blocks) : d.blocks[i].instructions = c.blocks[i].instructions
           /\ \A mem, b : AllFresh(mem, b, c) => AllFresh(mem, b, d)
<1>1. ASSUME NEW i \in 1 .. Len(c.blocks)
      PROVE  /\ BlockRight(d.blocks[i]) /\ d.blocks[i].instructions = c.blocks[i].instructions
             /\ d.blocks[i].valid => c.blocks[i].valid
             /\ \A k : Escapes(d.blocks[i], k) <=> Escapes(c.blocks[i], k)
  <2>1. PICK v \in BOOLEAN : d.blocks[i] = [c.blocks[i] EXCEPT !.valid = v] /\ (v => c.blocks[i].valid)
    BY DEF Aged
  <2>2. BlockRight(c.blocks[i])
    OBVIOUS
  <2>3. /\ BlockRight(d.blocks[i])
        /\ \A k : Escapes(d.blocks[i], k) <=> Escapes(c.blocks[i], k)
    BY <2>1, <2>2, BlockFields
  <2>4. d.blocks[i].instructions = c.blocks[i].instructions /\ d.blocks[i].valid = v
    BY <2>1, <2>2 DEF BlockRight, TranslatedBlock
  <2> QED BY <2>1, <2>3, <2>4
<1>2. Len(d.blocks) = Len(c.blocks)
  BY DEF Aged
<1>3. ASSUME NEW slot, SlotRight(c, slot) PROVE SlotRight(d, slot)
  BY <1>1, <1>2, <1>3 DEF SlotRight
<1>4. ASSUME NEW mem, NEW b, AllFresh(mem, b, c) PROVE AllFresh(mem, b, d)
  <2>1. ASSUME NEW i \in 1 .. Len(c.blocks) PROVE BlockFresh(mem, b, d.blocks[i])
    <3>1. BlockFresh(mem, b, c.blocks[i])
      BY <1>4 DEF AllFresh
    <3> QED BY <3>1, <1>1 DEF BlockFresh
  <2> QED BY <1>2, <2>1 DEF AllFresh
<1> QED BY <1>1, <1>2, <1>3, <1>4

LEMMA LiveFinite ==
    ASSUME NEW c, CacheShape(c), NEW p
    PROVE  IsFiniteSet(Live(c, p)) /\ Cardinality(Live(c, p)) \in Nat /\ Live(c, p) \in SUBSET (1 .. Len(c.blocks))
<1>1. DOMAIN c.blocks = 1 .. Len(c.blocks) /\ Len(c.blocks) \in Nat
  BY DEF CacheShape
<1>2. IsFiniteSet(1 .. Len(c.blocks))
  BY <1>1, FS_Interval
<1>3. Live(c, p) \in SUBSET (1 .. Len(c.blocks))
  BY <1>1 DEF Live
<1>4. IsFiniteSet(Live(c, p))
  BY <1>2, <1>3, FS_Subset
<1> QED BY <1>3, <1>4, FS_CardinalityType

\* Invalidating blocks that are valid keeps the slots and the pages' counters exact.
LEMMA BlocksInvalidated ==
    ASSUME NEW c, CacheRight(c), NEW doomed \in SUBSET (1 .. Len(c.blocks)),
           \A i \in doomed : c.blocks[i].valid
    PROVE  /\ CacheRight(InvalidateBlocks(c, doomed)) /\ Aged(c, InvalidateBlocks(c, doomed))
           /\ \A i \in doomed : ~InvalidateBlocks(c, doomed).blocks[i].valid
<1>1. PICK d : d = InvalidateBlocks(c, doomed)
  OBVIOUS
<1>2. CacheShape(c) /\ DOMAIN c.blocks = 1 .. Len(c.blocks) /\ Len(c.blocks) \in Nat
  BY DEF CacheRight, CacheShape
<1>3. PICK blocks : blocks = [i \in DOMAIN c.blocks |-> [c.blocks[i] EXCEPT !.valid = @ /\ i \notin doomed]]
  OBVIOUS
<1>4. PICK slots : slots = [a \in Address |-> IF c.slots[a].block \in doomed THEN NoSlot ELSE c.slots[a]]
  OBVIOUS
<1>5. PICK pages : pages = [p \in Pages |-> c.pages[p] - Cardinality({i \in doomed : p \in CoveredPages(c.blocks[i])})]
  OBVIOUS
<1>6. d = [c EXCEPT !.blocks = blocks, !.slots = slots, !.pages = pages]
  BY <1>1, <1>3, <1>4, <1>5, Zenon DEF InvalidateBlocks
<1>7. d.blocks = blocks /\ d.slots = slots /\ d.pages = pages /\ d.generation = c.generation
  BY <1>6, <1>2 DEF CacheShape
<1>8. ASSUME NEW i \in 1 .. Len(c.blocks)
      PROVE  /\ BlockRight(c.blocks[i]) /\ blocks[i] \in TranslatedBlock
             /\ \E v \in BOOLEAN : blocks[i] = [c.blocks[i] EXCEPT !.valid = v] /\ (v <=> c.blocks[i].valid /\ i \notin doomed)
             /\ blocks[i].valid <=> c.blocks[i].valid /\ i \notin doomed
             /\ CoveredPages(blocks[i]) = CoveredPages(c.blocks[i])
  <2>1. PICK v \in BOOLEAN : v = (c.blocks[i].valid /\ i \notin doomed)
    OBVIOUS
  <2>2. blocks[i] = [c.blocks[i] EXCEPT !.valid = v]
    BY <1>2, <1>3, <2>1
  <2>3. BlockRight(c.blocks[i])
    BY DEF CacheRight
  <2>4. BlockRight(blocks[i]) /\ CoveredPages(blocks[i]) = CoveredPages(c.blocks[i])
    BY <2>2, <2>3, BlockFields
  <2>5. blocks[i].valid = v /\ blocks[i] \in TranslatedBlock
    BY <2>2, <2>3, <2>4 DEF BlockRight, TranslatedBlock
  <2> QED BY <2>1, <2>2, <2>3, <2>4, <2>5
<1>9. blocks \in Seq(TranslatedBlock) /\ Len(blocks) = Len(c.blocks)
  <2>1. DOMAIN blocks = 1 .. Len(c.blocks) /\ blocks = [i \in 1 .. Len(c.blocks) |-> blocks[i]]
    BY <1>2, <1>3
  <2>2. blocks \in [1 .. Len(c.blocks) -> TranslatedBlock]
    BY <1>8, <2>1
  <2> QED BY <1>2, <2>2
<1>10. Aged(c, d)
  BY <1>7, <1>8, <1>9 DEF Aged
<1>11. ASSUME NEW p \in Pages
       PROVE  pages[p] \in Int /\ pages[p] = Cardinality(Live(d, p))
  <2> DEFINE gone == {i \in doomed : p \in CoveredPages(c.blocks[i])}
  <2>1. IsFiniteSet(Live(c, p)) /\ Cardinality(Live(c, p)) \in Nat
    BY <1>2, LiveFinite
  <2>2. gone \subseteq Live(c, p)
    BY <1>2 DEF Live
  <2>3. Live(d, p) = Live(c, p) \ gone
    BY <1>2, <1>7, <1>8, <1>9 DEF Live
  <2>4. Live(c, p) \cap gone = gone
    BY <2>2
  <2>5. pages[p] = c.pages[p] - Cardinality(gone)
    BY <1>5
  <2>6. c.pages[p] = Cardinality(Live(c, p))
    BY DEF CacheRight
  <2> HIDE DEF gone
  <2>7. IsFiniteSet(gone) /\ Cardinality(gone) \in Nat
    BY <2>1, <2>2, FS_Subset, FS_CardinalityType
  <2>8. Cardinality(Live(d, p)) = Cardinality(Live(c, p)) - Cardinality(gone)
    BY <2>1, <2>3, <2>4, FS_Difference
  <2> QED BY <2>1, <2>5, <2>6, <2>7, <2>8
<1>12. pages \in [Pages -> Int]
  BY <1>5, <1>11
<1>13. slots \in [Address -> Slots]
  BY <1>2, <1>4 DEF CacheShape, Slots, NoSlot
<1>14. CacheShape(d)
  BY <1>2, <1>6, <1>9, <1>12, <1>13 DEF CacheShape
<1>15. ASSUME NEW a \in Address, slots[a] # NoSlot
       PROVE  /\ slots[a] = c.slots[a] /\ SlotRight(c, c.slots[a])
              /\ c.blocks[c.slots[a].block].instructions[c.slots[a].index].at = a
  <2>1. slots[a] = c.slots[a]
    BY <1>4, <1>15
  <2> QED BY <2>1, <1>15 DEF CacheRight
<1>16. /\ \A slot : SlotRight(c, slot) => SlotRight(d, slot)
       /\ \A i \in 1 .. Len(c.blocks) : d.blocks[i].instructions = c.blocks[i].instructions
       /\ \A i \in 1 .. Len(d.blocks) : BlockRight(d.blocks[i])
  BY <1>2, <1>8, <1>10, AgedBlocks
<1>17. ASSUME NEW a \in Address
       PROVE  /\ SlotRight(d, d.slots[a])
              /\ d.slots[a] # NoSlot => d.blocks[d.slots[a].block].instructions[d.slots[a].index].at = a
  <2>1. CASE slots[a] = NoSlot
    BY <2>1, <1>7 DEF SlotRight
  <2>2. CASE slots[a] # NoSlot
    <3>1. SlotRight(d, d.slots[a])
      BY <2>2, <1>7, <1>15, <1>16
    <3>2. d.slots[a].block \in 1 .. Len(c.blocks)
      BY <2>2, <1>7, <1>15 DEF SlotRight
    <3>3. d.slots[a] = c.slots[a]
      BY <2>2, <1>7, <1>15
    <3>4. d.blocks[c.slots[a].block].instructions = c.blocks[c.slots[a].block].instructions
      BY <3>2, <3>3, <1>16
    <3>5. c.blocks[c.slots[a].block].instructions[c.slots[a].index].at = a
      BY <2>2, <1>7, <1>15
    <3> QED BY <3>1, <3>3, <3>4, <3>5
  <2> QED BY <2>1, <2>2
<1>18. \A p \in Pages : d.pages[p] = Cardinality(Live(d, p))
  BY <1>7, <1>11
<1>19. CacheRight(d)
  BY <1>14, <1>16, <1>17, <1>18 DEF CacheRight
<1>20. \A i \in doomed : ~d.blocks[i].valid
  BY <1>7, <1>8
<1> QED BY <1>1, <1>10, <1>19, <1>20

\* A cache without blocks is right.
LEMMA CacheEmptied ==
    ASSUME NEW c, CacheShape(c)
    PROVE  /\ CacheRight(ClearEntries(c)) /\ ClearEntries(c).blocks = << >>
           /\ ClearEntries(c).generation = c.generation
           /\ CacheRight(ClearAll(c)) /\ ClearAll(c).blocks = << >>
           /\ CacheRight(EmptyCache) /\ EmptyCache.blocks = << >>
<1>1. ASSUME NEW d, d.blocks = << >>, d.slots = EmptySlots, d.pages = NoPages, CacheShape(d)
      PROVE  CacheRight(d)
  <2>1. \A a \in Address : d.slots[a] = NoSlot
    BY <1>1 DEF EmptySlots
  <2>2. \A p \in Pages : Live(d, p) = {} /\ d.pages[p] = 0
    BY <1>1 DEF Live, NoPages
  <2>3. Cardinality({}) = 0
    BY FS_EmptySet
  <2>4. 1 .. Len(d.blocks) = {}
    BY <1>1
  <2> QED BY <1>1, <2>1, <2>2, <2>3, <2>4 DEF CacheRight, SlotRight
<1>2. << >> \in Seq(TranslatedBlock) /\ EmptySlots \in [Address -> Slots] /\ NoPages \in [Pages -> Int]
  BY EmptySeq DEF EmptySlots, NoSlot, Slots, NoPages
<1>3. CacheShape(ClearEntries(c)) /\ CacheShape(ClearAll(c)) /\ CacheShape(EmptyCache)
  <2>1. CacheShape(ClearEntries(c))
    BY <1>2 DEF CacheShape, ClearEntries
  <2>2. ASSUME NEW e, CacheShape(e) PROVE CacheShape([e EXCEPT !.generation = @ + 1])
    <3>1. PICK n \in Nat : n = e.generation + 1
      BY <2>2 DEF CacheShape
    <3>2. CacheShape([e EXCEPT !.generation = n])
      BY <2>2 DEF CacheShape
    <3> QED BY <3>1, <3>2
  <2>3. CacheShape(ClearAll(c))
    BY <2>1, <2>2, Zenon DEF ClearAll
  <2> QED BY <1>2, <2>1, <2>3 DEF CacheShape, EmptyCache
<1>4. /\ ClearEntries(c).blocks = << >> /\ ClearEntries(c).slots = EmptySlots
      /\ ClearEntries(c).pages = NoPages /\ ClearEntries(c).generation = c.generation
      /\ ClearAll(c).blocks = << >> /\ ClearAll(c).slots = EmptySlots /\ ClearAll(c).pages = NoPages
  BY DEF CacheShape, ClearEntries, ClearAll
<1>5. EmptyCache.blocks = << >> /\ EmptyCache.slots = EmptySlots /\ EmptyCache.pages = NoPages
  BY DEF EmptyCache
<1> QED BY <1>1, <1>3, <1>4, <1>5

\* A new generation has no valid block.
LEMMA AllInvalidated ==
    ASSUME NEW c, CacheRight(c)
    PROVE  /\ CacheRight(InvalidateAll(c)) /\ Aged(c, InvalidateAll(c))
           /\ \A mem, b : AllFresh(mem, b, InvalidateAll(c))
<1>1. PICK d : d = InvalidateAll(c)
  OBVIOUS
<1>2. CacheShape(c) /\ DOMAIN c.blocks = 1 .. Len(c.blocks) /\ Len(c.blocks) \in Nat
  BY DEF CacheRight, CacheShape
<1>3. /\ d.slots = EmptySlots /\ d.pages = NoPages /\ d.generation = c.generation + 1
      /\ d.blocks = [i \in 1 .. Len(c.blocks) |-> [c.blocks[i] EXCEPT !.valid = FALSE]]
      /\ d = [blocks |-> d.blocks, slots |-> d.slots, pages |-> d.pages, generation |-> d.generation]
  BY <1>1, <1>2 DEF InvalidateAll, CacheShape
<1>4. ASSUME NEW i \in 1 .. Len(c.blocks)
      PROVE  d.blocks[i] = [c.blocks[i] EXCEPT !.valid = FALSE] /\ BlockRight(d.blocks[i]) /\ ~d.blocks[i].valid
  <2>1. BlockRight(c.blocks[i]) /\ d.blocks[i] = [c.blocks[i] EXCEPT !.valid = FALSE]
    BY <1>3 DEF CacheRight
  <2> QED BY <2>1, BlockFields DEF BlockRight, TranslatedBlock
<1>5. d.blocks \in Seq(TranslatedBlock) /\ Len(d.blocks) = Len(c.blocks)
  <2>1. d.blocks \in [1 .. Len(c.blocks) -> TranslatedBlock]
    BY <1>3, <1>4 DEF BlockRight
  <2> QED BY <1>2, <2>1
<1>6. Aged(c, d)
  BY <1>4, <1>5 DEF Aged
<1>7. CacheShape(d)
  <2>1. EmptySlots \in [Address -> Slots] /\ NoPages \in [Pages -> Int]
    BY DEF EmptySlots, NoSlot, Slots, NoPages
  <2>2. d.generation \in Nat
    BY <1>2, <1>3 DEF CacheShape
  <2> QED BY <1>3, <1>5, <2>1, <2>2 DEF CacheShape
<1>8. \A a \in Address : d.slots[a] = NoSlot
  BY <1>3 DEF EmptySlots
<1>9. \A p \in Pages : d.pages[p] = Cardinality(Live(d, p))
  <2>1. \A p \in Pages : Live(d, p) = {} /\ d.pages[p] = 0
    BY <1>3, <1>4, <1>5 DEF Live, NoPages
  <2> QED BY <2>1, FS_EmptySet
<1>10. CacheRight(d)
  BY <1>4, <1>5, <1>7, <1>8, <1>9 DEF CacheRight, SlotRight
<1>11. \A mem, b : AllFresh(mem, b, d)
  BY <1>4, <1>5 DEF AllFresh, BlockFresh
<1> QED BY <1>1, <1>6, <1>10, <1>11

\* A new block has its slots, and counts in its pages.
LEMMA BlockInserted ==
    ASSUME NEW c, CacheRight(c), NEW block, BlockRight(block), block.valid
    PROVE  /\ CacheRight(Insert(c, block))
           /\ \A mem, b : AllFresh(mem, b, c) /\ BlockFresh(mem, b, block) => AllFresh(mem, b, Insert(c, block))
<1>1. PICK room : room = IF Len(c.blocks) >= MaxBlocks THEN ClearEntries(c) ELSE c
  OBVIOUS
<1>2. CacheRight(room) /\ room.generation = c.generation
  BY <1>1, CacheEmptied DEF CacheRight
<1>3. \A mem, b : AllFresh(mem, b, c) => AllFresh(mem, b, room)
  <2>1. CASE room = c
    BY <2>1
  <2>2. CASE room = ClearEntries(c)
    <3>1. CacheShape(c)
      BY DEF CacheRight
    <3>2. ClearEntries(c).blocks = << >>
      BY <3>1, CacheEmptied, ZenonT(20)
    <3>3. Len(room.blocks) = 0
      BY <2>2, <3>2
    <3> QED BY <3>3 DEF AllFresh
  <2> QED BY <1>1, <2>1, <2>2
<1>4. CacheShape(room) /\ DOMAIN room.blocks = 1 .. Len(room.blocks) /\ Len(room.blocks) \in Nat
  <2>1. CacheShape(room)
    BY <1>2 DEF CacheRight
  <2>2. room.blocks \in Seq(TranslatedBlock)
    BY <2>1 DEF CacheShape
  <2> QED BY <2>1, <2>2, LenProperties
<1>5. PICK n \in Nat : n = Len(room.blocks) + 1
  BY <1>4
<1>6. PICK new : new = [block EXCEPT !.generation = c.generation]
  OBVIOUS
<1>7. /\ new.start = block.start /\ new.end = block.end /\ new.instructions = block.instructions
      /\ new.lowered = block.lowered /\ new.stale = block.stale /\ new.valid
      /\ new \in TranslatedBlock
  BY <1>2, <1>4, <1>6 DEF BlockRight, TranslatedBlock, CacheShape
<1>8. /\ BlockRight(new) /\ CoveredPages(new) = CoveredPages(block)
      /\ \A i : Escapes(new, i) <=> Escapes(block, i)
  BY <1>7 DEF BlockRight, CoveredPages, Escapes
<1> DEFINE Starts(a) == {i \in DOMAIN block.instructions : block.instructions[i].at = a}
<1>9. PICK slots : slots = [a \in Address |-> IF Starts(a) = {} THEN room.slots[a]
                                             ELSE [block |-> n, index |-> CHOOSE i \in Starts(a) : TRUE]]
  OBVIOUS
<1>10. PICK pages : pages = [p \in Pages |-> room.pages[p] + (IF p \in CoveredPages(block) THEN 1 ELSE 0)]
  OBVIOUS
<1>11. PICK d : d = [room EXCEPT !.blocks = Append(room.blocks, new), !.slots = slots, !.pages = pages]
  OBVIOUS
<1>12. d = Insert(c, block)
  BY <1>1, <1>5, <1>6, <1>9, <1>10, <1>11, Zenon DEF Insert
<1>13. /\ d.blocks = Append(room.blocks, new) /\ d.slots = slots /\ d.pages = pages
       /\ d.generation = c.generation
  BY <1>2, <1>4, <1>11 DEF CacheShape
<1>14. /\ d.blocks \in Seq(TranslatedBlock) /\ Len(d.blocks) = n /\ d.blocks[n] = new
       /\ \A i \in 1 .. Len(room.blocks) : d.blocks[i] = room.blocks[i]
  <2>1. room.blocks \in Seq(TranslatedBlock)
    BY <1>4 DEF CacheShape
  <2> QED BY <2>1, <1>5, <1>7, <1>13
<1>15. \A i \in 1 .. n : i = n \/ i \in 1 .. Len(room.blocks)
  BY <1>4, <1>5
<1>16. \A i \in 1 .. Len(d.blocks) : BlockRight(d.blocks[i])
  BY <1>2, <1>8, <1>14, <1>15 DEF CacheRight
<1>17. ASSUME NEW p \in Pages
       PROVE  pages[p] \in Int /\ d.pages[p] = Cardinality(Live(d, p))
  <2>1. IsFiniteSet(Live(room, p)) /\ Cardinality(Live(room, p)) \in Nat /\ n \notin Live(room, p)
    <3>1. Live(room, p) \in SUBSET (1 .. Len(room.blocks))
      BY <1>4, LiveFinite
    <3>2. n \notin 1 .. Len(room.blocks)
      BY <1>4, <1>5
    <3> QED BY <1>4, <3>1, <3>2, LiveFinite
  <2>2. room.pages[p] = Cardinality(Live(room, p))
    BY <1>2 DEF CacheRight
  <2>3. DOMAIN d.blocks = 1 .. n
    BY <1>14
  <2>4. CASE p \in CoveredPages(block)
    <3>1. Live(d, p) = Live(room, p) \cup {n}
      BY <1>4, <1>5, <1>7, <1>8, <1>14, <1>15, <2>3, <2>4 DEF Live
    <3>2. Cardinality(Live(room, p) \cup {n}) = Cardinality(Live(room, p)) + 1
      BY <2>1, FS_AddElement
    <3>3. pages[p] = room.pages[p] + 1
      BY <1>10, <2>4
    <3> QED BY <3>1, <3>2, <3>3, <1>13, <2>1, <2>2
  <2>5. CASE p \notin CoveredPages(block)
    <3>1. Live(d, p) = Live(room, p)
      BY <1>4, <1>5, <1>7, <1>8, <1>14, <1>15, <2>3, <2>5 DEF Live
    <3>2. pages[p] = room.pages[p] + 0
      BY <1>10, <2>5
    <3> QED BY <3>1, <3>2, <1>13, <2>1, <2>2
  <2> QED BY <2>4, <2>5
<1>18. ASSUME NEW a \in Address
       PROVE  /\ slots[a] \in Slots /\ SlotRight(d, d.slots[a])
              /\ d.slots[a] # NoSlot => d.blocks[d.slots[a].block].instructions[d.slots[a].index].at = a
  <2>1. CASE Starts(a) = {}
    <3>1. d.slots[a] = room.slots[a]
      BY <1>9, <1>13, <2>1
    <3>2. room.slots[a] \in Slots
      BY <1>4 DEF CacheShape
    <3>3. CASE room.slots[a] = NoSlot
      BY <3>1, <3>2, <3>3, <1>13 DEF SlotRight
    <3>4. CASE room.slots[a] # NoSlot
      <4>1. /\ room.slots[a].block \in 1 .. Len(room.blocks)
            /\ room.slots[a].index \in 1 .. Len(room.blocks[room.slots[a].block].instructions)
            /\ room.blocks[room.slots[a].block].instructions[room.slots[a].index].at = a
        BY <1>2, <3>4 DEF CacheRight, SlotRight
      <4>2. d.blocks[room.slots[a].block] = room.blocks[room.slots[a].block]
        BY <1>14, <4>1
      <4>3. room.slots[a].block \in 1 .. n
        BY <1>4, <1>5, <4>1
      <4> QED BY <3>1, <3>2, <4>1, <4>2, <4>3, <1>13, <1>14 DEF SlotRight
    <3> QED BY <3>3, <3>4
  <2>2. CASE Starts(a) # {}
    <3>1. PICK i : i = CHOOSE j \in Starts(a) : TRUE
      OBVIOUS
    <3>2. i \in Starts(a)
      BY <2>2, <3>1
    <3>3. i \in 1 .. Len(block.instructions) /\ block.instructions[i].at = a
      BY <3>2 DEF BlockRight, TranslatedBlock
    <3>4. d.slots[a] = [block |-> n, index |-> i]
      BY <1>9, <1>13, <2>2, <3>1
    <3>5. n \in 1 .. n /\ i \in Nat
      BY <1>4, <1>5, <3>3
    <3> HIDE DEF Starts
    <3> QED BY <3>3, <3>4, <3>5, <1>7, <1>13, <1>14 DEF SlotRight, Slots
  <2> QED BY <2>1, <2>2
<1>19. slots \in [Address -> Slots]
  BY <1>9, <1>18
<1>20. pages \in [Pages -> Int]
  BY <1>10, <1>17
<1>21. CacheShape(d)
  BY <1>4, <1>11, <1>13, <1>14, <1>19, <1>20 DEF CacheShape
<1>22. CacheRight(d)
  BY <1>16, <1>17, <1>18, <1>21 DEF CacheRight
<1>23. ASSUME NEW mem, NEW b, AllFresh(mem, b, c), BlockFresh(mem, b, block)
       PROVE  AllFresh(mem, b, d)
  <2>1. BlockFresh(mem, b, new)
    BY <1>7, <1>8, <1>23 DEF BlockFresh
  <2>2. AllFresh(mem, b, room)
    BY <1>3, <1>23
  <2> QED BY <2>1, <2>2, <1>14, <1>15 DEF AllFresh
<1> QED BY <1>12, <1>22, <1>23

-----------------------------------------------------------------------------
(* Stores.                                                                 *)

EffectRight(e) == e = NoStore \/ e \in [at : Address, value : Stores]

LEMMA EffectsRight ==
    ASSUME NEW e \in Effects PROVE EffectRight(e)
BY DEF Effects, EffectRight

LEMMA StoreIsNone ==
    ASSUME NEW e \in [at : Address, value : Stores]
    PROVE  e # NoStore /\ e.at \in Address /\ e.value \in Opcodes
BY AddressRanges, BlockConstants DEF NoStore

LEMMA StoredIsMemory ==
    ASSUME NEW mem \in [Cells -> Opcodes], NEW e, EffectRight(e)
    PROVE  Stored(mem, e) \in [Cells -> Opcodes]
<1>1. CASE e = NoStore
  BY <1>1 DEF Stored
<1>2. CASE e \in [at : Address, value : Stores]
  BY <1>2, StoreIsNone, NormalAddress DEF Stored
<1> QED BY <1>1, <1>2 DEF EffectRight

\* An address that is neither echo nor stored into holds what it held.
LEMMA ByteKept ==
    ASSUME NEW mem \in [Cells -> Opcodes], NEW b, NEW e \in [at : Address, value : Stores],
           Normalize(e.at) >= RomSize, NEW a \in Address, a < Echo \/ a >= High, a # Normalize(e.at)
    PROVE  Byte(Stored(mem, e), Banked(b, e), a) = Byte(mem, b, a)
<1>1. e # NoStore /\ e.at \in Address /\ e.value \in Opcodes
  BY StoreIsNone
<1>2. Normalize(e.at) \in Cells /\ ~(e.at < RomSize) /\ ~(Normalize(e.at) < RomSize)
  BY <1>1, NormalAddress, BlockConstants, AddressRanges
<1>3. Normalize(a) = a /\ (a < RomSize \/ a \in Cells)
  BY NormalAddress
<1>4. Banked(b, e) = b /\ Stored(mem, e) = [mem EXCEPT ![Normalize(e.at)] = e.value]
  BY <1>1, <1>2 DEF Banked, Stored
<1> QED BY <1>2, <1>3, <1>4 DEF Byte

\* The bytes of an instruction that does not wrap.
LEMMA FetchedByte ==
    ASSUME NEW mem, NEW b, NEW a \in Address, a + Length(Byte(mem, b, a)) - 1 < AddressCount
    PROVE  Fetched(mem, b, a) = [i \in 1 .. Length(Byte(mem, b, a)) |-> Byte(mem, b, a + i - 1)]
<1>1. PICK n \in {1, 2} : n = Length(Byte(mem, b, a))
  BY DEF Length
<1>2. ASSUME NEW i \in 1 .. n PROVE (a + i - 1) % AddressCount = a + i - 1
  <2>1. a + i - 1 \in Nat /\ a + i - 1 < AddressCount
    BY <1>1, AddressRanges
  <2>2. \A x, y \in Nat : x < y => x % y = x
    OBVIOUS
  <2> QED BY <2>1, <2>2, AddressRanges
<1> QED BY <1>1, <1>2 DEF Fetched

\* An instruction stays as it is if none of its bytes is in the echo or stored into.
LEMMA FetchedKept ==
    ASSUME NEW mem \in [Cells -> Opcodes], NEW b, NEW e \in [at : Address, value : Stores],
           Normalize(e.at) >= RomSize, NEW a \in Address,
           a + Length(Byte(mem, b, a)) - 1 < AddressCount,
           \A x \in a .. a + Length(Byte(mem, b, a)) - 1 : (x < Echo \/ x >= High) /\ x # Normalize(e.at)
    PROVE  Fetched(Stored(mem, e), Banked(b, e), a) = Fetched(mem, b, a)
<1>1. PICK n \in {1, 2} : n = Length(Byte(mem, b, a))
  BY DEF Length
<1>2. ASSUME NEW i \in 1 .. n
      PROVE  Byte(Stored(mem, e), Banked(b, e), a + i - 1) = Byte(mem, b, a + i - 1)
  <2>1. a + i - 1 \in Address /\ a + i - 1 \in a .. a + n - 1
    BY <1>1, AddressRanges
  <2>2. (a + i - 1 < Echo \/ a + i - 1 >= High) /\ a + i - 1 # Normalize(e.at)
    BY <1>1, <2>1
  <2> QED BY <2>1, <2>2, ByteKept
<1>3. Byte(Stored(mem, e), Banked(b, e), a) = Byte(mem, b, a)
  <2>1. a + 1 - 1 = a /\ 1 \in 1 .. n
    BY <1>1, AddressRanges
  <2> QED BY <2>1, <1>2
<1>4. Fetched(mem, b, a) = [i \in 1 .. n |-> Byte(mem, b, a + i - 1)]
  BY <1>1, FetchedByte
<1>5. Fetched(Stored(mem, e), Banked(b, e), a) = [i \in 1 .. n |-> Byte(Stored(mem, e), Banked(b, e), a + i - 1)]
  BY <1>1, <1>3, FetchedByte
<1> QED BY <1>2, <1>4, <1>5

\* What an instruction that does not escape was read from.
LEMMA SpanOfBlock ==
    ASSUME NEW mem \in [Cells -> Opcodes], NEW b, NEW block, BlockRight(block), block.valid,
           BlockFresh(mem, b, block), NEW i \in 1 .. Len(block.instructions), ~Escapes(block, i)
    PROVE  LET a == block.instructions[i].at
               n == Length(Byte(mem, b, a))
           IN  /\ a \in Address /\ n = Len(block.instructions[i].bytes)
               /\ block.start \in Address /\ block.end \in Address
               /\ block.start <= a /\ a + n - 1 <= block.end
               /\ \A x \in a .. a + n - 1 : x < Echo \/ x >= High
<1> DEFINE a == block.instructions[i].at
           n == Length(Byte(mem, b, a))
<1>1. /\ a \in Address /\ block.instructions[i].bytes \in Seq(Opcodes)
      /\ block.start \in Address /\ block.end \in Address
      /\ block.instructions \in Seq(Instructions)
  <2>1. /\ block.start \in Address /\ block.end \in Address
        /\ block.instructions \in Seq(Instructions)
    BY DEF BlockRight, TranslatedBlock
  <2>2. block.instructions[i] \in Instructions
    BY <2>1, ElementOfSeq
  <2> QED BY <2>1, <2>2 DEF Instructions
<1>2. block.instructions[i].bytes = Fetched(mem, b, a)
  BY DEF BlockFresh
<1>3. Len(block.instructions[i].bytes) = n /\ n \in {1, 2}
  <2>1. a \in Address
    BY <1>1
  <2> HIDE DEF a
  <2>2. Len(Fetched(mem, b, a)) = n /\ n \in {1, 2}
    BY <2>1, FetchedBytes
  <2> QED BY <1>2, <2>2
<1>4. block.start <= block.end
  BY <1>1, AddressRanges DEF Escapes
<1>5. block.start <= a /\ a + Len(block.instructions[i].bytes) - 1 <= block.end
  BY <1>4 DEF BlockRight
<1> HIDE DEF a, n
<1>6. ASSUME NEW x \in a .. a + n - 1 PROVE x < Echo \/ x >= High
  <2>1. PICK k \in 1 .. n : x = a + k - 1
    <3>1. x - a + 1 \in 1 .. n /\ x = a + (x - a + 1) - 1
      BY <1>1, <1>3, AddressRanges
    <3> QED BY <3>1
  <2>2. x \in Address
    BY <1>1, <1>3, <1>5, AddressRanges
  <2>3. x % AddressCount = x
    <3>1. \A u, v \in Nat : u < v => u % v = u
      OBVIOUS
    <3> QED BY <2>2, <3>1, AddressRanges
  <2>4. k \in DOMAIN block.instructions[i].bytes
    BY <1>1, <1>3, <2>1
  <2>5. i \in DOMAIN block.instructions
    BY <1>1
  <2>6. x = (block.instructions[i].at + k - 1) % AddressCount
    BY <2>1, <2>3 DEF a
  <2>7. x \in Span(block.instructions)
    BY <2>4, <2>5, <2>6 DEF Span
  <2> QED BY <2>2, <2>7, AddressRanges DEF Escapes
<1> QED BY <1>1, <1>3, <1>5, <1>6 DEF a, n

\* A store between no block's ends leaves the block as memory holds it.
LEMMA BlockKept ==
    ASSUME NEW mem \in [Cells -> Opcodes], NEW b, NEW block, BlockRight(block), BlockFresh(mem, b, block),
           NEW e \in [at : Address, value : Stores], Normalize(e.at) >= RomSize,
           ~(block.start <= Normalize(e.at) /\ block.end >= Normalize(e.at))
    PROVE  BlockFresh(Stored(mem, e), Banked(b, e), block)
<1> SUFFICES ASSUME block.valid, NEW i \in 1 .. Len(block.instructions), ~Escapes(block, i)
             PROVE  block.instructions[i].bytes
                        = Fetched(Stored(mem, e), Banked(b, e), block.instructions[i].at)
  BY DEF BlockFresh
<1>1. PICK a : a = block.instructions[i].at
  OBVIOUS
<1>2. PICK n \in {1, 2} : n = Length(Byte(mem, b, a))
  BY DEF Length
<1>3. /\ a \in Address /\ block.start \in Address /\ block.end \in Address
      /\ block.start <= a /\ a + n - 1 <= block.end
      /\ \A x \in a .. a + n - 1 : x < Echo \/ x >= High
  BY <1>1, <1>2, SpanOfBlock
<1>4. block.instructions[i].bytes = Fetched(mem, b, a)
  BY <1>1 DEF BlockFresh
<1>5. Normalize(e.at) \in Address
  BY NormalAddress
<1>6. a + n - 1 < AddressCount /\ \A x \in a .. a + n - 1 : x # Normalize(e.at)
  BY <1>2, <1>3, <1>5, AddressRanges
<1> QED BY <1>1, <1>2, <1>3, <1>4, <1>6, FetchedKept

\* Where a block begins and ends its page counts it.
LEMMA AddressCounted ==
    ASSUME NEW c, CacheRight(c), NEW a \in Address, NEW i \in 1 .. Len(c.blocks), c.blocks[i].valid,
           c.blocks[i].start <= a, c.blocks[i].end >= a
    PROVE  c.pages[Page(a)] # 0
<1>1. c.blocks[i].start \in Address /\ c.blocks[i].end \in Address
  BY DEF CacheRight, BlockRight, TranslatedBlock
<1>2. /\ Page(a) \in Pages /\ Page(a) \in Nat /\ Page(c.blocks[i].start) \in Nat
      /\ Page(c.blocks[i].end) \in Nat
      /\ Page(c.blocks[i].start) <= Page(a) /\ Page(a) <= Page(c.blocks[i].end)
  BY <1>1, PageOrder
<1>3. Page(a) \in CoveredPages(c.blocks[i])
  BY <1>2 DEF CoveredPages
<1>4. CacheShape(c) /\ i \in DOMAIN c.blocks
  BY DEF CacheRight, CacheShape
<1>5. Live(c, Page(a)) # {}
  BY <1>3, <1>4 DEF Live
<1>6. c.pages[Page(a)] = Cardinality(Live(c, Page(a)))
  BY <1>2 DEF CacheRight
<1> QED BY <1>4, <1>5, <1>6, LiveFinite, FS_EmptySet

LEMMA AgedAlike ==
    ASSUME NEW c, CacheRight(c) PROVE Aged(c, c)
<1>1. ASSUME NEW i \in 1 .. Len(c.blocks)
      PROVE  \E v \in BOOLEAN : c.blocks[i] = [c.blocks[i] EXCEPT !.valid = v] /\ (v => c.blocks[i].valid)
  <2>1. c.blocks[i] \in TranslatedBlock
    BY DEF CacheRight, BlockRight
  <2>2. c.blocks[i].valid \in BOOLEAN /\ c.blocks[i] = [c.blocks[i] EXCEPT !.valid = c.blocks[i].valid]
    BY <2>1 DEF TranslatedBlock
  <2> QED BY <2>2
<1> QED BY <1>1 DEF Aged

\* What a store does to memory and to the cache leaves every block as memory holds it.
LEMMA WriteInvalidates ==
    ASSUME NEW c, CacheRight(c), AllFresh(memory, romBank, c), memory \in [Cells -> Opcodes],
           policy = "baseline" => c.blocks = << >>, NEW e, EffectRight(e)
    PROVE  /\ CacheRight(InvalidateForWrite(c, e)) /\ Aged(c, InvalidateForWrite(c, e))
           /\ AllFresh(Stored(memory, e), Banked(romBank, e), InvalidateForWrite(c, e))
<1>1. CASE e = NoStore
  <2>1. InvalidateForWrite(c, e) = c /\ Stored(memory, e) = memory /\ Banked(romBank, e) = romBank
    BY <1>1 DEF InvalidateForWrite, Stored, Banked
  <2> QED BY <2>1, AgedAlike
<1>2. CASE e \in [at : Address, value : Stores]
  <2>1. e # NoStore /\ e.at \in Address
    BY <1>2, StoreIsNone
  <2>2. PICK a \in Address : a = Normalize(e.at)
    BY <2>1, NormalAddress
  <2>3. CASE a < RomSize
    <3>1. ~(a >= RomSize)
      BY <2>3, AddressRanges, BlockConstants
    <3>2. InvalidateForWrite(c, e) = InvalidateAll(c)
      BY <2>1, <2>2, <2>3, <3>1 DEF InvalidateForWrite
    <3> QED BY <3>2, AllInvalidated
  <2>4. CASE a >= RomSize /\ policy = "baseline"
    <3>1. ~(a < RomSize)
      BY <2>4, AddressRanges, BlockConstants
    <3>2. InvalidateForWrite(c, e) = c
      BY <2>1, <2>2, <2>4, <3>1 DEF InvalidateForWrite
    <3>3. Len(c.blocks) = 0
      BY <2>4
    <3> QED BY <3>2, <3>3, AgedAlike DEF AllFresh
  <2>5. CASE a >= RomSize /\ policy # "baseline"
    <3>1. ~(a < RomSize)
      BY <2>5, AddressRanges, BlockConstants
    <3>2. InvalidateForWrite(c, e) = InvalidateAddress(c, a)
      BY <2>1, <2>2, <2>5, <3>1 DEF InvalidateForWrite
    <3>3. ASSUME NEW d, CacheRight(d), Aged(c, d),
                 \A i \in 1 .. Len(c.blocks) :
                     ~(d.blocks[i].valid /\ d.blocks[i].start <= a /\ d.blocks[i].end >= a)
          PROVE  AllFresh(Stored(memory, e), Banked(romBank, e), d)
      <4>1. AllFresh(memory, romBank, d) /\ Len(d.blocks) = Len(c.blocks)
        BY <3>3, AgedBlocks DEF CacheRight, Aged
      <4>2. ASSUME NEW i \in 1 .. Len(d.blocks)
            PROVE  BlockFresh(Stored(memory, e), Banked(romBank, e), d.blocks[i])
        <5>1. BlockRight(d.blocks[i]) /\ BlockFresh(memory, romBank, d.blocks[i])
          BY <3>3, <4>1 DEF CacheRight, AllFresh
        <5>2. CASE d.blocks[i].valid
          <6>1. ~(d.blocks[i].start <= Normalize(e.at) /\ d.blocks[i].end >= Normalize(e.at))
            BY <2>2, <3>3, <4>1, <5>2
          <6> QED BY <1>2, <2>2, <2>5, <5>1, <6>1, BlockKept
        <5>3. CASE ~d.blocks[i].valid
          BY <5>3 DEF BlockFresh
        <5> QED BY <5>2, <5>3
      <4> QED BY <4>2 DEF AllFresh
    <3>4. CASE c.pages[Page(a)] = 0
      <4>1. InvalidateAddress(c, a) = c
        BY <3>4 DEF InvalidateAddress
      <4>2. \A i \in 1 .. Len(c.blocks) :
                ~(c.blocks[i].valid /\ c.blocks[i].start <= a /\ c.blocks[i].end >= a)
        BY <3>4, AddressCounted
      <4> QED BY <3>2, <3>3, <4>1, <4>2, AgedAlike
    <3>5. CASE c.pages[Page(a)] # 0
      <4>1. PICK doomed : doomed = {i \in DOMAIN c.blocks : /\ c.blocks[i].valid
                                                           /\ c.blocks[i].start <= a
                                                           /\ c.blocks[i].end >= a}
        OBVIOUS
      <4>2. DOMAIN c.blocks = 1 .. Len(c.blocks)
        BY DEF CacheRight, CacheShape
      <4>3. doomed \in SUBSET (1 .. Len(c.blocks)) /\ \A i \in doomed : c.blocks[i].valid
        BY <4>1, <4>2
      <4>4. PICK d : d = InvalidateBlocks(c, doomed)
        OBVIOUS
      <4>5. InvalidateAddress(c, a) = d
        BY <3>5, <4>1, <4>4, Zenon DEF InvalidateAddress
      <4>6. CacheRight(d) /\ Aged(c, d) /\ \A i \in doomed : ~d.blocks[i].valid
        BY <4>3, <4>4, BlocksInvalidated
      <4>7. ASSUME NEW i \in 1 .. Len(c.blocks),
                   d.blocks[i].valid, d.blocks[i].start <= a, d.blocks[i].end >= a
            PROVE  FALSE
        <5>1. PICK v \in BOOLEAN : d.blocks[i] = [c.blocks[i] EXCEPT !.valid = v] /\ (v => c.blocks[i].valid)
          BY <4>6 DEF Aged
        <5>2. c.blocks[i] \in TranslatedBlock
          BY DEF CacheRight, BlockRight
        <5>3. c.blocks[i].valid /\ c.blocks[i].start <= a /\ c.blocks[i].end >= a
          BY <4>7, <5>1, <5>2 DEF TranslatedBlock
        <5>4. i \in doomed
          BY <4>1, <4>2, <5>3
        <5> QED BY <4>6, <4>7, <5>4
      <4> QED BY <3>2, <3>3, <4>5, <4>6, <4>7
    <3> QED BY <3>4, <3>5
  <2> QED BY <2>2, <2>3, <2>4, <2>5, BlockConstants, AddressRanges
<1> QED BY <1>1, <1>2 DEF EffectRight

LEMMA GuardFailed ==
    ASSUME NEW c, CacheRight(c), NEW a
    PROVE  CacheRight(InvalidateAt(c, a)) /\ Aged(c, InvalidateAt(c, a))
<1>1. PICK doomed : doomed = {i \in DOMAIN c.blocks : i = c.slots[a].block /\ c.blocks[i].valid}
  OBVIOUS
<1>2. doomed \in SUBSET (1 .. Len(c.blocks)) /\ \A i \in doomed : c.blocks[i].valid
  BY <1>1 DEF CacheRight, CacheShape
<1>3. InvalidateAt(c, a) = InvalidateBlocks(c, doomed)
  BY <1>1 DEF InvalidateAt
<1> QED BY <1>2, <1>3, BlocksInvalidated

-----------------------------------------------------------------------------
(* Translation.                                                            *)

\* A block that grows follows the program without wrapping, and holds what memory holds
\* except perhaps in its first instruction.
GrownRight(mem, b, start, bytes, d) ==
    /\ d \in Seq(Instructions) /\ Len(d) >= 1
    /\ d[1] = [at |-> start, bytes |-> bytes]
    /\ \A i \in 1 .. Len(d) :
          /\ Len(d[i].bytes) \in {1, 2} /\ start <= d[i].at
          /\ d[i].at + Len(d[i].bytes) <= d[Len(d)].at + Len(d[Len(d)].bytes)
          /\ i > 1 => d[i].bytes = Fetched(mem, b, d[i].at)
    /\ Len(d) > 1 => d[Len(d)].at + Len(d[Len(d)].bytes) <= AddressCount

LEMMA InstructionFields ==
    ASSUME NEW d \in Seq(Instructions), NEW i \in 1 .. Len(d)
    PROVE  d[i].at \in Address /\ d[i].bytes \in Seq(Opcodes) /\ Len(d[i].bytes) \in Nat
<1>1. d[i] \in Instructions
  BY ElementOfSeq
<1>2. d[i].bytes \in Seq(Opcodes) /\ d[i].at \in Address
  BY <1>1 DEF Instructions
<1> QED BY <1>2, LenProperties

LEMMA ExtendedRight ==
    ASSUME NEW mem \in [Cells -> Opcodes], NEW b, NEW start \in Address, NEW bytes, NEW d,
           GrownRight(mem, b, start, bytes, d)
    PROVE  GrownRight(mem, b, start, bytes, Extended(mem, b, d))
<1>1. PICK n \in Nat : n = Len(d) /\ n >= 1
  BY LenProperties DEF GrownRight
<1>2. PICK final \in Instructions : final = d[n]
  BY <1>1, ElementOfSeq DEF GrownRight
<1>3. PICK next : next = final.at + Len(final.bytes)
  OBVIOUS
<1>4. CASE Ends(d[1].at, final) \/ Byte(mem, b, next) = "other"
             \/ next + Length(Byte(mem, b, next)) > AddressCount
  <2>1. Extended(mem, b, d) = d
    BY <1>1, <1>2, <1>3, <1>4 DEF Extended
  <2> QED BY <2>1
<1>5. CASE ~(Ends(d[1].at, final) \/ Byte(mem, b, next) = "other"
               \/ next + Length(Byte(mem, b, next)) > AddressCount)
  <2>1. PICK new : new = [at |-> next, bytes |-> Fetched(mem, b, next)]
    OBVIOUS
  <2>2. Extended(mem, b, d) = Append(d, new)
    BY <1>1, <1>2, <1>3, <1>5, <2>1 DEF Extended
  <2>3. Len(final.bytes) \in {1, 2} /\ start <= final.at /\ final.at \in Address
    BY <1>1, <1>2 DEF GrownRight, Instructions
  <2>4. next \in Address /\ start < next
    BY <1>3, <1>5, <2>3, AddressRanges DEF Ends
  <2>5. /\ new \in Instructions /\ Len(new.bytes) = Length(Byte(mem, b, next))
        /\ Len(new.bytes) \in {1, 2} /\ new.at = next /\ new.bytes = Fetched(mem, b, new.at)
    BY <2>1, <2>4, FetchedBytes DEF Instructions
  <2>6. new.at + Len(new.bytes) <= AddressCount
    BY <1>5, <2>4, <2>5, AddressRanges
  <2>7. PICK e : e = Append(d, new)
    OBVIOUS
  <2>8. d \in Seq(Instructions)
    BY DEF GrownRight
  <2>9. /\ e \in Seq(Instructions) /\ Len(e) = n + 1 /\ e[n + 1] = new
        /\ \A i \in 1 .. n : e[i] = d[i]
    BY <1>1, <2>5, <2>7, <2>8
  <2>10. ASSUME NEW i \in 1 .. n + 1
         PROVE  /\ Len(e[i].bytes) \in {1, 2} /\ start <= e[i].at
                /\ e[i].at + Len(e[i].bytes) <= new.at + Len(new.bytes)
                /\ i > 1 => e[i].bytes = Fetched(mem, b, e[i].at)
    <3>1. CASE i \in 1 .. n
      <4>1. /\ Len(d[i].bytes) \in {1, 2} /\ start <= d[i].at
            /\ d[i].at + Len(d[i].bytes) <= next
            /\ i > 1 => d[i].bytes = Fetched(mem, b, d[i].at)
        BY <1>1, <1>2, <1>3, <3>1 DEF GrownRight
      <4>2. d[i].at \in Address
        BY <1>1, <2>8, <3>1, InstructionFields
      <4>3. d[i].at + Len(d[i].bytes) <= new.at + Len(new.bytes)
        <5>1. PICK v \in {1, 2} : v = Len(d[i].bytes)
          BY <4>1
        <5>2. PICK w \in {1, 2} : w = Len(new.bytes)
          BY <2>5
        <5>3. d[i].at \in Nat /\ new.at \in Nat /\ new.at = next
          BY <2>4, <2>5, <4>2, AddressRanges
        <5>4. d[i].at + v <= new.at + w
          BY <4>1, <5>1, <5>3
        <5> QED BY <5>1, <5>2, <5>4
      <4> QED BY <2>9, <3>1, <4>1, <4>3
    <3>2. CASE i = n + 1
      <4>1. new.at + Len(new.bytes) <= new.at + Len(new.bytes) /\ start <= new.at
        BY <2>4, <2>5, AddressRanges
      <4> QED BY <2>5, <2>9, <3>2, <4>1
    <3> QED BY <1>1, <3>1, <3>2
  <2>11. e[1] = [at |-> start, bytes |-> bytes]
    BY <1>1, <2>9 DEF GrownRight
  <2>12. n + 1 >= 1
    BY <1>1
  <2>13. GrownRight(mem, b, start, bytes, e)
    BY <2>6, <2>9, <2>10, <2>11, <2>12 DEF GrownRight
  <2> QED BY <2>2, <2>7, <2>13
<1> QED BY <1>4, <1>5

\* The blocks of each length are those of a recursive function.
LEMMA EachLength ==
    ASSUME NEW mem, NEW b, NEW start, NEW bytes
    PROVE  Translated(mem, b, start, bytes) =
               [n \in 1 .. MaxInstructions |->
                    IF n = 1 THEN <<[at |-> start, bytes |-> bytes]>>
                    ELSE Extended(mem, b, Translated(mem, b, start, bytes)[n - 1])]
<1> DEFINE Grows(f, m) == f = [n \in 1 .. m |-> IF n = 1 THEN <<[at |-> start, bytes |-> bytes]>>
                                               ELSE Extended(mem, b, f[n - 1])]
           Reached == {k \in Nat : \E f : Grows(f, k + 1)}
<1>1. 0 \in Reached
  <2>1. Grows([n \in 1 .. 1 |-> <<[at |-> start, bytes |-> bytes]>>], 1)
    OBVIOUS
  <2>2. 0 + 1 = 1
    OBVIOUS
  <2> HIDE DEF Grows
  <2> QED BY <2>1, <2>2
<1>2. ASSUME NEW k \in Nat, k \in Reached PROVE k + 1 \in Reached
  <2>1. PICK f : Grows(f, k + 1)
    BY <1>2
  <2>2. PICK x : x = Extended(mem, b, f[k + 1])
    OBVIOUS
  <2>3. PICK g : g = [n \in 1 .. k + 2 |-> IF n = k + 2 THEN x ELSE f[n]]
    OBVIOUS
  <2>4. ASSUME NEW n \in 1 .. k + 2
        PROVE  g[n] = IF n = 1 THEN <<[at |-> start, bytes |-> bytes]>> ELSE Extended(mem, b, g[n - 1])
    <3>1. CASE n = k + 2
      <4>1. g[n] = x /\ n - 1 = k + 1 /\ n - 1 \in 1 .. k + 2 /\ n - 1 # k + 2 /\ n # 1
        BY <2>3, <3>1
      <4>2. g[n - 1] = f[k + 1]
        BY <2>3, <4>1
      <4> QED BY <2>2, <4>1, <4>2
    <3>2. CASE n # k + 2
      <4>1. n \in 1 .. k + 1 /\ g[n] = f[n] /\ (n # 1 => g[n - 1] = f[n - 1])
        BY <2>3, <3>2
      <4>2. f[n] = IF n = 1 THEN <<[at |-> start, bytes |-> bytes]>> ELSE Extended(mem, b, f[n - 1])
        BY <2>1, <4>1
      <4> QED BY <4>1, <4>2
    <3> QED BY <3>1, <3>2
  <2>5. Grows(g, k + 2)
    BY <2>3, <2>4
  <2>6. (k + 1) + 1 = k + 2
    OBVIOUS
  <2> HIDE DEF Grows
  <2> QED BY <2>5, <2>6
<1>3. PICK top \in Nat : top + 1 = MaxInstructions
  <2>1. MaxInstructions - 1 \in Nat /\ (MaxInstructions - 1) + 1 = MaxInstructions
    BY BlockConstants
  <2> QED BY <2>1
<1>4. \E f : Grows(f, MaxInstructions)
  <2>1. Reached \in SUBSET Nat
    OBVIOUS
  <2> HIDE DEF Reached
  <2>2. \A n \in 0 .. top : n \in Reached
    BY <1>1, <1>2, <1>3, <2>1, HandedOn
  <2>3. top \in Reached
    BY <2>2
  <2> HIDE DEF Grows
  <2> QED BY <1>3, <2>3 DEF Reached
<1>5. Translated(mem, b, start, bytes) = CHOOSE f : Grows(f, MaxInstructions)
  BY DEF Translated
<1>6. Grows(Translated(mem, b, start, bytes), MaxInstructions)
  <2> HIDE DEF Grows
  <2> QED BY <1>4, <1>5
<1> QED BY <1>6

LEMMA TranslationRight ==
    ASSUME NEW mem \in [Cells -> Opcodes], NEW b, NEW start \in Address, NEW bytes \in Seq(Opcodes),
           Len(bytes) \in {1, 2}
    PROVE  GrownRight(mem, b, start, bytes, Translated(mem, b, start, bytes)[MaxInstructions])
<1>1. PICK f : f = Translated(mem, b, start, bytes)
  OBVIOUS
<1>2. f = [n \in 1 .. MaxInstructions |-> IF n = 1 THEN <<[at |-> start, bytes |-> bytes]>>
                                         ELSE Extended(mem, b, f[n - 1])]
  BY <1>1, EachLength
<1>3. PICK top \in Nat : top + 1 = MaxInstructions
  <2>1. MaxInstructions - 1 \in Nat /\ (MaxInstructions - 1) + 1 = MaxInstructions
    BY BlockConstants
  <2> QED BY <2>1
<1> DEFINE Grown == {k \in Nat : GrownRight(mem, b, start, bytes, f[k + 1])}
<1>4. 0 \in Grown
  <2>1. PICK first \in Instructions : first = [at |-> start, bytes |-> bytes]
    BY DEF Instructions
  <2>2. PICK d : d = <<first>>
    OBVIOUS
  <2>3. f[0 + 1] = d
    BY <1>2, <1>3, <2>1, <2>2
  <2>4. d \in Seq(Instructions) /\ Len(d) = 1 /\ d[1] = first /\ first.at = start /\ first.bytes = bytes
    BY <2>1, <2>2
  <2>5. start <= start /\ start + Len(bytes) <= start + Len(bytes)
    BY AddressRanges
  <2>6. GrownRight(mem, b, start, bytes, d)
    BY <2>1, <2>4, <2>5 DEF GrownRight
  <2> QED BY <2>3, <2>6
<1>5. ASSUME NEW k \in Nat, k < top, k \in Grown PROVE k + 1 \in Grown
  <2>1. (k + 1) + 1 \in 1 .. MaxInstructions /\ (k + 1) + 1 # 1 /\ ((k + 1) + 1) - 1 = k + 1
    BY <1>3, <1>5, BlockConstants
  <2>2. f[(k + 1) + 1] = Extended(mem, b, f[k + 1])
    BY <1>2, <2>1
  <2>3. GrownRight(mem, b, start, bytes, f[k + 1])
    BY <1>5
  <2>4. GrownRight(mem, b, start, bytes, f[(k + 1) + 1])
    BY <2>2, <2>3, ExtendedRight
  <2> QED BY <2>4
<1>6. Grown \in SUBSET Nat
  OBVIOUS
<1>7. top \in Grown
  <2> HIDE DEF Grown
  <2>1. \A n \in 0 .. top : n \in Grown
    BY <1>3, <1>4, <1>5, <1>6, HandedOn
  <2> QED BY <2>1
<1> QED BY <1>1, <1>3, <1>7

\* What is translated is a block, and fresh but perhaps for its first instruction.
LEMMA BlocksAreRight ==
    ASSUME NEW mem \in [Cells -> Opcodes], NEW b, NEW start \in Address, NEW bytes \in Seq(Opcodes),
           Len(bytes) \in {1, 2}, NEW block \in Blocks(mem, b, start, bytes)
    PROVE  BlockRight(block) /\ block.valid /\ BlockFresh(mem, b, block)
<1>1. PICK d : d = Translated(mem, b, start, bytes)[MaxInstructions]
  OBVIOUS
<1>2. GrownRight(mem, b, start, bytes, d)
  BY <1>1, TranslationRight
<1>3. PICK n \in Nat : n = Len(d) /\ n >= 1 /\ n \in 1 .. n /\ 1 \in 1 .. n
  BY <1>2, LenProperties DEF GrownRight
<1>4. PICK final \in Instructions : final = d[n]
  BY <1>2, <1>3, ElementOfSeq DEF GrownRight
<1>5. PICK lowered \in 0 .. n : block = [start |-> start, end |-> EndOf(d), instructions |-> d,
            lowered |-> lowered, valid |-> TRUE, generation |-> 0,
            stale |-> bytes # Fetched(mem, b, start)]
  <2>1. PICK lowered \in Lowerable(d) : block = [start |-> start, end |-> EndOf(d), instructions |-> d,
            lowered |-> lowered, valid |-> TRUE, generation |-> 0,
            stale |-> bytes # Fetched(mem, b, start)]
    BY <1>1 DEF Blocks
  <2>2. lowered \in 0 .. n
    BY <1>3 DEF Lowerable
  <2> QED BY <2>1, <2>2
<1>6. PICK stale \in BOOLEAN : stale = (bytes # Fetched(mem, b, start))
  OBVIOUS
<1>7. /\ block.start = start /\ block.end = EndOf(d) /\ block.instructions = d
      /\ block.lowered = lowered /\ block.valid /\ block.stale = stale
      /\ block = [start |-> start, end |-> EndOf(d), instructions |-> d,
                  lowered |-> lowered, valid |-> TRUE, generation |-> 0, stale |-> stale]
  BY <1>5, <1>6
<1>8. final.at \in Address /\ Len(final.bytes) \in {1, 2} /\ start <= final.at
  BY <1>2, <1>3, <1>4 DEF GrownRight, Instructions
<1>9. PICK x \in Nat : x = final.at + Len(final.bytes) - 1 /\ x <= AddressCount
  <2>1. PICK w \in {1, 2} : w = Len(final.bytes)
    BY <1>8
  <2>2. final.at + w - 1 \in Nat /\ final.at + w - 1 <= AddressCount
    BY <1>8, AddressRanges
  <2> QED BY <2>1, <2>2
<1>10. EndOf(d) = x % AddressCount /\ EndOf(d) \in Address
  BY <1>3, <1>4, <1>9, AddressRanges DEF EndOf
<1>11. start <= EndOf(d) => EndOf(d) = x
  <2>1. \A u, v \in Nat : u < v => u % v = u
    OBVIOUS
  <2>2. CASE x < AddressCount
    BY <1>9, <1>10, <2>1, <2>2, AddressRanges
  <2>3. CASE x = AddressCount
    <3>1. EndOf(d) = 0
      BY <1>10, <2>3, AddressRanges
    <3>2. n = 1
      <4>1. n > 1 => final.at + Len(final.bytes) <= AddressCount
        BY <1>2, <1>3, <1>4 DEF GrownRight
      <4>2. PICK w \in {1, 2} : w = Len(final.bytes)
        BY <1>8
      <4>3. final.at + w - 1 = AddressCount
        BY <1>9, <2>3, <4>2
      <4>4. ~(final.at + w <= AddressCount)
        BY <1>8, <4>3, AddressRanges
      <4> QED BY <1>3, <4>1, <4>2, <4>4
    <3>3. final.at = start
      BY <1>2, <1>3, <1>4, <3>2 DEF GrownRight
    <3>4. PICK w \in {1, 2} : w = Len(final.bytes)
      BY <1>8
    <3>5. start + w - 1 = AddressCount
      BY <1>9, <2>3, <3>3, <3>4
    <3>6. start >= 1
      BY <3>5, AddressRanges
    <3> QED BY <3>1, <3>6, AddressRanges
  <2> QED BY <1>9, <2>2, <2>3, AddressRanges
<1>12. block \in TranslatedBlock
  <2>1. d \in Seq(Instructions)
    BY <1>2 DEF GrownRight
  <2> QED BY <1>3, <1>7, <1>10, <2>1 DEF TranslatedBlock
<1>13. BlockRight(block)
  <2>1. ASSUME NEW i \in 1 .. n
        PROVE  /\ Len(d[i].bytes) \in {1, 2} /\ start <= d[i].at
               /\ d[i].at + Len(d[i].bytes) <= x + 1
    <3>1. /\ Len(d[i].bytes) \in {1, 2} /\ start <= d[i].at
          /\ d[i].at + Len(d[i].bytes) <= final.at + Len(final.bytes)
      BY <1>2, <1>3, <1>4 DEF GrownRight
    <3>2. PICK w \in {1, 2} : w = Len(final.bytes)
      BY <1>8
    <3>3. final.at + w = x + 1
      BY <1>8, <1>9, <3>2, AddressRanges
    <3> QED BY <3>1, <3>2, <3>3
  <2>2. ASSUME NEW i \in 1 .. n, start <= EndOf(d)
        PROVE  d[i].at + Len(d[i].bytes) - 1 <= EndOf(d)
    <3>1. d[i].at \in Address
      BY <1>2, <1>3, InstructionFields DEF GrownRight
    <3>2. PICK w \in {1, 2} : w = Len(d[i].bytes)
      BY <2>1
    <3>3. d[i].at + w <= x + 1
      BY <2>1, <3>2
    <3>4. d[i].at + w - 1 <= x
      <4>1. d[i].at \in Nat /\ x \in Nat
        BY <1>9, <3>1, AddressRanges
      <4> QED BY <3>3, <4>1
    <3> QED BY <1>11, <2>2, <3>2, <3>4
  <2>3. lowered <= Len(d)
    BY <1>3
  <2> QED BY <1>3, <1>7, <1>12, <2>1, <2>2, <2>3 DEF BlockRight
<1>14. ASSUME NEW i \in 1 .. n, ~Escapes(block, i)
       PROVE  d[i].bytes = Fetched(mem, b, d[i].at)
  <2>1. i = 1 => bytes = Fetched(mem, b, start)
    BY <1>6, <1>7, <1>14 DEF Escapes
  <2>2. CASE i = 1
    BY <1>2, <2>1, <2>2 DEF GrownRight
  <2>3. CASE i # 1
    BY <1>2, <1>3, <2>3 DEF GrownRight
  <2> QED BY <2>2, <2>3
<1>15. BlockFresh(mem, b, block)
  BY <1>3, <1>7, <1>14 DEF BlockFresh
<1> QED BY <1>7, <1>13, <1>15

-----------------------------------------------------------------------------
(* Execution.                                                              *)

\* The instruction a slot names.
LEMMA Slotted ==
    ASSUME NEW c, CacheRight(c), NEW slot \in Slots, SlotRight(c, slot), slot # NoSlot
    PROVE  LET block == c.blocks[slot.block] IN
           /\ slot.block \in 1 .. Len(c.blocks) /\ BlockRight(block)
           /\ slot.index \in 1 .. Len(block.instructions)
           /\ block.instructions[slot.index] \in Instructions
           /\ Len(block.instructions[slot.index].bytes) \in {1, 2}
<1>1. /\ slot.block \in 1 .. Len(c.blocks) /\ BlockRight(c.blocks[slot.block])
      /\ slot.index \in 1 .. Len(c.blocks[slot.block].instructions)
  BY DEF SlotRight, CacheRight
<1>2. c.blocks[slot.block].instructions \in Seq(Instructions)
  BY <1>1 DEF BlockRight, TranslatedBlock
<1>3. c.blocks[slot.block].instructions[slot.index] \in Instructions
  BY <1>1, <1>2, ElementOfSeq
<1>4. Len(c.blocks[slot.block].instructions[slot.index].bytes) \in {1, 2}
  BY <1>1 DEF BlockRight
<1> QED BY <1>1, <1>3, <1>4

LEMMA BlocksExecuted ==
    ASSUME NEW e, NEW instruction \in Instructions, NEW pcAdvance \in Nat,
           Executes(instruction, pcAdvance, e)
    PROVE  Writes(e) /\ pc' \in Address /\ policy' = policy
<1>1. Leads(instruction, pcAdvance) \subseteq Address
  <2>1. instruction.at \in Address
    BY DEF Instructions
  <2>2. (instruction.at + pcAdvance) % AddressCount \in Address
    BY <2>1, AddressRanges
  <2> QED BY <2>2 DEF Leads
<1> QED BY <1>1 DEF Executes

LEMMA StillEmpty ==
    ASSUME NEW c, NEW d, CacheRight(d), Aged(c, d), c.blocks = << >> PROVE d.blocks = << >>
<1>1. d.blocks \in Seq(TranslatedBlock) /\ Len(d.blocks) = 0
  BY DEF CacheRight, CacheShape, Aged
<1> QED BY <1>1

\* A store, with the cache as the IR's guard left it.
LEMMA ExecutedAndWritten ==
    ASSUME BlocksInv, NEW c, CacheRight(c), Aged(cache, c), NEW e, EffectRight(e),
           Writes(e), policy' = policy
    PROVE  LET d == InvalidateForWrite(c, e) IN
           /\ memory' \in [Cells -> Opcodes] /\ policy' \in Policies
           /\ CacheRight(d) /\ AllFresh(memory', romBank', d)
           /\ policy' = "baseline" => d.blocks = << >>
           /\ \A slot : SlotRight(cache, slot) => SlotRight(d, slot)
<1>1. /\ memory' \in [Cells -> Opcodes]
      /\ memory' = Stored(memory, e) /\ romBank' = Banked(romBank, e)
  BY StoredIsMemory DEF BlocksInv, Writes
<1>2. PICK d : d = InvalidateForWrite(c, e)
  OBVIOUS
<1>3. AllFresh(memory, romBank, c) /\ \A slot : SlotRight(cache, slot) => SlotRight(c, slot)
  BY AgedBlocks DEF BlocksInv, CacheRight
<1>4. policy = "baseline" => c.blocks = << >>
  BY StillEmpty DEF BlocksInv
<1>5. CacheRight(d) /\ Aged(c, d) /\ AllFresh(memory', romBank', d)
  BY <1>1, <1>2, <1>3, <1>4, WriteInvalidates DEF BlocksInv
<1>6. policy' = "baseline" => d.blocks = << >>
  BY <1>1, <1>4, <1>5, StillEmpty
<1>7. \A slot : SlotRight(c, slot) => SlotRight(d, slot)
  BY <1>5, AgedBlocks DEF CacheRight
<1> QED BY <1>1, <1>2, <1>3, <1>5, <1>6, <1>7 DEF BlocksInv

LEMMA NoSlotRight ==
    ASSUME NEW c PROVE NoSlot \in Slots /\ SlotRight(c, NoSlot)
BY DEF NoSlot, Slots, SlotRight

LEMMA AfterIrRight ==
    ASSUME BlocksInv, NEW holds PROVE CacheRight(AfterIr(holds)) /\ Aged(cache, AfterIr(holds))
<1>1. CacheRight(cache)
  BY DEF BlocksInv
<1> QED BY <1>1, AgedAlike, GuardFailed DEF AfterIr

LEMMA StepIrKeeps ==
    ASSUME BlocksInv, NEW e, EffectRight(e), StepIr(e) PROVE BlocksInv'
<1>1. PICK at : at = IF session # NoSlot THEN session ELSE cache.slots[pc]
  OBVIOUS
<1>2. PICK block : block = cache.blocks[at.block]
  OBVIOUS
<1>3. PICK instruction : instruction = block.instructions[at.index]
  OBVIOUS
<1>4. /\ IrRuns(TRUE) /\ Executes(instruction, Len(instruction.bytes), e)
      /\ cache' = InvalidateForWrite(cache, e)
      /\ session' = IF instruction.bytes[1] = "jump" \/ at.index = block.lowered THEN NoSlot
                     ELSE [at EXCEPT !.index = @ + 1]
  BY <1>1, <1>2, <1>3, Zenon DEF StepIr
<1>5. CacheRight(cache) /\ CacheShape(cache) /\ Aged(cache, cache)
  BY AgedAlike DEF BlocksInv, CacheRight
<1>6. at \in Slots /\ at # NoSlot /\ SlotRight(cache, at) /\ at.index <= block.lowered
  <2>1. CASE session # NoSlot
    BY <1>1, <1>2, <1>4, <2>1 DEF BlocksInv, IrRuns, ContinuationValid, SessionBlock
  <2>2. CASE session = NoSlot
    <3>1. EntersIr(TRUE) /\ at = cache.slots[pc] /\ pc \in Address
      BY <1>1, <1>4, <2>2 DEF IrRuns, BlocksInv
    <3>2. at # NoSlot /\ at.index <= block.lowered
      BY <1>2, <3>1 DEF EntersIr, HasIr, Hits
    <3>3. at \in Slots /\ SlotRight(cache, at)
      BY <1>5, <3>1 DEF CacheShape, CacheRight
    <3> QED BY <3>2, <3>3
  <2> QED BY <2>1, <2>2
<1>7. /\ BlockRight(block) /\ at.block \in 1 .. Len(cache.blocks)
      /\ at.index \in 1 .. Len(block.instructions)
      /\ instruction \in Instructions /\ Len(instruction.bytes) \in {1, 2}
  BY <1>2, <1>3, <1>5, <1>6, Slotted
<1>8. session' \in Slots /\ SlotRight(cache, session')
  <2>1. CASE instruction.bytes[1] = "jump" \/ at.index = block.lowered
    BY <1>4, <2>1, NoSlotRight
  <2>2. CASE ~(instruction.bytes[1] = "jump" \/ at.index = block.lowered)
    <3>1. PICK next \in Nat : next = at.index + 1
      BY <1>6 DEF Slots
    <3>2. session' = [block |-> at.block, index |-> next]
      BY <1>4, <1>6, <2>2, <3>1 DEF Slots
    <3>3. block.lowered \in Nat /\ block.lowered <= Len(block.instructions) /\ Len(block.instructions) \in Nat
      BY <1>7 DEF BlockRight, TranslatedBlock
    <3>4. next \in 1 .. Len(block.instructions)
      BY <1>6, <1>7, <2>2, <3>1, <3>3
    <3>5. at.block \in Nat
      BY <1>6 DEF Slots
    <3> QED BY <1>2, <1>7, <3>2, <3>4, <3>5 DEF SlotRight, Slots
  <2> QED BY <2>1, <2>2
<1>9. Writes(e) /\ pc' \in Address /\ policy' = policy
  BY <1>4, <1>7, BlocksExecuted
<1>10. /\ memory' \in [Cells -> Opcodes] /\ policy' \in Policies
       /\ CacheRight(cache') /\ AllFresh(memory', romBank', cache')
       /\ policy' = "baseline" => cache'.blocks = << >>
       /\ SlotRight(cache', session')
  BY <1>4, <1>5, <1>8, <1>9, ExecutedAndWritten
<1> QED BY <1>8, <1>9, <1>10 DEF BlocksInv

LEMMA StepCachedKeeps ==
    ASSUME BlocksInv, NEW e, EffectRight(e), NEW holds, StepCached(e, holds) PROVE BlocksInv'
<1>1. PICK c : c = AfterIr(holds)
  OBVIOUS
<1>2. CacheRight(c) /\ Aged(cache, c) /\ CacheShape(c)
  BY <1>1, AfterIrRight DEF CacheRight
<1>3. /\ Hits(c, pc) /\ Executes(Hit(c, pc), Len(Hit(c, pc).bytes), e)
      /\ cache' = InvalidateForWrite(c, e) /\ session' = NoSlot
  BY <1>1 DEF StepCached
<1>4. c.slots[pc] \in Slots /\ c.slots[pc] # NoSlot /\ SlotRight(c, c.slots[pc])
  BY <1>2, <1>3 DEF BlocksInv, CacheRight, CacheShape, Hits
<1>5. Hit(c, pc) \in Instructions /\ Len(Hit(c, pc).bytes) \in {1, 2}
  BY <1>2, <1>4, Slotted DEF Hit
<1>6. Writes(e) /\ pc' \in Address /\ policy' = policy
  BY <1>3, <1>5, BlocksExecuted
<1>7. /\ memory' \in [Cells -> Opcodes] /\ policy' \in Policies
      /\ CacheRight(cache') /\ AllFresh(memory', romBank', cache')
      /\ policy' = "baseline" => cache'.blocks = << >>
  BY <1>2, <1>3, <1>6, ExecutedAndWritten
<1> QED BY <1>3, <1>6, <1>7, NoSlotRight DEF BlocksInv

\* What was fetched and executed may be translated, whatever its bytes.
LEMMA TranslatedKeeps ==
    ASSUME BlocksInv, NEW c, CacheRight(c), Aged(cache, c), NEW e, EffectRight(e),
           NEW bytes \in Seq(Opcodes), Len(bytes) \in {1, 2}, NEW pcAdvance \in Nat,
           policy # "baseline", Executes([at |-> pc, bytes |-> bytes], pcAdvance, e),
           Translates(c, bytes, e), session' = NoSlot
    PROVE  BlocksInv'
<1>1. PICK d : d = InvalidateForWrite(c, e)
  OBVIOUS
<1>2. PICK instruction \in Instructions : instruction = [at |-> pc, bytes |-> bytes]
  BY DEF BlocksInv, Instructions
<1>3. Writes(e) /\ pc' \in Address /\ policy' = policy
  BY <1>2, BlocksExecuted
<1>4. /\ memory' \in [Cells -> Opcodes] /\ policy' \in Policies
      /\ CacheRight(d) /\ AllFresh(memory', romBank', d)
  BY <1>1, <1>3, ExecutedAndWritten
<1>5. CacheRight(cache') /\ AllFresh(memory', romBank', cache')
  <2>1. CASE cache' = d
    BY <1>4, <2>1
  <2>2. CASE \E block \in Blocks(memory', romBank', pc, bytes) : cache' = Insert(d, block)
    <3>1. PICK block \in Blocks(memory', romBank', pc, bytes) : cache' = Insert(d, block)
      BY <2>2
    <3>2. pc \in Address
      BY DEF BlocksInv
    <3>3. BlockRight(block) /\ block.valid /\ BlockFresh(memory', romBank', block)
      BY <1>4, <3>2, BlocksAreRight
    <3> QED BY <1>4, <3>1, <3>3, BlockInserted
  <2> QED BY <1>1, <2>1, <2>2 DEF Translates
<1> QED BY <1>3, <1>4, <1>5, NoSlotRight DEF BlocksInv

LEMMA StepFetchedKeeps ==
    ASSUME BlocksInv, NEW e, EffectRight(e), NEW holds, StepFetched(e, holds) PROVE BlocksInv'
<1>1. PICK c : c = AfterIr(holds)
  OBVIOUS
<1>2. PICK bytes : bytes = Fetched(memory, romBank, pc)
  OBVIOUS
<1>3. CacheRight(c) /\ Aged(cache, c)
  BY <1>1, AfterIrRight
<1>4. bytes \in Seq(Opcodes) /\ Len(bytes) \in {1, 2} /\ Len(bytes) \in Nat
  BY <1>2, FetchedBytes DEF BlocksInv
<1>5. /\ policy # "baseline" /\ Executes([at |-> pc, bytes |-> bytes], Len(bytes), e)
      /\ Translates(c, bytes, e) /\ session' = NoSlot
  BY <1>1, <1>2, Zenon DEF StepFetched
<1> QED BY <1>3, <1>4, <1>5, TranslatedKeeps

LEMMA StepWokenKeeps ==
    ASSUME BlocksInv, NEW e, EffectRight(e), StepWoken(e) PROVE BlocksInv'
<1>1. PICK bytes : bytes = FetchedTwice(memory, romBank, pc)
  OBVIOUS
<1>2. CacheRight(cache) /\ Aged(cache, cache)
  BY AgedAlike DEF BlocksInv
<1>3. bytes \in Seq(Opcodes) /\ Len(bytes) \in {1, 2}
  BY <1>1, FetchedTwiceBytes DEF BlocksInv
<1>4. /\ policy # "baseline" /\ Executes([at |-> pc, bytes |-> bytes], Len(bytes) - 1, e)
      /\ Translates(cache, bytes, e) /\ session' = NoSlot
  BY <1>1, Zenon DEF StepWoken
<1>5. Len(bytes) - 1 \in Nat
  BY <1>3
<1> QED BY <1>2, <1>3, <1>4, <1>5, TranslatedKeeps

LEMMA StoreDirectlyKeeps ==
    ASSUME BlocksInv, NEW e, EffectRight(e), StoreDirectly(e) PROVE BlocksInv'
<1>1. /\ Writes(e) /\ pc' \in Address /\ policy' = policy /\ session' = session
      /\ cache' = InvalidateForWrite(cache, e)
  BY DEF StoreDirectly
<1>2. CacheRight(cache) /\ Aged(cache, cache) /\ session \in Slots /\ SlotRight(cache, session)
  BY AgedAlike DEF BlocksInv
<1>3. /\ memory' \in [Cells -> Opcodes] /\ policy' \in Policies
      /\ CacheRight(cache') /\ AllFresh(memory', romBank', cache')
      /\ policy' = "baseline" => cache'.blocks = << >>
      /\ SlotRight(cache', session)
  BY <1>1, <1>2, ExecutedAndWritten
<1> QED BY <1>1, <1>2, <1>3 DEF BlocksInv

LEMMA AttachKeeps ==
    ASSUME BlocksInv, NEW p \in Policies, AttachPolicy(p) PROVE BlocksInv'
<1>1. PICK off : off = IF p = "baseline" /\ policy # "baseline" THEN ClearAll(cache) ELSE cache
  OBVIOUS
<1>2. /\ policy' = p /\ session' = NoSlot /\ memory' = memory /\ romBank' = romBank /\ pc' = pc
      /\ cache' = InvalidateAll(off) \/ cache' = off
  BY <1>1 DEF AttachPolicy
<1>3. CacheRight(cache) /\ CacheShape(cache)
  BY DEF BlocksInv, CacheRight
<1>4. CacheRight(off) /\ AllFresh(memory, romBank, off) /\ (p = "baseline" => off.blocks = << >>)
  <2>1. CASE p = "baseline" /\ policy # "baseline"
    <3>1. CacheRight(off) /\ off.blocks = << >>
      BY <1>1, <1>3, <2>1, CacheEmptied
    <3>2. Len(off.blocks) = 0
      BY <3>1
    <3> QED BY <3>1, <3>2 DEF AllFresh
  <2>2. CASE ~(p = "baseline" /\ policy # "baseline")
    BY <1>1, <2>2 DEF BlocksInv
  <2> QED BY <2>1, <2>2
<1>5. CacheRight(cache') /\ AllFresh(memory, romBank, cache') /\ (p = "baseline" => cache'.blocks = << >>)
  <2>1. CASE cache' = off
    BY <1>4, <2>1
  <2>2. CASE cache' = InvalidateAll(off)
    <3>1. CacheRight(cache') /\ Aged(off, cache') /\ AllFresh(memory, romBank, cache')
      BY <1>4, <2>2, AllInvalidated
    <3>2. p = "baseline" => cache'.blocks = << >>
      BY <1>4, <3>1, StillEmpty
    <3> QED BY <3>1, <3>2
  <2> QED BY <1>2, <2>1, <2>2
<1> QED BY <1>2, <1>5, NoSlotRight DEF BlocksInv

LEMMA BlocksStart == BlocksInit => BlocksInv
<1> SUFFICES ASSUME BlocksInit PROVE BlocksInv
  OBVIOUS
<1>1. cache = EmptyCache /\ session = NoSlot /\ pc \in Address /\ policy \in Policies
  BY DEF BlocksInit
<1>2. memory \in [Cells -> Opcodes]
  <2>1. memory \in [Cells -> Stores]
    BY DEF BlocksInit, Cells
  <2> QED BY <2>1, BlockConstants
<1>3. CacheShape(EmptyCache)
  <2>1. << >> \in Seq(TranslatedBlock) /\ EmptySlots \in [Address -> Slots] /\ NoPages \in [Pages -> Int]
    BY EmptySeq DEF EmptySlots, NoSlot, Slots, NoPages
  <2> QED BY <2>1 DEF CacheShape, EmptyCache
<1>4. CacheRight(cache) /\ cache.blocks = << >>
  BY <1>1, <1>3, CacheEmptied
<1>5. Len(cache.blocks) = 0
  BY <1>4
<1>6. AllFresh(memory, romBank, cache)
  BY <1>5 DEF AllFresh
<1> QED BY <1>1, <1>2, <1>4, <1>6, NoSlotRight DEF BlocksInv

LEMMA BlocksStep == BlocksInv /\ [BlocksNext]_blockVars => BlocksInv'
<1> SUFFICES ASSUME BlocksInv, [BlocksNext]_blockVars PROVE BlocksInv'
  OBVIOUS
<1>1. CASE \E e \in Effects : StepIr(e) \/ StepWoken(e) \/ StoreDirectly(e)
  BY <1>1, EffectsRight, StepIrKeeps, StepWokenKeeps, StoreDirectlyKeeps
<1>2. CASE \E e \in Effects, holds \in Guards : StepCached(e, holds) \/ StepFetched(e, holds)
  BY <1>2, EffectsRight, StepCachedKeeps, StepFetchedKeeps
<1>3. CASE \E p \in Policies : AttachPolicy(p)
  BY <1>3, AttachKeeps
<1>4. CASE UNCHANGED blockVars
  BY <1>4 DEF blockVars, BlocksInv
<1> QED BY <1>1, <1>2, <1>3, <1>4 DEF BlocksNext

\* An instruction that is executed without being fetched is at its address, and is what
\* memory holds unless it escapes.
LEMMA InvMeansFresh == BlocksInv => NoStaleCode
<1> SUFFICES ASSUME BlocksInv PROVE NoStaleCode
  OBVIOUS
<1>1. CacheRight(cache) /\ CacheShape(cache)
  BY DEF BlocksInv, CacheRight
<1>2. ASSUME NEW slot \in Slots, slot # NoSlot, SlotRight(cache, slot), cache.blocks[slot.block].valid
      PROVE  \/ Fresh(cache.blocks[slot.block].instructions[slot.index])
             \/ Escapes(cache.blocks[slot.block], slot.index)
  <2>1. slot.block \in 1 .. Len(cache.blocks) /\ slot.index \in 1 .. Len(cache.blocks[slot.block].instructions)
    BY <1>1, <1>2, Slotted
  <2>2. BlockFresh(memory, romBank, cache.blocks[slot.block])
    BY <2>1 DEF BlocksInv, AllFresh
  <2> QED BY <1>2, <2>1, <2>2 DEF BlockFresh, Fresh
<1>3. ASSUME NEW a \in Address, Hits(cache, a)
      PROVE  /\ Hit(cache, a).at = a
             /\ \/ Fresh(Hit(cache, a))
                \/ Escapes(cache.blocks[cache.slots[a].block], cache.slots[a].index)
  <2>1. cache.slots[a] # NoSlot /\ cache.blocks[cache.slots[a].block].valid
    BY <1>3 DEF Hits
  <2>2. cache.slots[a] \in Slots /\ SlotRight(cache, cache.slots[a])
    BY <1>1 DEF CacheRight, CacheShape
  <2>3. Hit(cache, a).at = a
    BY <1>1, <2>1 DEF CacheRight, Hit
  <2> QED BY <1>2, <2>1, <2>2, <2>3 DEF Hit
<1>4. ASSUME session # NoSlot, ContinuationValid(TRUE)
      PROVE  \/ Fresh(SessionBlock.instructions[session.index])
             \/ Escapes(SessionBlock, session.index)
  <2>1. session \in Slots /\ SlotRight(cache, session) /\ cache.blocks[session.block].valid
    BY <1>4 DEF BlocksInv, ContinuationValid, SessionBlock
  <2> QED BY <1>2, <1>4, <2>1 DEF SessionBlock
<1> QED BY <1>3, <1>4 DEF NoStaleCode

\* Executing from the cache of translated blocks is executing from memory, whatever is
\* stored, banked, evicted or translated anew, but for what escapes: the first instruction
\* of a block that rewrote itself, switched its bank away or was fetched with the HALT
\* bug, and blocks that run in the echo or wrap (BlockTranslator.hpp invalidateRange with
\* its counters; gameboy.cpp fetchInto, invalidateBlockCacheForWrite, populateBlockCache).
THEOREM CodeNeverStale == BlocksSpec => []NoStaleCode
<1>1. BlocksInit => BlocksInv
  BY BlocksStart
<1>2. BlocksInv /\ [BlocksNext]_blockVars => BlocksInv'
  BY BlocksStep
<1>3. BlocksInv => NoStaleCode
  BY InvMeansFresh
<1> QED BY <1>1, <1>2, <1>3, PTL DEF BlocksSpec
=============================================================================
