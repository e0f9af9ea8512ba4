-------------------------- MODULE HostServicesProofs --------------------------
(***************************************************************************)
(* Proofs about the smaller services around a machine: a pause holds       *)
(* (TimingLane), no button of an earlier connection is heard               *)
(* (ControllerInput), a capture's manifest is complete (VisualCapture),    *)
(* every exported note is ended (MidiExport), and no edit of replacement   *)
(* graphics is overlooked (VisualOverrides), for any values of their       *)
(* constants.                                                              *)
(***************************************************************************)
EXTENDS TimingLane, ControllerInput, VisualCapture, MidiExport, VisualOverrides,
        FiniteSetTheorems, SequenceTheorems, WellFoundedInduction, TLAPS

-----------------------------------------------------------------------------
(*** TimingLane ***********************************************************)

MaxCost == Max(Costs)

TimingTypeOK ==
    /\ control \in [paused : BOOLEAN, throttled : BOOLEAN, step : BOOLEAN]
    /\ engine \in [paused : BOOLEAN, throttled : BOOLEAN, step : BOOLEAN,
                   budget : Int, slice : Nat]
    /\ round \in [at : {"top", "executing", "idle", "over"}, slices : {0, 1},
                  cycles : Nat, booting : BOOLEAN]
    /\ asked \in [controls : Nat, steps : Nat]
    /\ stepped \in Nat /\ unpaused \in Nat

Pending(flag) == IF flag THEN 1 ELSE 0

\* A request is with the service, with the engine, or spent.
StepsAccounted == stepped + Pending(control.step) + Pending(engine.step) <= asked.steps

\* The first instruction that completes a slice ends the wake.
SliceOpen ==
    round.at = "executing" /\ round.slices = 1 => engine.slice < SliceCycles

\* What runs unpaused after a pause runs in the wake the pause came in.
PauseInWake ==
    control.paused /\ ~engine.paused /\ round.at = "executing" =>
        /\ unpaused <= round.cycles
        /\ unpaused <= (IF round.slices = 0 THEN 0 ELSE engine.slice)

\* PauseHolds with its maxima and minima written out.
Overshoot == Charged(MaxCost) - 1
PauseBounds ==
    /\ stepped <= asked.steps
    /\ unpaused <= SliceCycles + Overshoot /\ unpaused <= MaxCyclesPerWake + Overshoot
    /\ engine.budget <= MaxBudget
    /\ engine.budget >= MinInstructionCycles - Charged(MaxCost)

\* The inductive invariant.
TimingInv ==
    /\ TimingTypeOK /\ StepsAccounted /\ SliceOpen /\ PauseInWake /\ PauseBounds
    /\ ~control.paused => unpaused = 0
-----------------------------------------------------------------------------
(* Maxima and minima of sets of integers.                                  *)

\* A finite set of integers that is not empty has a greatest element.
LEMMA MaxOfFinite ==
    ASSUME NEW S, IsFiniteSet(S), S # {}, S \subseteq Int
    PROVE  Max(S) \in S /\ \A x \in S : x <= Max(S)
<1> DEFINE Unbounded == {T \in SUBSET S : T # {} /\ ~ \E m \in T : \A x \in T : m >= x}
<1>1. Unbounded = {}
  <2> SUFFICES ASSUME Unbounded # {} PROVE FALSE
    OBVIOUS
  <2>1. IsWellFoundedOn(StrictSubsetOrdering(S), SUBSET S)
    BY FS_StrictSubsetOrderingWellFounded, FS_FiniteSubsetsOfFinite
  <2>2. PICK T \in Unbounded : \A U \in Unbounded : ~ (<<U, T>> \in StrictSubsetOrdering(S))
    <3> HIDE DEF Unbounded
    <3>1. Unbounded \subseteq SUBSET S
      BY DEF Unbounded
    <3>2. QED
      BY <2>1, <3>1, WFMin
  <2>3. PICK m \in T : TRUE
    OBVIOUS
  <2>4. T \ {m} \notin Unbounded
    BY <2>2 DEF StrictSubsetOrdering
  <2>5. CASE T \ {m} = {}
    BY <2>5, <2>3
  <2>6. CASE T \ {m} # {}
    <3>1. PICK n \in T \ {m} : \A x \in T \ {m} : n >= x
      BY <2>4, <2>6
    <3>2. CASE n >= m
      BY <3>1, <3>2
    <3>3. CASE m >= n
      BY <3>1, <3>3, <2>3
    <3>4. QED
      BY <3>1, <3>2, <3>3, <2>3
  <2>7. QED
    BY <2>5, <2>6
<1>2. \E m \in S : \A x \in S : m >= x
  BY <1>1
<1>3. QED
  BY <1>2 DEF Max

\* Max and Min of a pair.
LEMMA MaxOfPair ==
    ASSUME NEW a \in Int, NEW b \in Int
    PROVE  Max({a, b}) = IF a >= b THEN a ELSE b
<1>1. PICK m \in {a, b} : \A x \in {a, b} : m >= x
  OBVIOUS
<1>2. Max({a, b}) \in {a, b} /\ \A x \in {a, b} : Max({a, b}) >= x
  BY <1>1 DEF Max
<1>3. QED
  BY <1>2

LEMMA MinOfPair ==
    ASSUME NEW a \in Int, NEW b \in Int
    PROVE  Min({a, b}) = IF a <= b THEN a ELSE b
<1>1. PICK m \in {a, b} : \A x \in {a, b} : m <= x
  OBVIOUS
<1>2. Min({a, b}) \in {a, b} /\ \A x \in {a, b} : Min({a, b}) <= x
  BY <1>1 DEF Min
<1>3. QED
  BY <1>2

\* What the assumption says of the constants, the dearest instruction included.
LEMMA ConstantFacts ==
    /\ MinInstructionCycles \in Nat \ {0}
    /\ MaxCost \in Nat /\ \A cost \in Costs : cost \in Nat /\ cost <= MaxCost
    /\ MaxBudget \in Nat /\ MaxBudget >= MinInstructionCycles
    /\ SliceCycles \in Nat \ {0} /\ MaxCyclesPerWake \in Nat \ {0}
    /\ Gains \subseteq Nat
<1>1. IsFiniteSet(Costs) /\ Costs # {} /\ Costs \subseteq Nat
  BY TimingAssumption, Zenon
<1>2. Costs \subseteq Int
  BY <1>1
<1>3. MaxCost \in Costs /\ \A cost \in Costs : cost <= MaxCost
  BY <1>1, <1>2, MaxOfFinite DEF MaxCost
<1>4. MaxCost \in Nat /\ \A cost \in Costs : cost \in Nat /\ cost <= MaxCost
  BY <1>1, <1>3
<1>5. QED
  BY <1>4, TimingAssumption

\* An instruction is charged at least the minimum, at most what the dearest is.
LEMMA ChargedBounds ==
    ASSUME NEW cost \in Costs
    PROVE  /\ Charged(cost) \in Nat /\ Charged(MaxCost) \in Nat
           /\ MinInstructionCycles <= Charged(cost) /\ Charged(cost) <= Charged(MaxCost)
<1>1. cost \in Nat /\ cost <= MaxCost /\ MaxCost \in Nat /\ MinInstructionCycles \in Nat
  BY ConstantFacts
<1>2. /\ Charged(cost) = IF MinInstructionCycles >= cost THEN MinInstructionCycles ELSE cost
      /\ Charged(MaxCost) = IF MinInstructionCycles >= MaxCost THEN MinInstructionCycles ELSE MaxCost
  BY <1>1, MaxOfPair DEF Charged
<1>3. QED
  BY <1>1, <1>2

LEMMA DearestCharge == Charged(MaxCost) \in Nat /\ MinInstructionCycles <= Charged(MaxCost)
<1>1. MaxCost \in Nat /\ MinInstructionCycles \in Nat
  BY ConstantFacts
<1>2. Charged(MaxCost) = IF MinInstructionCycles >= MaxCost THEN MinInstructionCycles ELSE MaxCost
  BY <1>1, MaxOfPair DEF Charged
<1>3. QED
  BY <1>1, <1>2

LEMMA PauseBoundsSuffice == TimingTypeOK /\ PauseBounds => PauseHolds
<1>1. SliceCycles \in Nat /\ MaxCyclesPerWake \in Nat /\ Charged(MaxCost) \in Nat
  BY ConstantFacts, DearestCharge
<1>2. Min({SliceCycles, MaxCyclesPerWake})
      = IF SliceCycles <= MaxCyclesPerWake THEN SliceCycles ELSE MaxCyclesPerWake
  BY <1>1, MinOfPair
<1>3. QED
  BY <1>1, <1>2 DEF PauseBounds, PauseHolds, Overshoot, MaxCost, TimingTypeOK
-----------------------------------------------------------------------------
(* The inductive invariant.                                                *)

LEMMA TimingInitInv == TimingInit => TimingInv
<1> SUFFICES ASSUME TimingInit PROVE TimingInv
    OBVIOUS
<1>1. TimingTypeOK
  <2>1. control \in [paused : BOOLEAN, throttled : BOOLEAN, step : BOOLEAN]
    BY DEF TimingInit
  <2>2. control.throttled \in BOOLEAN
    BY <2>1
  <2>3. QED
    BY <2>1, <2>2 DEF TimingInit, TimingTypeOK
<1>2. PauseBounds
  BY ConstantFacts, DearestCharge DEF TimingInit, PauseBounds, Overshoot
<1>3. StepsAccounted
  <2>1. control.step = FALSE /\ engine.step = FALSE /\ stepped = 0 /\ asked.steps = 0
    BY DEF TimingInit
  <2>2. QED
    BY <2>1 DEF StepsAccounted, Pending
<1>4. QED
  BY <1>1, <1>2, <1>3 DEF TimingInit, TimingInv, SliceOpen, PauseInWake

\* The frontend's thread: only a pause touches what a pause is measured by, and it
\* starts the measure anew.
LEMMA ControlsInv ==
    ASSUME TimingInv, TogglePause \/ ToggleThrottle \/ RequestSingleStep
    PROVE  TimingInv'
<1>1. TimingTypeOK'
  <2>1. TimingTypeOK
    BY DEF TimingInv
  <2>2. control' \in [paused : BOOLEAN, throttled : BOOLEAN, step : BOOLEAN]
    BY <2>1, Zenon DEF TimingTypeOK, TogglePause, ToggleThrottle, RequestSingleStep
  <2>3. asked.controls + 1 \in Nat /\ asked.steps + 1 \in Nat
    BY <2>1 DEF TimingTypeOK
  <2>4. asked' \in [controls : Nat, steps : Nat] /\ unpaused' \in Nat
    BY <2>1, <2>3 DEF TimingTypeOK, TogglePause, ToggleThrottle, RequestSingleStep
  <2>5. QED
    BY <2>1, <2>2, <2>4
       DEF TimingTypeOK, TogglePause, ToggleThrottle, RequestSingleStep, Controls
<1>2. StepsAccounted' /\ asked'.steps >= asked.steps
  BY DEF TimingInv, TimingTypeOK, StepsAccounted, Pending,
         TogglePause, ToggleThrottle, RequestSingleStep, Controls
<1>3. SliceOpen' /\ PauseInWake' /\ (~control.paused => unpaused = 0)'
  BY DEF TimingInv, TimingTypeOK, SliceOpen, PauseInWake,
         TogglePause, ToggleThrottle, RequestSingleStep, Controls
<1>4. PauseBounds'
  <2>1. PauseBounds
    BY DEF TimingInv
  <2>2. unpaused' \in {0, unpaused} /\ stepped' = stepped /\ engine' = engine
    BY DEF TogglePause, ToggleThrottle, RequestSingleStep, Controls
  <2>3. 0 <= SliceCycles + Overshoot /\ 0 <= MaxCyclesPerWake + Overshoot
    BY ConstantFacts, DearestCharge DEF Overshoot
  <2>4. stepped \in Nat /\ asked.steps \in Nat /\ asked.steps' \in Nat
    BY <1>1 DEF TimingInv, TimingTypeOK
  <2>5. QED
    BY <1>2, <2>1, <2>2, <2>3, <2>4 DEF PauseBounds
<1>5. QED
  BY <1>1, <1>2, <1>3, <1>4 DEF TimingInv

\* The snapshot hands the request on, and a paused engine gains nothing.
LEMMA BeginRoundInv ==
    ASSUME TimingInv, NEW gain \in Gains, BeginRound(gain)
    PROVE  TimingInv'
<1>1. PauseBounds /\ TimingTypeOK
  BY DEF TimingInv
<1>2. /\ engine.budget + gain \in Int /\ engine.budget \in Int
      /\ Updated(gain) = IF control.paused THEN engine.budget
                         ELSE IF engine.budget + gain <= MaxBudget THEN engine.budget + gain
                         ELSE MaxBudget
  BY <1>1, ConstantFacts, MinOfPair DEF Updated, TimingTypeOK
<1>3. /\ Updated(gain) \in Int /\ Updated(gain) <= MaxBudget
      /\ Updated(gain) >= MinInstructionCycles - Charged(MaxCost)
  BY <1>1, <1>2, ConstantFacts, DearestCharge DEF PauseBounds
<1>4. TimingTypeOK'
  BY <1>1, <1>3 DEF TimingTypeOK, BeginRound, TakeControlSnapshot
<1>5. StepsAccounted'
  BY <1>1 DEF TimingInv, TimingTypeOK, StepsAccounted, Pending, BeginRound, TakeControlSnapshot
<1>6. SliceOpen' /\ PauseInWake' /\ (~control.paused => unpaused = 0)'
  BY <1>1 DEF TimingInv, TimingTypeOK, SliceOpen, PauseInWake, BeginRound, TakeControlSnapshot
<1>7. PauseBounds'
  BY <1>1, <1>3 DEF PauseBounds, TimingTypeOK, BeginRound
<1>8. QED
  BY <1>4, <1>5, <1>6, <1>7 DEF TimingInv

\* The slice a wake begins is empty, and nothing of the wake has run.
LEMMA BeginExecutionSliceInv == TimingInv /\ BeginExecutionSlice => TimingInv'
<1> SUFFICES ASSUME TimingInv, BeginExecutionSlice PROVE TimingInv'
    OBVIOUS
<1>1. PauseBounds /\ TimingTypeOK
  BY DEF TimingInv
<1>2. TimingTypeOK' /\ StepsAccounted'
  BY <1>1 DEF TimingInv, TimingTypeOK, StepsAccounted, Pending, BeginExecutionSlice
<1>3. SliceOpen' /\ PauseInWake' /\ (~control.paused => unpaused = 0)'
  BY <1>1, ConstantFacts DEF TimingInv, TimingTypeOK, SliceOpen, PauseInWake, BeginExecutionSlice
<1>4. PauseBounds'
  BY <1>1 DEF PauseBounds, TimingTypeOK, BeginExecutionSlice
<1>5. QED
  BY <1>2, <1>3, <1>4 DEF TimingInv

\* An instruction runs paused only on a step that was granted, which it spends; the
\* budget is charged once, and the instruction that completes the slice is the last.
LEMMA RetireInstructionInv ==
    ASSUME TimingInv, NEW cost \in Costs, RetireInstruction(cost)
    PROVE  TimingInv'
<1> DEFINE charged == Charged(cost)
           left == engine.budget - charged
           slice == engine.slice + charged
           budget == IF engine.paused \/ ~engine.throttled THEN Max({0, left}) ELSE left
           step == IF engine.paused THEN FALSE ELSE engine.step
           at == IF slice >= SliceCycles THEN "idle" ELSE round.at
<1>1. PauseBounds /\ TimingTypeOK
  BY DEF TimingInv
<1>2. /\ charged \in Nat /\ Charged(MaxCost) \in Nat
      /\ MinInstructionCycles <= charged /\ charged <= Charged(MaxCost)
      /\ MinInstructionCycles \in Nat \ {0}
  BY ChargedBounds, ConstantFacts
<1>3. /\ engine.budget \in Int /\ engine.slice \in Nat /\ round.cycles \in Nat
      /\ stepped \in Nat /\ unpaused \in Nat /\ asked.steps \in Nat
      /\ engine.paused \in BOOLEAN /\ engine.step \in BOOLEAN
      /\ engine.throttled \in BOOLEAN
  BY <1>1 DEF TimingTypeOK
<1>4. left \in Int /\ slice \in Nat /\ round.cycles + charged \in Nat
  BY <1>2, <1>3
<1>5. Max({0, left}) = IF 0 >= left THEN 0 ELSE left
  BY <1>4, MaxOfPair
<1>6. /\ round.at = "executing" /\ round.slices = 1 /\ engine.slice < SliceCycles
      /\ round.cycles < MaxCyclesPerWake
      /\ engine.paused => engine.step
      /\ ~engine.paused /\ engine.throttled => engine.budget >= MinInstructionCycles
      /\ control' = control /\ asked' = asked
  BY <1>1 DEF TimingInv, TimingTypeOK, SliceOpen, RetireInstruction, CanExecute, WithinWake
<1>7. /\ engine' = [engine EXCEPT !.budget = budget, !.step = step, !.slice = slice]
      /\ round' = [round EXCEPT !.cycles = @ + charged, !.at = at]
      /\ stepped' = IF engine.paused THEN stepped + 1 ELSE stepped
      /\ unpaused' = IF control.paused /\ ~engine.paused THEN unpaused + charged ELSE unpaused
  BY Zenon DEF RetireInstruction
<1>8. budget \in Int /\ step \in BOOLEAN /\ at \in {"executing", "idle"}
  <2>1. step \in BOOLEAN
    BY <1>3, Zenon
  <2>2. budget \in Int
    BY <1>4, <1>5
  <2>3. at \in {"executing", "idle"}
    BY <1>6
  <2>4. QED
    BY <2>1, <2>2, <2>3
<1>9. /\ engine' \in [paused : BOOLEAN, throttled : BOOLEAN, step : BOOLEAN,
                      budget : Int, slice : Nat]
      /\ engine'.budget = budget /\ engine'.step = step /\ engine'.slice = slice
      /\ engine'.paused = engine.paused /\ engine'.throttled = engine.throttled
      /\ round' \in [at : {"top", "executing", "idle", "over"}, slices : {0, 1},
                     cycles : Nat, booting : BOOLEAN]
      /\ round'.cycles = round.cycles + charged /\ round'.at = at /\ round'.slices = 1
  <2> HIDE DEF budget, step, at, slice, charged
  <2>1. QED
    BY <1>1, <1>4, <1>6, <1>7, <1>8 DEF TimingTypeOK
<1>10. TimingTypeOK'
  BY <1>1, <1>2, <1>3, <1>6, <1>7, <1>9 DEF TimingTypeOK
<1>11. StepsAccounted'
  <2>1. stepped + Pending(control.step) + Pending(engine.step) <= asked.steps
    BY DEF TimingInv, StepsAccounted
  <2>2. CASE engine.paused
    <3>1. Pending(engine.step) = 1 /\ Pending(engine'.step) = 0 /\ stepped' = stepped + 1
      BY <2>2, <1>6, <1>7, <1>9 DEF Pending
    <3>2. QED
      BY <2>1, <3>1, <1>3, <1>6 DEF StepsAccounted, Pending
  <2>3. CASE ~engine.paused
    BY <2>1, <2>3, <1>6, <1>7, <1>9 DEF StepsAccounted, Pending
  <2>4. QED
    BY <2>2, <2>3
<1>12. SliceOpen'
  BY <1>4, <1>6, <1>9, ConstantFacts DEF TimingTypeOK, SliceOpen
<1>13. control.paused /\ ~engine.paused => unpaused <= round.cycles /\ unpaused <= engine.slice
  BY <1>6 DEF TimingInv, PauseInWake
<1>14. PauseInWake'
  BY <1>2, <1>3, <1>6, <1>7, <1>9, <1>13 DEF PauseInWake
<1>15. (~control.paused => unpaused = 0)'
  BY <1>6, <1>7 DEF TimingInv
<1>16. unpaused' <= SliceCycles + Overshoot /\ unpaused' <= MaxCyclesPerWake + Overshoot
  BY <1>1, <1>2, <1>3, <1>6, <1>7, <1>13, ConstantFacts DEF PauseBounds, Overshoot
<1>17. stepped' <= asked'.steps
  BY <1>10, <1>11 DEF TimingTypeOK, StepsAccounted, Pending
<1>18. engine'.budget <= MaxBudget /\ engine'.budget >= MinInstructionCycles - Charged(MaxCost)
  BY <1>1, <1>2, <1>3, <1>4, <1>5, <1>6, <1>9, ConstantFacts DEF PauseBounds
<1>19. PauseBounds'
  BY <1>16, <1>17, <1>18 DEF PauseBounds
<1>20. QED
  BY <1>10, <1>11, <1>12, <1>14, <1>15, <1>19 DEF TimingInv

\* Ends of bursts and rounds, the boot entry and the stop move the lane on only.
LEMMA EndingsInv ==
    ASSUME TimingInv, BootEntry \/ EndBurst \/ EndRound \/ StopLane
    PROVE  TimingInv'
<1>1. TimingTypeOK /\ PauseBounds /\ StepsAccounted
  BY DEF TimingInv
<1>2. UNCHANGED <<control, engine, asked, stepped, unpaused>>
  BY DEF BootEntry, EndBurst, EndRound, StopLane
<1>3. /\ round' \in [at : {"top", "executing", "idle", "over"}, slices : {0, 1},
                     cycles : Nat, booting : BOOLEAN]
      /\ round'.at # "executing"
  <2>1. \/ round' = [round EXCEPT !.at = "idle", !.booting = FALSE]
        \/ \E at \in {"top", "idle", "over"} : round' = [round EXCEPT !.at = at]
    BY DEF BootEntry, EndBurst, EndRound, StopLane
  <2>2. CASE round' = [round EXCEPT !.at = "idle", !.booting = FALSE]
    <3>1. \E b \in BOOLEAN : round' = [round EXCEPT !.at = "idle", !.booting = b]
      BY <2>2
    <3>2. QED
      BY <1>1, <3>1 DEF TimingTypeOK
  <2>3. QED
    BY <1>1, <2>1, <2>2 DEF TimingTypeOK
<1>4. TimingTypeOK' /\ PauseBounds' /\ StepsAccounted'
  BY <1>1, <1>2, <1>3 DEF TimingTypeOK, PauseBounds, StepsAccounted
<1>5. QED
  BY <1>2, <1>3, <1>4 DEF TimingInv, SliceOpen, PauseInWake

\* The inductive invariant holds in every reachable state.
LEMMA TimingInvariant == TimingSpec => []TimingInv
<1>1. TimingInv /\ [TimingNext]_timingVars => TimingInv'
  <2> SUFFICES ASSUME TimingInv, [TimingNext]_timingVars PROVE TimingInv'
    OBVIOUS
  <2>1. CASE UNCHANGED timingVars
    BY <2>1 DEF timingVars, TimingInv, TimingTypeOK, StepsAccounted, SliceOpen, PauseInWake, PauseBounds
  <2>2. CASE TimingNext
    BY <2>2, ControlsInv, BeginRoundInv, BeginExecutionSliceInv, RetireInstructionInv, EndingsInv
       DEF TimingNext
  <2>3. QED
    BY <2>1, <2>2
<1>2. QED
  BY TimingInitInv, <1>1, PTL DEF TimingSpec

\* A pause holds, whatever the lane was doing when it came: no more runs than the rest
\* of the wake and one instruction for each step asked for, and the budget stays in the
\* catch-up window (TimingService's takeControlSnapshot, TimingEngine's update and
\* retireInstruction, and the machine lane's loop).
THEOREM PausesHold == TimingSpec => []PauseHolds
<1>1. TimingInv => PauseHolds
  BY PauseBoundsSuffice DEF TimingInv
<1>2. QED
  BY TimingInvariant, <1>1, PTL

-----------------------------------------------------------------------------
(*** ControllerInput ******************************************************)

\* What the proof needs of the types: the fields there are, the epochs' numbers, and
\* where the worker may return to.
Shape ==
    /\ {"connection", "connected"} \subseteq DOMAIN shared
    /\ {"pc", "open", "dropping", "then"} \subseteq DOMAIN reader
    /\ {"pc", "state", "connection", "source"} \subseteq DOMAIN lane
    /\ {"began", "joined"} \subseteq DOMAIN during
    /\ shared.connection \in Nat /\ lane.connection \in Nat
    /\ reader.then \in {"top", "poll", "read"}

InSample == lane.pc \in {"drain", "connection", "connected", "failed"}

\* A worker without a device, one that lost events and one that is about to open a
\* new connection have taken the flag down.
FlagDown ==
    /\ reader.pc \notin {"top", "done"} => reader.open
    /\ reader.pc \in {"connection", "connected"} => ~reader.dropping /\ ~shared.connected
    /\ ~reader.open => ~shared.connected
    /\ reader.dropping => ~shared.connected
    /\ reader.pc = "done" => ~reader.open
    /\ lane.state = "paused" => reader.pc = "done"

\* While the lane samples, a connection that is up was so when the sample began or has
\* come up since, and so has the one after the sample's, if there is any and the worker
\* is not about to set its flag.
UpSinceBegan ==
    InSample =>
        /\ lane.connection <= shared.connection
        /\ sampled.connection = lane.connection
        /\ shared.connected => shared.connection \in during.began \cup during.joined
        /\ lane.connection < shared.connection =>
              \/ lane.connection + 1 \in during.joined
              \/ reader.pc = "connected" /\ shared.connection = lane.connection + 1

HeardOf(source) ==
    \/ source \in during.began \cup during.joined
    \/ source + 1 \in during.joined

ControllerInv ==
    /\ Shape
    /\ FlagDown
    /\ UpSinceBegan
    /\ lane.pc = "failed" => HeardOf(lane.connection)
    /\ lane.pc \in {"idle", "joining"} /\ lane.source # 0 => HeardOf(lane.source)
-----------------------------------------------------------------------------

\* What happens to the device touches nothing the threads share.
LEMMA PressInv ==
    ASSUME ControllerInv, NEW m \in ButtonMasks \cup {0}, Press(m) PROVE ControllerInv'
BY DEF ControllerInv, Shape, InSample, FlagDown, UpSinceBegan, HeardOf, Press, Happens, Event

LEMMA UnplugPlugInv ==
    ASSUME ControllerInv, Unplug \/ Plug PROVE ControllerInv'
BY DEF ControllerInv, Shape, InSample, FlagDown, UpSinceBegan, HeardOf, Unplug, Plug, Happens, Event

\* The worker opens a device, or is done, with the flag down.
LEMMA WorkerTopInv ==
    ASSUME ControllerInv, WorkerTop PROVE ControllerInv'
BY DEF ControllerInv, Shape, InSample, FlagDown, UpSinceBegan, HeardOf, WorkerTop, WorkerOnly

\* A new epoch while the flag is down; then the flag, which a sample that goes on hears of.
LEMMA WorkerConnectsInv ==
    ASSUME ControllerInv, WorkerConnects PROVE ControllerInv'
<1> USE DEF ControllerInv, Shape, InSample, FlagDown, UpSinceBegan, HeardOf, WorkerConnects, WorkerOnly
<1>1. CASE reader.pc = "connection"
  BY <1>1
<1>2. CASE reader.pc = "connected"
  <2>1. CASE lane.pc = "idle" /\ lane.source = 0
    BY <1>2, <2>1
  <2>2. CASE ~(lane.pc = "idle" /\ lane.source = 0)
    <3>1. /\ shared' = [shared EXCEPT !.connected = TRUE]
          /\ during' = [during EXCEPT !.joined = @ \cup {shared.connection}]
          /\ reader' = [reader EXCEPT !.pc = "tag", !.reported = reader.buttons]
          /\ UNCHANGED <<sampled, lane>>
      BY <1>2, <2>2
    <3>2. /\ during'.began = during.began
          /\ during'.joined = during.joined \cup {shared.connection}
          /\ {"began", "joined"} \subseteq DOMAIN during'
      BY <3>1
    <3>3. /\ shared'.connection = shared.connection
          /\ reader'.pc = "tag" /\ reader'.then = reader.then
          /\ reader'.open = reader.open /\ reader'.dropping = reader.dropping
      BY <3>1
    <3>4. Shape'
      BY <3>1
    <3>5. FlagDown'
      BY <1>2, <3>1, <3>3
    <3>6. UpSinceBegan'
      BY <1>2, <3>1, <3>2, <3>3
    <3>7. QED
      BY <3>1, <3>2, <3>4, <3>5, <3>6
  <2>3. QED
    BY <2>1, <2>2
<1>3. QED
  BY <1>1, <1>2

\* Reporting changes no flag and no epoch.
LEMMA WorkerTagInv ==
    ASSUME ControllerInv, WorkerTag PROVE ControllerInv'
BY DEF ControllerInv, Shape, InSample, FlagDown, UpSinceBegan, HeardOf, WorkerTag, WorkerOnly

LEMMA WorkerPushInv ==
    ASSUME ControllerInv, WorkerPush PROVE ControllerInv'
BY DEF ControllerInv, Shape, InSample, FlagDown, UpSinceBegan, HeardOf, WorkerPush, WorkerOnly

\* The second half of a fault takes the flag down.
LEMMA WorkerFaultInv ==
    ASSUME ControllerInv, WorkerFault PROVE ControllerInv'
BY DEF ControllerInv, Shape, InSample, FlagDown, UpSinceBegan, HeardOf, WorkerFault, WorkerOnly

LEMMA WorkerPollInv ==
    ASSUME ControllerInv, WorkerPoll PROVE ControllerInv'
BY DEF ControllerInv, Shape, InSample, FlagDown, UpSinceBegan, HeardOf, WorkerPoll, WorkerOnly

\* A loss of events and a loss of the device take the flag down.
LEMMA WorkerReadInv ==
    ASSUME ControllerInv, WorkerRead PROVE ControllerInv'
BY DEF ControllerInv, Shape, InSample, FlagDown, UpSinceBegan, HeardOf, WorkerRead, WorkerOnly

\* A sample begins with the connection that is up, and keeps no packet of another.
LEMMA SampleBeginsInv ==
    ASSUME ControllerInv, SampleBegins PROVE ControllerInv'
BY DEF ControllerInv, Shape, InSample, FlagDown, UpSinceBegan, HeardOf, SampleBegins, NoPacket

\* Only a packet of the sample's own connection is kept.
LEMMA SampleDrainsInv ==
    ASSUME ControllerInv, SampleDrains PROVE ControllerInv'
BY DEF ControllerInv, Shape, InSample, FlagDown, UpSinceBegan, HeardOf, SampleDrains

\* A sample that passes its checks has found the flag up after the epoch.
LEMMA SampleChecksInv ==
    ASSUME ControllerInv, SampleChecks PROVE ControllerInv'
<1> USE DEF ControllerInv
<1>1. UNCHANGED <<device, shared, packets, reader, sampled>>
  BY DEF SampleChecks
<1>2. ASSUME NEW mask, Deliver(mask, 0) PROVE ControllerInv'
  BY <1>1, <1>2 DEF Deliver, Shape, InSample, FlagDown, UpSinceBegan
<1>3. CASE lane.pc = "connection" /\ lane' = [lane EXCEPT !.pc = "connected"] /\ UNCHANGED during
  BY <1>1, <1>3 DEF Shape, InSample, FlagDown, UpSinceBegan, HeardOf
<1>4. CASE /\ lane.pc = "connected" /\ shared.connected
           /\ lane' = [lane EXCEPT !.pc = "failed"] /\ UNCHANGED during
  <2>1. HeardOf(lane.connection)
    BY <1>4 DEF Shape, InSample, FlagDown, UpSinceBegan, HeardOf
  <2>2. QED
    BY <1>1, <1>4, <2>1 DEF Shape, InSample, FlagDown, UpSinceBegan, HeardOf
<1>5. CASE /\ lane.pc = "failed" /\ sampled.connection # 0
           /\ Deliver(sampled.mask, sampled.connection)
  <2>1. sampled.connection = lane.connection /\ HeardOf(lane.connection)
    BY <1>5 DEF InSample, UpSinceBegan
  <2>2. /\ lane' = [lane EXCEPT !.pc = "idle", !.input = sampled.mask,
                              !.source = sampled.connection, !.connection = 0]
        /\ during' = during
    BY <1>5 DEF Deliver
  <2>3. lane'.pc = "idle" /\ lane'.source = lane.connection /\ lane'.state = lane.state
    BY <2>1, <2>2 DEF Shape
  <2>4. Shape'
    BY <1>1, <2>2 DEF Shape
  <2>5. FlagDown'
    BY <1>1, <2>3 DEF FlagDown
  <2>6. QED
    BY <2>1, <2>2, <2>3, <2>4, <2>5 DEF InSample, UpSinceBegan, HeardOf
<1>6. QED
  BY <1>2, <1>3, <1>4, <1>5 DEF SampleChecks

\* A reset, a pause and the wait for the worker leave the flag as they find it or down.
LEMMA MachineResetInv ==
    ASSUME ControllerInv, MachineReset PROVE ControllerInv'
BY DEF ControllerInv, Shape, InSample, FlagDown, UpSinceBegan, HeardOf, MachineReset

LEMMA PauseInputInv ==
    ASSUME ControllerInv, PauseInput PROVE ControllerInv'
BY DEF ControllerInv, Shape, InSample, FlagDown, UpSinceBegan, HeardOf, PauseInput

LEMMA JoinWorkerInv ==
    ASSUME ControllerInv, JoinWorker PROVE ControllerInv'
BY DEF ControllerInv, Shape, InSample, FlagDown, UpSinceBegan, HeardOf, JoinWorker

\* Reopening starts a new worker, without a device and with the flag down.
LEMMA ResumeInputInv ==
    ASSUME ControllerInv, ResumeInput PROVE ControllerInv'
BY DEF ControllerInv, Shape, InSample, FlagDown, UpSinceBegan, HeardOf, ResumeInput, NoPacket, NewWorker

\* The initial state: no connection and no input.
LEMMA ControllerInitInv == ControllerInit => ControllerInv
BY DEF ControllerInit, ControllerInv, Shape, InSample, FlagDown, UpSinceBegan, NewWorker

\* The inductive invariant holds in every reachable state.
LEMMA ControllerInvariant == ControllerSpec => []ControllerInv
<1>1. ControllerInv /\ [ControllerNext]_controllerVars => ControllerInv'
  <2> SUFFICES ASSUME ControllerInv, [ControllerNext]_controllerVars PROVE ControllerInv'
    OBVIOUS
  <2>1. CASE UNCHANGED controllerVars
    BY <2>1 DEF controllerVars, ControllerInv, Shape, InSample, FlagDown, UpSinceBegan, HeardOf
  <2>2. CASE (\E m \in ButtonMasks \cup {0} : Press(m)) \/ Unplug \/ Plug
    BY <2>2, PressInv, UnplugPlugInv
  <2>3. CASE WorkerStep
    BY <2>3, WorkerTopInv, WorkerConnectsInv, WorkerTagInv, WorkerPushInv, WorkerFaultInv,
       WorkerPollInv, WorkerReadInv DEF WorkerStep
  <2>4. CASE SampleStep
    BY <2>4, SampleBeginsInv, SampleDrainsInv, SampleChecksInv DEF SampleStep
  <2>5. CASE MachineReset \/ PauseInput \/ JoinWorker \/ ResumeInput
    BY <2>5, MachineResetInv, PauseInputInv, JoinWorkerInv, ResumeInputInv
  <2>6. QED
    BY <2>1, <2>2, <2>3, <2>4, <2>5 DEF ControllerNext
<1>2. QED
  BY ControllerInitInv, <1>1, PTL DEF ControllerSpec

\* The buttons the machine runs on come from a connection that was up during the sample
\* that delivered them, or the next one came up during it (LinuxController's run against
\* sampleBoundaryV1, which looks at the epoch and then at the flag).
THEOREM ButtonsNeverStale == ControllerSpec => []NoStaleButtons
<1>1. ControllerInv => NoStaleButtons
  BY DEF ControllerInv, HeardOf, NoStaleButtons
<1>2. QED
  BY ControllerInvariant, <1>1, PTL

-----------------------------------------------------------------------------
(*** VisualCapture ********************************************************)

ResourcesOf(completions) == {c.resource : c \in completions}
Succeeded(completions) == {c.resource : c \in {d \in completions : d.success}}
Completions == [resource : Resources, success : BOOLEAN]

CaptureTypeOK ==
    /\ seen \subseteq Resources /\ queued \subseteq Resources
    /\ completed \subseteq Completions
    /\ writing = {} \/ \E c \in Completions : writing = {c}
    /\ pendingWrites \in Nat /\ manifestDirty \in BOOLEAN
    /\ capture \in {"on", "waiting", "over"}

\* A resource that was seen is in one place at most between its task and its entry.
OnePlace ==
    /\ queued \cup ResourcesOf(writing) \cup ResourcesOf(completed) \subseteq seen
    /\ queued \cap ResourcesOf(writing) = {}
    /\ (queued \cup ResourcesOf(writing)) \cap ResourcesOf(completed) = {}

\* The counter the end of the capture waits for counts the tasks.
WritesCounted ==
    pendingWrites = Cardinality(queued) + (IF writing = {} THEN 0 ELSE 1)

\* A file on the disk is entered, or its completion is on its way.
ImagesEntered ==
    images = entries \cup Succeeded(writing) \cup Succeeded(completed)

CaptureInv ==
    /\ CaptureTypeOK /\ OnePlace /\ WritesCounted /\ ImagesEntered
    /\ ~manifestDirty => entries = {}
    /\ capture # "over" => manifest = {}
    /\ capture = "over" /\ captureExcuse = {} =>
          queued = {} /\ writing = {} /\ manifest = images
-----------------------------------------------------------------------------
\* Tasks are finitely many, so counting them is meaningful.
LEMMA QueuedFinite == CaptureTypeOK => IsFiniteSet(queued) /\ Cardinality(queued) \in Nat
BY CaptureAssumption, FS_Subset, FS_CardinalityType DEF CaptureTypeOK

LEMMA CaptureInitInv == CaptureInit => CaptureInv
<1>1. Cardinality({}) = 0
  BY FS_EmptySet
<1>2. ASSUME CaptureInit PROVE WritesCounted
  BY <1>1, <1>2 DEF CaptureInit, WritesCounted
<1>3. ASSUME CaptureInit PROVE CaptureTypeOK
  <2>1. manifestDirty \in BOOLEAN
    BY <1>3, Zenon DEF CaptureInit
  <2>2. QED
    BY <1>3, <2>1 DEF CaptureInit, CaptureTypeOK
<1>4. CaptureInit => OnePlace /\ ImagesEntered
  BY DEF CaptureInit, OnePlace, ImagesEntered, ResourcesOf, Succeeded
<1>5. QED
  BY <1>2, <1>3, <1>4 DEF CaptureInit, CaptureInv

\* A resource seen for the first time is in no other place.
LEMMA ObserveInv == ASSUME CaptureInv, NEW r \in Resources, Observe(r) PROVE CaptureInv'
<1>1. r \notin queued /\ r \notin ResourcesOf(writing) /\ r \notin ResourcesOf(completed)
  BY DEF CaptureInv, OnePlace, Observe
<1>2. Cardinality(queued \cup {r}) = Cardinality(queued) + 1
  BY <1>1, QueuedFinite, FS_AddElement DEF CaptureInv
<1>3. CaptureTypeOK'
  BY DEF CaptureInv, CaptureTypeOK, Observe
<1>4. OnePlace'
  BY <1>1 DEF CaptureInv, OnePlace, Observe, ResourcesOf
<1>5. WritesCounted'
  BY <1>2, QueuedFinite DEF CaptureInv, CaptureTypeOK, WritesCounted, Observe
<1>6. QED
  BY <1>3, <1>4, <1>5 DEF CaptureInv, ImagesEntered, Observe, Succeeded

\* A task leaves the queue and becomes the one that is past its file.
LEMMA WriteImageInv == ASSUME CaptureInv, NEW r \in Resources, WriteImage(r) PROVE CaptureInv'
<1>1. PICK success \in BOOLEAN :
        /\ writing' = {Completion(r, success)}
        /\ images' = IF success THEN images \cup {r} ELSE images
  BY DEF WriteImage
<1>2. /\ r \in queued /\ writing = {} /\ queued' = queued \ {r}
      /\ UNCHANGED <<seen, pendingWrites, completed, entries, manifestDirty, manifest, capture,
                     captureExcuse>>
  BY DEF WriteImage
<1>3. /\ ResourcesOf(writing) = {} /\ Succeeded(writing) = {}
      /\ ResourcesOf(writing') = {r} /\ Succeeded(writing') = IF success THEN {r} ELSE {}
  BY <1>1, <1>2 DEF ResourcesOf, Succeeded, Completion
<1>4. Cardinality(queued \ {r}) = Cardinality(queued) - 1
  BY <1>2, QueuedFinite, FS_RemoveElement DEF CaptureInv
<1>5. CaptureTypeOK'
  BY <1>1, <1>2 DEF CaptureInv, CaptureTypeOK, Completion, Completions
<1>6. OnePlace'
  BY <1>2, <1>3 DEF CaptureInv, OnePlace
<1>7. WritesCounted'
  BY <1>1, <1>2, <1>4, QueuedFinite DEF CaptureInv, CaptureTypeOK, WritesCounted
<1>8. ImagesEntered'
  BY <1>1, <1>2, <1>3 DEF CaptureInv, ImagesEntered
<1>9. QED
  BY <1>2, <1>5, <1>6, <1>7, <1>8 DEF CaptureInv

\* The completion is left as the task counts itself out.
LEMMA CompleteInv == ASSUME CaptureInv, NEW c \in writing, Complete(c) PROVE CaptureInv'
<1>1. writing = {c} /\ c \in Completions
  BY DEF CaptureInv, CaptureTypeOK
<1>2. /\ writing' = {} /\ completed' = completed \cup {c} /\ pendingWrites' = pendingWrites - 1
      /\ UNCHANGED <<seen, queued, entries, manifestDirty, images, manifest, capture, failures,
                     captureExcuse>>
  BY DEF Complete
<1>3. /\ ResourcesOf(writing') = {} /\ Succeeded(writing') = {}
      /\ ResourcesOf(completed') = ResourcesOf(completed) \cup ResourcesOf(writing)
      /\ Succeeded(completed') = Succeeded(completed) \cup Succeeded(writing)
  BY <1>1, <1>2 DEF ResourcesOf, Succeeded
<1>4. CaptureTypeOK' /\ WritesCounted'
  <2>1. Cardinality(queued) \in Nat /\ pendingWrites = Cardinality(queued) + 1
    BY <1>1, QueuedFinite DEF CaptureInv, WritesCounted
  <2>2. pendingWrites' = Cardinality(queued)
    BY <2>1, <1>2
  <2>3. WritesCounted'
    <3>1. queued' = queued /\ writing' = {}
      BY <1>2
    <3>2. Cardinality(queued') = Cardinality(queued)
      BY <3>1
    <3>3. QED
      BY <2>1, <2>2, <3>1, <3>2 DEF WritesCounted
  <2>4. QED
    BY <2>1, <2>2, <2>3, <1>1, <1>2 DEF CaptureInv, CaptureTypeOK
<1>5. OnePlace'
  BY <1>2, <1>3 DEF CaptureInv, OnePlace
<1>6. ImagesEntered'
  BY <1>2, <1>3 DEF CaptureInv, ImagesEntered
<1>7. QED
  BY <1>1, <1>2, <1>4, <1>5, <1>6 DEF CaptureInv

\* Taking the completions, by a poll or at the end: what failed is in no other place, so
\* forgetting it forgets no task.
LEMMA TakeCompletionsInv ==
    ASSUME CaptureInv, TakeCompletions, UNCHANGED <<queued, writing, pendingWrites, images>>
    PROVE  /\ seen' \subseteq Resources /\ completed' = {} /\ manifestDirty' \in BOOLEAN
           /\ OnePlace' /\ ImagesEntered' /\ (~manifestDirty => entries = {})'
<1>1. seen' = seen \ {c.resource : c \in {d \in completed : ~d.success}}
  BY DEF TakeCompletions
<1>2. {c.resource : c \in {d \in completed : ~d.success}} \subseteq ResourcesOf(completed)
  BY DEF ResourcesOf
<1>3. completed' = {} /\ ResourcesOf(completed') = {} /\ Succeeded(completed') = {}
  BY DEF TakeCompletions, ResourcesOf, Succeeded
<1>4. /\ entries' = entries \cup Succeeded(completed)
      /\ manifestDirty' = (manifestDirty \/ Succeeded(completed) # {})
  BY DEF TakeCompletions, Succeeded
<1>5. OnePlace'
  BY <1>1, <1>2, <1>3 DEF CaptureInv, OnePlace
<1>6. ImagesEntered'
  BY <1>3, <1>4 DEF CaptureInv, ImagesEntered
<1>7. QED
  BY <1>1, <1>3, <1>4, <1>5, <1>6 DEF CaptureInv, CaptureTypeOK

LEMMA PollCompletionsInv == ASSUME CaptureInv, PollCompletions PROVE CaptureInv'
BY TakeCompletionsInv DEF PollCompletions, CaptureInv, CaptureTypeOK, WritesCounted

\* The wait and its end by time.
LEMMA EndCaptureWaitsInv ==
    ASSUME CaptureInv, EndCaptureWaits \/ EndCaptureTimesOut PROVE CaptureInv'
BY DEF CaptureInv, CaptureTypeOK, OnePlace, WritesCounted, ImagesEntered, ResourcesOf, Succeeded,
       EndCaptureWaits, EndCaptureTimesOut

\* A capture that ends without the timeout finds no task, and enters all completions.
LEMMA EndCaptureInv == ASSUME CaptureInv, EndCapture PROVE CaptureInv'
<1>1. /\ TakeCompletions /\ capture = "waiting" /\ capture' = "over"
      /\ UNCHANGED <<queued, writing, pendingWrites, images>>
  BY DEF EndCapture
<1>2. /\ seen' \subseteq Resources /\ completed' = {} /\ manifestDirty' \in BOOLEAN
      /\ OnePlace' /\ ImagesEntered' /\ (~manifestDirty => entries = {})'
  BY <1>1, TakeCompletionsInv
<1>3. CaptureTypeOK' /\ WritesCounted'
  BY <1>1, <1>2 DEF CaptureInv, CaptureTypeOK, WritesCounted
<1>4. ASSUME captureExcuse' = {}
      PROVE  queued' = {} /\ writing' = {} /\ manifest' = images'
  <2>1. captureExcuse = {} /\ pendingWrites = 0
    BY <1>4 DEF EndCapture
  <2>2. Cardinality(queued) = 0 /\ writing = {}
    BY <2>1, QueuedFinite DEF CaptureInv, WritesCounted
  <2>3. queued = {}
    BY <2>2, QueuedFinite, FS_EmptySet DEF CaptureInv
  <2>4. images' = entries'
    BY <1>1, <1>2, <2>2 DEF ImagesEntered, Succeeded
  <2>5. manifest' = IF manifestDirty' THEN entries' ELSE manifest
    BY <1>4, <2>1 DEF EndCapture
  <2>6. manifest = {}
    BY <1>1 DEF CaptureInv
  <2>7. QED
    BY <1>1, <1>2, <2>2, <2>3, <2>4, <2>5, <2>6
<1>5. QED
  BY <1>1, <1>2, <1>3, <1>4 DEF CaptureInv

\* The inductive invariant holds in every reachable state.
LEMMA CaptureInvariant == CaptureSpec => []CaptureInv
<1>1. CaptureInv /\ [CaptureNext]_captureVars => CaptureInv'
  <2> SUFFICES ASSUME CaptureInv, [CaptureNext]_captureVars PROVE CaptureInv'
    OBVIOUS
  <2>1. CASE UNCHANGED captureVars
    BY <2>1 DEF captureVars, CaptureInv, CaptureTypeOK, OnePlace, WritesCounted, ImagesEntered,
                ResourcesOf, Succeeded
  <2>2. CASE CaptureNext
    BY <2>2, ObserveInv, WriteImageInv, CompleteInv, PollCompletionsInv, EndCaptureWaitsInv,
       EndCaptureInv DEF CaptureNext
  <2>3. QED
    BY <2>1, <2>2
<1>2. QED
  BY CaptureInitInv, <1>1, PTL DEF CaptureSpec

\* Once a capture is over, its manifest lists the images that were written, unless the
\* wait ran out or the manifest could not be written (VisualOverrideService's
\* endCapture against the pool's write tasks and pollBackgroundWork).
THEOREM ManifestComplete == CaptureSpec => []CaptureComplete
<1>1. CaptureInv => CaptureComplete
  BY DEF CaptureInv, CaptureComplete
<1>2. QED
  BY CaptureInvariant, <1>1, PTL

-----------------------------------------------------------------------------
(*** MidiExport ***********************************************************)

Messages == [kind : {"on", "off", "control"}, voice : MidiVoices, frame : Nat]

\* Notes alternate in s, and the voices it leaves on are the active ones.
Right(s, active) ==
    NotesAlternate(s) /\ \A v \in MidiVoices : NoteSounds(s, v, Len(s)) <=> active[v]

\* Frames never go back in s, and none is past this one.
UpTo(s, frame) ==
    \A i \in 1 .. Len(s) :
        s[i].frame <= frame /\ \A j \in i .. Len(s) : s[i].frame <= s[j].frame

\* The voices that sound after one more message.
Heard(active, m) ==
    IF m.kind = "control" THEN active ELSE [active EXCEPT ![m.voice] = (m.kind = "on")]
-----------------------------------------------------------------------------
(* Sequences of messages.                                                  *)

\* The messages of one sequence, then those of another.
LEMMA Joined ==
    ASSUME NEW s \in Seq(Messages), NEW t \in Seq(Messages)
    PROVE  /\ s \o t \in Seq(Messages) /\ Len(s \o t) = Len(s) + Len(t)
           /\ \A i \in 1 .. Len(s) + Len(t) :
                (s \o t)[i] = IF i <= Len(s) THEN s[i] ELSE t[i - Len(s)]
BY ConcatProperties

\* What a prefix leaves on does not depend on what follows it.
LEMMA PrefixSounds ==
    ASSUME NEW s \in Seq(Messages), NEW t \in Seq(Messages), NEW v, NEW n \in 0 .. Len(s)
    PROVE  NoteSounds(s \o t, v, n) <=> NoteSounds(s, v, n)
<1>1. Len(s) \in Nat /\ Len(t) \in Nat
  BY LenProperties
<1>2. \A i \in 1 .. n : (s \o t)[i] = s[i]
  BY <1>1, Joined
<1>3. \A i \in 1 .. n : \A j \in i + 1 .. n : j \in 1 .. n
  BY <1>1
<1>4. QED
  BY <1>2, <1>3 DEF NoteSounds

\* A message that starts a silent voice, ends one that sounds, or is a control.
LEMMA OneMore ==
    ASSUME NEW s \in Seq(Messages), NEW m \in Messages, NEW active \in [MidiVoices -> BOOLEAN],
           Right(s, active),
           m.kind = "on" => ~active[m.voice], m.kind = "off" => active[m.voice]
    PROVE  s \o <<m>> \in Seq(Messages) /\ Right(s \o <<m>>, Heard(active, m))
<1> DEFINE t == s \o <<m>>
           k == Len(s) + 1
<1>1. Len(s) \in Nat
  BY LenProperties
<1>2. <<m>> \in Seq(Messages) /\ Len(<<m>>) = 1 /\ <<m>>[1] = m
  OBVIOUS
<1>3. /\ t \in Seq(Messages) /\ Len(t) = k
      /\ \A i \in 1 .. k : t[i] = IF i <= Len(s) THEN s[i] ELSE <<m>>[i - Len(s)]
  BY <1>2, Joined
<1>4. t[k] = m /\ \A i \in 1 .. Len(s) : t[i] = s[i]
  <2>1. k \in 1 .. k /\ ~(k <= Len(s)) /\ k - Len(s) = 1
    BY <1>1
  <2>2. \A i \in 1 .. Len(s) : i \in 1 .. k /\ i <= Len(s)
    BY <1>1
  <2>3. QED
    BY <1>2, <1>3, <2>1, <2>2
<1>5. \A v, n : n \in 0 .. Len(s) => (NoteSounds(t, v, n) <=> NoteSounds(s, v, n))
  BY <1>2, PrefixSounds
<1>6. m.kind \in {"on", "off", "control"} /\ m.voice \in MidiVoices
  BY DEF Messages
<1> HIDE DEF t
<1>7. NotesAlternate(t)
  <2> SUFFICES ASSUME NEW i \in 1 .. k
               PROVE  /\ t[i].kind = "on" => ~NoteSounds(t, t[i].voice, i - 1)
                      /\ t[i].kind = "off" => NoteSounds(t, t[i].voice, i - 1)
    BY <1>3 DEF NotesAlternate
  <2>1. i - 1 \in 0 .. Len(s)
    BY <1>1
  <2>2. NoteSounds(t, t[i].voice, i - 1) <=> NoteSounds(s, t[i].voice, i - 1)
    BY <1>5, <2>1
  <2>3. CASE i \in 1 .. Len(s)
    BY <1>4, <2>2, <2>3 DEF Right, NotesAlternate
  <2>4. CASE i = k
    <3>1. i - 1 = Len(s) /\ t[i] = m
      BY <1>1, <1>4, <2>4
    <3>2. QED
      BY <1>6, <2>2, <3>1 DEF Right
  <2>5. QED
    BY <1>1, <2>3, <2>4
<1>8. ASSUME NEW v \in MidiVoices
      PROVE  NoteSounds(t, v, k) <=> \/ m.kind = "on" /\ m.voice = v
                                     \/ active[v] /\ ~(m.kind = "off" /\ m.voice = v)
  <2>1. NoteSounds(t, v, k) <=>
          \/ m.kind = "on" /\ m.voice = v
          \/ NoteSounds(t, v, Len(s)) /\ ~(m.kind = "off" /\ m.voice = v)
    <3>1. 1 .. k = (1 .. Len(s)) \cup {k} /\ k + 1 .. k = {}
      BY <1>1
    <3>2. \A i \in 1 .. Len(s) : i + 1 .. k = (i + 1 .. Len(s)) \cup {k}
      BY <1>1
    <3>3. \A i \in 1 .. Len(s) :
            (\A j \in i + 1 .. k : ~(t[j].kind = "off" /\ t[j].voice = v)) <=>
              /\ \A j \in i + 1 .. Len(s) : ~(t[j].kind = "off" /\ t[j].voice = v)
              /\ ~(m.kind = "off" /\ m.voice = v)
      BY <1>4, <3>2
    <3>4. QED
      BY <1>4, <3>1, <3>3 DEF NoteSounds
  <2>2. Len(s) \in 0 .. Len(s)
    BY <1>1
  <2>3. NoteSounds(t, v, Len(s)) <=> active[v]
    BY <1>5, <2>2 DEF Right
  <2>4. QED
    BY <2>1, <2>3
<1>9. ASSUME NEW v \in MidiVoices PROVE NoteSounds(t, v, k) <=> Heard(active, m)[v]
  <2>1. CASE m.kind = "control"
    BY <1>8, <2>1 DEF Heard
  <2>2. CASE m.kind = "on"
    BY <1>6, <1>8, <2>2 DEF Heard
  <2>3. CASE m.kind = "off"
    BY <1>6, <1>8, <2>3 DEF Heard
  <2>4. QED
    BY <1>6, <2>1, <2>2, <2>3
<1>10. QED
  BY <1>3, <1>7, <1>9 DEF Right, t

\* Every voice that sounds is ended, each once.
LEMMA AllEnded ==
    ASSUME NEW s \in Seq(Messages), NEW active \in [MidiVoices -> BOOLEAN], Right(s, active),
           NEW t \in Seq(Messages), \A i \in 1 .. Len(t) : t[i].kind = "off",
           \A i, j \in 1 .. Len(t) : t[i].voice = t[j].voice => i = j,
           \A v \in MidiVoices : active[v] <=> \E i \in 1 .. Len(t) : t[i].voice = v
    PROVE  Right(s \o t, [v \in MidiVoices |-> FALSE])
<1>1. Len(s) \in Nat /\ Len(t) \in Nat
  BY LenProperties
<1>2. /\ Len(s \o t) = Len(s) + Len(t)
      /\ \A i \in 1 .. Len(s) + Len(t) :
            (s \o t)[i] = IF i <= Len(s) THEN s[i] ELSE t[i - Len(s)]
  BY Joined
<1> DEFINE all == s \o t
<1>3. \A i \in 1 .. Len(s) : all[i] = s[i]
  BY <1>1, <1>2
<1>4. ASSUME NEW i \in Len(s) + 1 .. Len(all)
      PROVE  /\ i - Len(s) \in 1 .. Len(t)
             /\ all[i].kind = "off" /\ all[i].voice = t[i - Len(s)].voice
  <2>1. i - Len(s) \in 1 .. Len(t) /\ ~(i <= Len(s)) /\ i \in 1 .. Len(s) + Len(t)
    BY <1>1, <1>2
  <2>2. all[i] = t[i - Len(s)]
    BY <1>2, <2>1
  <2>3. QED
    BY <2>1, <2>2
<1>5. \A v, n : n \in 0 .. Len(s) => (NoteSounds(all, v, n) <=> NoteSounds(s, v, n))
  BY PrefixSounds
<1>6. \A v \in MidiVoices : NoteSounds(s, v, Len(s)) <=> active[v]
  BY DEF Right
<1> HIDE DEF all
<1>7. NotesAlternate(all)
  <2> SUFFICES ASSUME NEW i \in 1 .. Len(all)
               PROVE  /\ all[i].kind = "on" => ~NoteSounds(all, all[i].voice, i - 1)
                      /\ all[i].kind = "off" => NoteSounds(all, all[i].voice, i - 1)
    BY DEF NotesAlternate
  <2>1. CASE i \in 1 .. Len(s)
    <3>1. i - 1 \in 0 .. Len(s)
      BY <1>1, <2>1
    <3>2. all[i] = s[i] /\ (NoteSounds(all, s[i].voice, i - 1) <=> NoteSounds(s, s[i].voice, i - 1))
      BY <1>3, <1>5, <2>1, <3>1
    <3>3. QED
      BY <2>1, <3>2 DEF Right, NotesAlternate
  <2>2. CASE i \in Len(s) + 1 .. Len(all)
    <3> DEFINE v == t[i - Len(s)].voice
    <3>1. all[i].kind = "off" /\ all[i].voice = v /\ i - Len(s) \in 1 .. Len(t)
      BY <1>4, <2>2
    <3>2. v \in MidiVoices
      <4>1. t[i - Len(s)] \in Messages
        BY <3>1, ElementOfSeq
      <4>2. QED
        BY <4>1 DEF Messages
    <3>3. NoteSounds(s, v, Len(s))
      BY <1>6, <3>1, <3>2
    <3>4. PICK on \in 1 .. Len(s) :
            /\ s[on].kind = "on" /\ s[on].voice = v
            /\ \A j \in on + 1 .. Len(s) : ~(s[j].kind = "off" /\ s[j].voice = v)
      BY <3>3 DEF NoteSounds
    <3>5. ASSUME NEW j \in on + 1 .. i - 1
          PROVE  ~(all[j].kind = "off" /\ all[j].voice = v)
      <4>1. CASE j \in 1 .. Len(s)
        <5>1. j \in on + 1 .. Len(s)
          BY <1>1, <4>1
        <5>2. QED
          BY <1>3, <3>4, <4>1, <5>1
      <4>2. CASE j \in Len(s) + 1 .. Len(all)
        <5>1. j - Len(s) # i - Len(s)
          BY <1>1, <2>2, <4>2
        <5>2. all[j].voice = t[j - Len(s)].voice /\ j - Len(s) \in 1 .. Len(t)
          BY <1>4, <4>2
        <5>3. QED
          BY <3>1, <5>1, <5>2
      <4>3. Len(all) \in Nat
        BY <1>1, <1>2
      <4>4. QED
        BY <1>1, <2>2, <4>1, <4>2, <4>3
    <3>6. on \in 1 .. i - 1
      BY <1>1, <2>2
    <3>7. all[on].kind = "on" /\ all[on].voice = v
      BY <1>3, <3>4
    <3>8. NoteSounds(all, v, i - 1)
      BY <3>5, <3>6, <3>7 DEF NoteSounds
    <3>9. QED
      BY <3>1, <3>8
  <2>3. QED
    BY <1>1, <1>2, <2>1, <2>2
<1>8. ASSUME NEW v \in MidiVoices, NoteSounds(all, v, Len(all)) PROVE FALSE
  <2>1. PICK on \in 1 .. Len(all) :
          /\ all[on].kind = "on" /\ all[on].voice = v
          /\ \A j \in on + 1 .. Len(all) : ~(all[j].kind = "off" /\ all[j].voice = v)
    BY <1>8 DEF NoteSounds
  <2>2. on \in 1 .. Len(s)
    <3>1. on \notin Len(s) + 1 .. Len(all)
      BY <1>4, <2>1
    <3>2. QED
      BY <1>1, <1>2, <3>1
  <2>3. \A j \in on + 1 .. Len(s) : j \in on + 1 .. Len(all) /\ j \in 1 .. Len(s)
    BY <1>1, <1>2, <2>2 DEF all
  <2>4. NoteSounds(s, v, Len(s))
    <3>1. s[on].kind = "on" /\ s[on].voice = v
      BY <1>3, <2>1, <2>2
    <3>2. \A j \in on + 1 .. Len(s) : ~(s[j].kind = "off" /\ s[j].voice = v)
      BY <1>3, <2>1, <2>3
    <3>3. QED
      BY <2>2, <3>1, <3>2 DEF NoteSounds
  <2>5. PICK i \in 1 .. Len(t) : t[i].voice = v
    BY <1>6, <2>4
  <2>6. Len(s) + i \in Len(s) + 1 .. Len(all) /\ (Len(s) + i) - Len(s) = i
    <3>1. i \in 1 .. Len(t) /\ Len(all) = Len(s) + Len(t)
      BY <1>1, <1>2, <2>5 DEF all
    <3>2. QED
      BY <1>1, <3>1
  <2>7. all[Len(s) + i].kind = "off" /\ all[Len(s) + i].voice = v
    BY <1>4, <2>5, <2>6
  <2>8. Len(s) + i \in on + 1 .. Len(all)
    BY <1>1, <2>2, <2>6
  <2>9. QED
    BY <2>1, <2>7, <2>8
<1>9. QED
  BY <1>7, <1>8 DEF Right, all

\* Messages at one frame, no earlier than the frames before them.
LEMMA StillUpTo ==
    ASSUME NEW s \in Seq(Messages), NEW t \in Seq(Messages), NEW frame \in Nat, NEW at \in Nat,
           frame <= at, UpTo(s, frame), \A i \in 1 .. Len(t) : t[i].frame = at
    PROVE  UpTo(s \o t, at)
<1>1. Len(s) \in Nat /\ Len(t) \in Nat
  BY LenProperties
<1>2. /\ Len(s \o t) = Len(s) + Len(t)
      /\ \A i \in 1 .. Len(s) + Len(t) :
            (s \o t)[i] = IF i <= Len(s) THEN s[i] ELSE t[i - Len(s)]
  BY Joined
<1> DEFINE all == s \o t
<1>3. \A i \in 1 .. Len(s) : all[i] = s[i] /\ s[i].frame \in Nat
  <2>1. \A i \in 1 .. Len(s) : s[i] \in Messages
    BY ElementOfSeq
  <2>2. QED
    BY <1>1, <1>2, <2>1 DEF Messages
<1>4. \A i \in Len(s) + 1 .. Len(all) : all[i].frame = at
  BY <1>1, <1>2
<1> HIDE DEF all
<1>5. ASSUME NEW i \in 1 .. Len(all)
      PROVE  all[i].frame <= at /\ \A j \in i .. Len(all) : all[i].frame <= all[j].frame
  <2>1. CASE i \in 1 .. Len(s)
    <3>1. all[i] = s[i] /\ s[i].frame \in Nat /\ s[i].frame <= at
      BY <1>3, <2>1 DEF UpTo
    <3>2. ASSUME NEW j \in i .. Len(all) PROVE s[i].frame <= all[j].frame
      <4>1. CASE j \in i .. Len(s)
        <5>1. j \in 1 .. Len(s)
          BY <1>1, <2>1, <4>1
        <5>2. QED
          BY <1>3, <2>1, <4>1, <5>1 DEF UpTo
      <4>2. CASE j \in Len(s) + 1 .. Len(all)
        BY <1>4, <3>1, <4>2
      <4>3. QED
        BY <1>1, <1>2, <2>1, <4>1, <4>2
    <3>3. QED
      BY <3>1, <3>2
  <2>2. CASE i \in Len(s) + 1 .. Len(all)
    <3>1. \A j \in i .. Len(all) : j \in Len(s) + 1 .. Len(all)
      BY <1>1, <1>2, <2>2
    <3>2. QED
      BY <1>4, <2>2, <3>1
  <2>3. QED
    BY <1>1, <1>2, <2>1, <2>2
<1>6. QED
  BY <1>5 DEF UpTo, all

\* The file's sort leaves messages alone whose frames never go back.
LEMMA SortedStays ==
    ASSUME NEW s \in Seq(Messages), NEW frame, UpTo(s, frame)
    PROVE  ByFrame(s) = s
<1>1. Len(s) \in Nat
  BY LenProperties
<1>2. \A i \in 1 .. Len(s) : s[i].frame \in Nat
  <2>1. \A i \in 1 .. Len(s) : s[i] \in Messages
    BY ElementOfSeq
  <2>2. QED
    BY <2>1 DEF Messages
<1>3. ASSUME NEW i \in 1 .. Len(s) PROVE Before(s, i) = 1 .. i - 1
  <2>1. ASSUME NEW j \in 1 .. Len(s) PROVE j \in Before(s, i) <=> j \in 1 .. i - 1
    <3>1. CASE j < i
      <4>1. i \in j .. Len(s)
        BY <1>1, <3>1
      <4>2. s[j].frame <= s[i].frame
        BY <4>1 DEF UpTo
      <4>3. s[j].frame < s[i].frame \/ s[j].frame = s[i].frame
        BY <1>2, <4>2
      <4>4. QED
        BY <1>1, <3>1, <4>3 DEF Before
    <3>2. CASE ~(j < i)
      <4>1. j \in i .. Len(s)
        BY <1>1, <3>2
      <4>2. s[i].frame <= s[j].frame
        BY <4>1 DEF UpTo
      <4>3. ~(s[j].frame < s[i].frame)
        BY <1>2, <4>2
      <4>4. QED
        BY <1>1, <3>2, <4>3 DEF Before
    <3>3. QED
      BY <3>1, <3>2
  <2>2. Before(s, i) \subseteq 1 .. Len(s) /\ 1 .. i - 1 \subseteq 1 .. Len(s)
    BY <1>1 DEF Before
  <2>3. QED
    BY <2>1, <2>2
<1>4. \A i \in 1 .. Len(s) : Cardinality(Before(s, i)) = i - 1
  BY <1>1, <1>3, FS_Interval
<1>5. ASSUME NEW n \in 1 .. Len(s)
      PROVE  (CHOOSE i \in 1 .. Len(s) : Cardinality(Before(s, i)) = n - 1) = n
  <2>1. \A i \in 1 .. Len(s) : Cardinality(Before(s, i)) = n - 1 <=> i = n
    BY <1>1, <1>4
  <2>2. QED
    BY <2>1
<1>6. \A n \in 1 .. Len(s) :
        s[CHOOSE i \in 1 .. Len(s) : Cardinality(Before(s, i)) = n - 1] = s[n]
  BY <1>5, Zenon
<1>7. ByFrame(s) = [n \in 1 .. Len(s) |-> s[n]]
  BY <1>6, Zenon DEF ByFrame
<1>8. s = [n \in 1 .. Len(s) |-> s[n]]
  BY LenProperties
<1>9. QED
  BY <1>7, <1>8

\* A finite set's sequence names each of its elements once.
LEMMA SetListed ==
    ASSUME NEW S, IsFiniteSet(S)
    PROVE  /\ SetToSeq(S) \in Seq(S)
           /\ \A i, j \in 1 .. Len(SetToSeq(S)) : SetToSeq(S)[i] = SetToSeq(S)[j] => i = j
           /\ \A x \in S : \E i \in 1 .. Len(SetToSeq(S)) : SetToSeq(S)[i] = x
<1> DEFINE n == Cardinality(S)
           list == SetToSeq(S)
<1>1. n \in Nat /\ ExistsBijection(1 .. n, S)
  BY FS_CardinalityType
<1>2. \E f \in [1 .. n -> S] : \A a, b \in DOMAIN f : f[a] = f[b] => a = b
  BY <1>1 DEF ExistsBijection, Bijection, Injection, IsInjective
<1>3. list \in [1 .. n -> S] /\ \A a, b \in DOMAIN list : list[a] = list[b] => a = b
  BY <1>2 DEF SetToSeq, IsInjective
<1>4. list \in Seq(S) /\ Len(list) = n
  BY <1>1, <1>3
<1>5. list \in Injection(1 .. n, S)
  BY <1>3 DEF Injection, IsInjective
<1>6. IsFiniteSet(1 .. n) /\ Cardinality(1 .. n) = n
  BY <1>1, FS_Interval
<1>7. list \in Surjection(1 .. n, S)
  BY <1>5, <1>6, FS_Injection
<1>8. QED
  BY <1>3, <1>4, <1>7 DEF Surjection
-----------------------------------------------------------------------------
(* The inductive invariant.                                                *)

LanePlaces ==
    {"idle", "send", "wake", "flush", "waiting", "looking", "flushing", "stop", "join", "gone"}
ThreadPlaces == {"loop", "acquire", "drain", "advance", "sending", "clear", "notify", "done"}

\* A message is marked as on its way to the device.
OnItsWay == {"advance", "sending", "clear"}

MidiTypes ==
    /\ notes \in [active : [MidiVoices -> BOOLEAN], frame : Nat, attached : BOOLEAN, attaches : Nat]
    /\ outbox \in [pc : LanePlaces, messages : Seq(Messages), then : {"idle", "flush"},
                   ends : BOOLEAN]
    /\ async \in [device : BOOLEAN, queue : Seq(Messages), permits : Nat, running : BOOLEAN,
                  inFlight : BOOLEAN, waiting : BOOLEAN]
    /\ midiWorker \in [pc : ThreadPlaces, message : Messages \cup {NotWritten[1]}]
    /\ sink \in Seq(Messages)
    /\ midiPast \in [events : Nat, lost : BOOLEAN, rewound : BOOLEAN]

\* The lane flushes only what a detached plugin has left it, with every note ended.
LaneRight ==
    /\ outbox.pc \in {"send", "wake"} <=> outbox.messages # << >>
    /\ outbox.pc \in {"send", "wake"} /\ outbox.then = "flush" => ~notes.attached
    /\ outbox.pc \notin {"idle", "send", "wake"} => ~notes.attached
    /\ ~notes.attached => \A v \in MidiVoices : ~notes.active[v]

\* A message stays in the queue until it is marked; once the lane has seen the queue
\* empty no other is marked, and none is while it flushes.
ThreadRight ==
    /\ ~async.device => midiWorker.pc = "loop" /\ async.queue = << >>
    /\ async.inFlight <=> midiWorker.pc \in OnItsWay
    /\ midiWorker.pc = "advance" =>
          async.queue # << >> /\ midiWorker.message = Head(async.queue)
    /\ midiWorker.pc = "sending" => midiWorker.message \in Messages
    /\ outbox.pc \in {"looking", "flushing"} => async.queue = << >>
    /\ outbox.pc = "flushing" => ~async.inFlight

\* What was sent: by the device or in the list, in the thread's hand, queued, and
\* with the lane.
Flying == IF midiWorker.pc = "sending" THEN <<midiWorker.message>> ELSE << >>
Unsent == IF outbox.pc = "wake" THEN Tail(outbox.messages) ELSE outbox.messages
Sent == ((sink \o Flying) \o async.queue) \o Unsent

\* It is what the plugin played, in order, and leaves on the voices that sound.
StreamRight ==
    ~midiPast.lost =>
        /\ Right(Sent, notes.active)
        /\ ~midiPast.rewound /\ ~async.device => UpTo(Sent, notes.frame)

MidiInv == MidiTypes /\ LaneRight /\ ThreadRight /\ StreamRight /\ NotesEnd
-----------------------------------------------------------------------------
(* What an event adds to the messages.                                     *)

LEMMA SentIsASeq ==
    ASSUME MidiTypes, LaneRight, ThreadRight
    PROVE  /\ Flying \in Seq(Messages) /\ Unsent \in Seq(Messages)
           /\ sink \o Flying \in Seq(Messages) /\ (sink \o Flying) \o async.queue \in Seq(Messages)
           /\ Sent \in Seq(Messages)
<1>1. sink \in Seq(Messages) /\ async.queue \in Seq(Messages) /\ outbox.messages \in Seq(Messages)
  BY DEF MidiTypes
<1>2. Flying \in Seq(Messages)
  <2>1. CASE midiWorker.pc = "sending"
    <3>1. midiWorker.message \in Messages
      BY <2>1 DEF ThreadRight
    <3>2. <<midiWorker.message>> \in Seq(Messages)
      BY <3>1
    <3>3. QED
      BY <2>1, <3>2 DEF Flying
  <2>2. CASE midiWorker.pc # "sending"
    BY <2>2, EmptySeq DEF Flying
  <2>3. QED
    BY <2>1, <2>2
<1>3. Unsent \in Seq(Messages)
  <2>1. CASE outbox.pc = "wake"
    <3>1. outbox.messages # << >>
      BY <2>1 DEF LaneRight
    <3>2. QED
      BY <1>1, <2>1, <3>1, HeadTailProperties DEF Unsent
  <2>2. CASE outbox.pc # "wake"
    BY <1>1, <2>2 DEF Unsent
  <2>3. QED
    BY <2>1, <2>2
<1>4. sink \o Flying \in Seq(Messages)
  BY <1>1, <1>2, Joined
<1>5. (sink \o Flying) \o async.queue \in Seq(Messages)
  BY <1>1, <1>4, Joined
<1>6. Sent \in Seq(Messages)
  BY <1>3, <1>5, Joined DEF Sent
<1>7. QED
  BY <1>2, <1>3, <1>4, <1>5, <1>6

\* Messages at one frame that fit after what was sent, whatever it was, and leave these
\* voices on.
Tells(t, active, at) ==
    /\ t \in Seq(Messages) /\ \A i \in 1 .. Len(t) : t[i].frame = at
    /\ active \in [MidiVoices -> BOOLEAN]
    /\ \A s \in Seq(Messages) : Right(s, notes.active) => Right(s \o t, active)

LEMMA NothingTold ==
    ASSUME MidiTypes, NEW at PROVE Tells(<< >>, notes.active, at)
<1>1. << >> \in Seq(Messages) /\ Len(<< >>) = 0
  BY EmptySeq
<1>2. \A s \in Seq(Messages) : s \o << >> = s
  BY ConcatEmptySeq
<1>3. notes.active \in [MidiVoices -> BOOLEAN]
  BY DEF MidiTypes
<1>4. \A i \in 1 .. Len(<< >>) : << >>[i].frame = at
  BY <1>1
<1>5. \A s \in Seq(Messages) : Right(s, notes.active) => Right(s \o << >>, notes.active)
  BY <1>2
<1>6. QED
  BY <1>1, <1>3, <1>4, <1>5 DEF Tells

LEMMA OneMoreTold ==
    ASSUME NEW t, NEW active, NEW at, Tells(t, active, at), NEW m \in Messages, m.frame = at,
           m.kind = "on" => ~active[m.voice], m.kind = "off" => active[m.voice]
    PROVE  Tells(t \o <<m>>, Heard(active, m), at)
<1>1. t \in Seq(Messages) /\ active \in [MidiVoices -> BOOLEAN] /\ Len(t) \in Nat
  BY LenProperties DEF Tells
<1>2. <<m>> \in Seq(Messages) /\ Len(<<m>>) = 1 /\ <<m>>[1] = m
  OBVIOUS
<1>3. /\ t \o <<m>> \in Seq(Messages) /\ Len(t \o <<m>>) = Len(t) + 1
      /\ \A i \in 1 .. Len(t) + 1 :
           (t \o <<m>>)[i] = IF i <= Len(t) THEN t[i] ELSE <<m>>[i - Len(t)]
  BY <1>1, <1>2, Joined
<1>4. ASSUME NEW i \in 1 .. Len(t) + 1 PROVE (t \o <<m>>)[i].frame = at
  <2>1. CASE i <= Len(t)
    <3>1. i \in 1 .. Len(t)
      BY <1>1, <2>1
    <3>2. (t \o <<m>>)[i] = t[i]
      BY <1>3, <2>1
    <3>3. QED
      BY <3>1, <3>2 DEF Tells
  <2>2. CASE ~(i <= Len(t))
    <3>1. i - Len(t) = 1
      BY <1>1, <2>2
    <3>2. (t \o <<m>>)[i] = m
      BY <1>2, <1>3, <2>2, <3>1
    <3>3. QED
      BY <3>2
  <2>3. QED
    BY <2>1, <2>2
<1>5. Heard(active, m) \in [MidiVoices -> BOOLEAN]
  <2>1. (m.kind = "on") \in BOOLEAN
    OBVIOUS
  <2>2. QED
    BY <1>1, <2>1, Zenon DEF Heard
<1>6. ASSUME NEW s \in Seq(Messages), Right(s, notes.active)
      PROVE  Right(s \o (t \o <<m>>), Heard(active, m))
  <2>1. Right(s \o t, active) /\ s \o t \in Seq(Messages)
    BY <1>1, <1>6, Joined DEF Tells
  <2>2. Right((s \o t) \o <<m>>, Heard(active, m))
    BY <1>1, <2>1, OneMore
  <2>3. (s \o t) \o <<m>> = s \o (t \o <<m>>)
    BY <1>1, <1>2, ConcatAssociative
  <2>4. QED
    BY <2>2, <2>3
<1>7. QED
  BY <1>3, <1>4, <1>5, <1>6 DEF Tells

\* The message of a voice.
LEMMA MessageFits ==
    ASSUME NEW kind \in {"on", "off", "control"}, NEW v \in MidiVoices, NEW at \in Nat
    PROVE  /\ Message(kind, v, at) \in Messages
           /\ Message(kind, v, at).kind = kind /\ Message(kind, v, at).voice = v
           /\ Message(kind, v, at).frame = at
BY DEF Message, Messages

\* noteOff leaves the voice off, and says nothing to one that is.
LEMMA NoteOffTells ==
    ASSUME MidiTypes, NEW v \in MidiVoices, NEW at \in Nat
    PROVE  Tells(NoteOff(v, at), [notes.active EXCEPT ![v] = FALSE], at)
<1> DEFINE m == Message("off", v, at)
<1>1. notes.active \in [MidiVoices -> BOOLEAN]
  BY DEF MidiTypes
<1>2. Tells(<< >>, notes.active, at)
  BY NothingTold
<1>3. m \in Messages /\ m.kind = "off" /\ m.voice = v /\ m.frame = at
  BY MessageFits
<1> HIDE DEF m
<1>4. CASE notes.active[v]
  <2>1. Tells(<< >> \o <<m>>, Heard(notes.active, m), at)
    BY <1>2, <1>3, <1>4, OneMoreTold
  <2>2. <<m>> \in Seq(Messages)
    BY <1>3
  <2>3. << >> \o <<m>> = <<m>>
    BY <2>2, ConcatEmptySeq
  <2>4. Heard(notes.active, m) = [notes.active EXCEPT ![v] = FALSE]
    BY <1>3 DEF Heard
  <2>5. NoteOff(v, at) = <<m>>
    BY <1>4 DEF NoteOff, m
  <2>6. QED
    BY <2>1, <2>3, <2>4, <2>5
<1>5. CASE ~notes.active[v]
  <2>1. [notes.active EXCEPT ![v] = FALSE] = notes.active
    BY <1>1, <1>5
  <2>2. NoteOff(v, at) = << >>
    BY <1>5 DEF NoteOff
  <2>3. QED
    BY <1>2, <2>1, <2>2
<1>6. QED
  BY <1>4, <1>5

\* A pair is one message after another.
LEMMA TwoMessages ==
    ASSUME NEW c \in Messages, NEW d \in Messages
    PROVE  <<c>> \o <<d>> = <<c, d>>
<1>1. /\ <<c>> \in Seq(Messages) /\ <<d>> \in Seq(Messages)
      /\ Len(<<c>>) = 1 /\ Len(<<d>>) = 1 /\ <<c>>[1] = c /\ <<d>>[1] = d
  OBVIOUS
<1>2. <<c, d>> \in Seq(Messages) /\ Len(<<c, d>>) = 2 /\ <<c, d>>[1] = c /\ <<c, d>>[2] = d
  OBVIOUS
<1>3. /\ <<c>> \o <<d>> \in Seq(Messages) /\ Len(<<c>> \o <<d>>) = 2
      /\ \A i \in 1 .. 2 : (<<c>> \o <<d>>)[i] = IF i <= 1 THEN <<c>>[i] ELSE <<d>>[i - 1]
  BY <1>1, Joined
<1>4. (<<c>> \o <<d>>)[1] = c /\ (<<c>> \o <<d>>)[2] = d
  BY <1>1, <1>3
<1>5. \A i \in 1 .. Len(<<c>> \o <<d>>) : (<<c>> \o <<d>>)[i] = <<c, d>>[i]
  BY <1>2, <1>3, <1>4
<1>6. QED
  BY <1>2, <1>3, <1>5, SeqEqual

\* noteOn ends the voice's note before it starts the next.
LEMMA NoteOnTells ==
    ASSUME MidiTypes, NEW v \in MidiVoices, NEW at \in Nat
    PROVE  Tells(NoteOn(v, at), [notes.active EXCEPT ![v] = TRUE], at)
<1> DEFINE off == NoteOff(v, at)
           silent == [notes.active EXCEPT ![v] = FALSE]
           c == Message("control", v, at)
           d == Message("on", v, at)
<1>1. notes.active \in [MidiVoices -> BOOLEAN]
  BY DEF MidiTypes
<1>2. Tells(off, silent, at)
  BY NoteOffTells
<1>3. c \in Messages /\ c.kind = "control" /\ c.frame = at
  BY MessageFits
<1>4. d \in Messages /\ d.kind = "on" /\ d.voice = v /\ d.frame = at
  BY MessageFits
<1>5. silent \in [MidiVoices -> BOOLEAN] /\ ~silent[v]
  BY <1>1
<1>6. [silent EXCEPT ![v] = TRUE] = [notes.active EXCEPT ![v] = TRUE]
  BY <1>1
<1>7. NoteOn(v, at) = off \o <<c, d>>
  BY DEF NoteOn
<1> HIDE DEF off, silent, c, d
<1>8. Tells(off \o <<c>>, silent, at)
  <2>1. Heard(silent, c) = silent
    BY <1>3 DEF Heard
  <2>2. Tells(off \o <<c>>, Heard(silent, c), at)
    BY <1>2, <1>3, OneMoreTold
  <2>3. QED
    BY <2>1, <2>2
<1>9. Tells((off \o <<c>>) \o <<d>>, [silent EXCEPT ![v] = TRUE], at)
  <2>1. Heard(silent, d) = [silent EXCEPT ![v] = TRUE]
    BY <1>4 DEF Heard
  <2>2. Tells((off \o <<c>>) \o <<d>>, Heard(silent, d), at)
    BY <1>4, <1>5, <1>8, OneMoreTold
  <2>3. QED
    BY <2>1, <2>2
<1>10. (off \o <<c>>) \o <<d>> = off \o <<c, d>>
  <2>1. off \in Seq(Messages)
    BY <1>2 DEF Tells
  <2>2. <<c>> \in Seq(Messages) /\ <<d>> \in Seq(Messages)
    BY <1>3, <1>4
  <2>3. (off \o <<c>>) \o <<d>> = off \o (<<c>> \o <<d>>)
    BY <2>1, <2>2, ConcatAssociative
  <2>4. QED
    BY <1>3, <1>4, <2>3, TwoMessages
<1>11. QED
  BY <1>6, <1>7, <1>9, <1>10

LEMMA ControlTells ==
    ASSUME MidiTypes, NEW v \in MidiVoices, NEW at \in Nat
    PROVE  Tells(<<Message("control", v, at)>>, notes.active, at)
<1> DEFINE m == Message("control", v, at)
<1>1. Tells(<< >>, notes.active, at)
  BY NothingTold
<1>2. m \in Messages /\ m.kind = "control" /\ m.frame = at
  BY MessageFits
<1> HIDE DEF m
<1>3. Tells(<< >> \o <<m>>, Heard(notes.active, m), at)
  BY <1>1, <1>2, OneMoreTold
<1>4. Heard(notes.active, m) = notes.active
  BY <1>2 DEF Heard
<1>5. <<m>> \in Seq(Messages)
  BY <1>2
<1>6. << >> \o <<m>> = <<m>>
  BY <1>5, ConcatEmptySeq
<1>7. QED
  BY <1>3, <1>4, <1>6 DEF m

\* A change of level is a control for a voice that sounds, and ends it at none.
LEMMA LevelTells ==
    ASSUME MidiTypes, NEW v \in MidiVoices, NEW at \in Nat, NEW gate \in BOOLEAN
    PROVE  Tells((IF notes.active[v] THEN <<Message("control", v, at)>> ELSE << >>)
                   \o (IF gate THEN << >> ELSE NoteOff(v, at)),
                 [notes.active EXCEPT ![v] = @ /\ gate], at)
<1> DEFINE level == IF notes.active[v] THEN <<Message("control", v, at)>> ELSE << >>
           rest == IF gate THEN << >> ELSE NoteOff(v, at)
           after == [notes.active EXCEPT ![v] = @ /\ gate]
<1>1. notes.active \in [MidiVoices -> BOOLEAN]
  BY DEF MidiTypes
<1>2. Tells(level, notes.active, at)
  BY ControlTells, NothingTold
<1>3. Tells(rest, after, at)
  <2>1. CASE gate
    <3>1. after = notes.active
      BY <1>1, <2>1
    <3>2. rest = << >>
      BY <2>1
    <3>3. QED
      BY <3>1, <3>2, NothingTold
  <2>2. CASE ~gate
    <3>1. after = [notes.active EXCEPT ![v] = FALSE]
      BY <1>1, <2>2
    <3>2. rest = NoteOff(v, at)
      BY <2>2
    <3>3. QED
      BY <3>1, <3>2, NoteOffTells
  <2>3. QED
    BY <2>1, <2>2
<1> HIDE DEF level, rest, after
<1>4. level \in Seq(Messages) /\ rest \in Seq(Messages) /\ Len(level) \in Nat /\ Len(rest) \in Nat
  BY <1>2, <1>3, LenProperties DEF Tells
<1>5. /\ level \o rest \in Seq(Messages) /\ Len(level \o rest) = Len(level) + Len(rest)
      /\ \A i \in 1 .. Len(level) + Len(rest) :
           (level \o rest)[i] = IF i <= Len(level) THEN level[i] ELSE rest[i - Len(level)]
  BY <1>4, Joined
<1>6. \A i \in 1 .. Len(level \o rest) : (level \o rest)[i].frame = at
  BY <1>2, <1>3, <1>4, <1>5 DEF Tells
<1>7. ASSUME NEW s \in Seq(Messages), Right(s, notes.active)
      PROVE  Right(s \o (level \o rest), after)
  <2>1. Right(s \o level, notes.active) /\ s \o level \in Seq(Messages)
    BY <1>2, <1>4, <1>7, Joined DEF Tells
  <2>2. Right((s \o level) \o rest, after)
    BY <1>3, <2>1 DEF Tells
  <2>3. (s \o level) \o rest = s \o (level \o rest)
    BY <1>4, ConcatAssociative
  <2>4. QED
    BY <2>2, <2>3
<1>8. Tells(level \o rest, after, at)
  BY <1>3, <1>5, <1>6, <1>7 DEF Tells
<1>9. QED
  BY <1>8 DEF level, rest, after
-----------------------------------------------------------------------------
(* The lane plays.                                                         *)

\* What is written stays right while it stays.
LEMMA WrittenStays ==
    ASSUME NotesEnd, written' = written, midiPast.lost => midiPast'.lost,
           midiPast.rewound => midiPast'.rewound, async'.device = async.device
    PROVE  NotesEnd'
BY DEF NotesEnd, NotesAlternate, NoteSounds, NotWritten, Message

\* The lane, with nothing left to send, sends what tells of these voices.
LEMMA PlayKeeps ==
    ASSUME MidiInv, outbox.pc = "idle", NEW t, NEW active, NEW at \in Nat, Tells(t, active, at),
           NEW then \in {"idle", "flush"}, Sends(t, then, FALSE),
           notes' \in [active : [MidiVoices -> BOOLEAN], frame : Nat, attached : BOOLEAN,
                       attaches : Nat],
           notes'.active = active, notes'.frame = at,
           notes.frame <= at \/ async.device \/ midiPast'.rewound,
           then = "flush" => ~notes'.attached,
           ~notes'.attached => \A v \in MidiVoices : ~active[v],
           midiPast' \in [events : Nat, lost : BOOLEAN, rewound : BOOLEAN],
           midiPast'.lost = midiPast.lost, midiPast.rewound => midiPast'.rewound,
           UNCHANGED <<async, midiWorker, sink, written>>
    PROVE  MidiInv'
<1>1. MidiTypes /\ LaneRight /\ ThreadRight /\ StreamRight /\ NotesEnd
  BY DEF MidiInv
<1>2. t \in Seq(Messages) /\ \A i \in 1 .. Len(t) : t[i].frame = at
  BY DEF Tells
<1>3. /\ outbox'.pc = IF t = << >> THEN then ELSE "send"
      /\ outbox'.messages = t /\ outbox'.then = then /\ outbox'.ends = FALSE
      /\ outbox' = [pc |-> IF t = << >> THEN then ELSE "send", messages |-> t, then |-> then,
                    ends |-> FALSE]
  BY DEF Sends
<1>4. MidiTypes'
  <2>1. outbox' \in [pc : LanePlaces, messages : Seq(Messages), then : {"idle", "flush"},
                     ends : BOOLEAN]
    BY <1>2, <1>3 DEF LanePlaces
  <2>2. QED
    BY <1>1, <2>1 DEF MidiTypes, NotWritten, Message
<1>5. LaneRight'
  BY <1>1, <1>3 DEF LaneRight
<1>6. ThreadRight'
  BY <1>1, <1>3 DEF ThreadRight
<1>7. StreamRight'
  <2> SUFFICES ASSUME ~midiPast.lost
               PROVE  /\ Right(Sent', active)
                      /\ ~midiPast'.rewound /\ ~async.device => UpTo(Sent', at)
    BY DEF StreamRight, Right, UpTo, NotesAlternate, NoteSounds
  <2>1. outbox.messages = << >> /\ Unsent = << >>
    BY <1>1 DEF LaneRight, Unsent
  <2>2. (sink \o Flying) \o async.queue \in Seq(Messages) /\ Sent \in Seq(Messages)
    BY <1>1, SentIsASeq
  <2>3. Sent = (sink \o Flying) \o async.queue
    BY <2>1, <2>2, ConcatEmptySeq DEF Sent
  <2>4. Unsent' = t /\ Flying' = Flying
    BY <1>3 DEF Unsent, Flying
  <2>5. Sent' = Sent \o t
    BY <2>3, <2>4 DEF Sent
  <2>6. Right(Sent \o t, active)
    BY <1>1, <2>2 DEF Tells, StreamRight
  <2>7. ASSUME ~midiPast'.rewound, ~async.device PROVE UpTo(Sent \o t, at)
    <3>1. UpTo(Sent, notes.frame) /\ notes.frame <= at /\ notes.frame \in Nat
      BY <1>1, <2>7 DEF StreamRight, MidiTypes
    <3>2. QED
      BY <1>2, <2>2, <3>1, StillUpTo
  <2>8. QED
    BY <2>5, <2>6, <2>7
<1>8. NotesEnd'
  BY <1>1, WrittenStays
<1>9. QED
  BY <1>4, <1>5, <1>6, <1>7, <1>8 DEF MidiInv

LEMMA PlayEventKeeps == ASSUME MidiInv, PlayEvent PROVE MidiInv'
<1>1. MidiTypes /\ LaneRight /\ ThreadRight /\ StreamRight /\ NotesEnd
  BY DEF MidiInv
<1>2. /\ outbox.pc = "idle" /\ notes.attached
      /\ UNCHANGED <<async, midiWorker, sink, written>>
  BY DEF PlayEvent
<1>3. PICK v \in MidiVoices, at \in IF async.device THEN {0} ELSE notes.frame .. MaxFrame :
         \/ \E gate \in BOOLEAN :
              /\ Sends(IF gate THEN NoteOn(v, at) ELSE NoteOff(v, at), "idle", FALSE)
              /\ notes' = [notes EXCEPT !.frame = at, !.active[v] = gate]
         \/ \E gate \in BOOLEAN :
              /\ Sends((IF notes.active[v] THEN <<Message("control", v, at)>> ELSE << >>)
                         \o (IF gate THEN << >> ELSE NoteOff(v, at)), "idle", FALSE)
              /\ notes' = [notes EXCEPT !.frame = at, !.active[v] = @ /\ gate]
         \/ /\ Sends(<<Message("control", v, at)>>, "idle", FALSE)
            /\ notes' = [notes EXCEPT !.frame = at]
  BY DEF PlayEvent
<1>4. at \in Nat /\ (notes.frame <= at \/ async.device)
  <2>1. notes.frame \in Nat /\ MaxFrame \in Nat
    BY <1>1, MidiAssumption DEF MidiTypes
  <2>2. at \in IF async.device THEN {0} ELSE notes.frame .. MaxFrame
    OBVIOUS
  <2>3. CASE async.device
    BY <2>2, <2>3
  <2>4. CASE ~async.device
    BY <2>1, <2>2, <2>4
  <2>5. QED
    BY <2>3, <2>4
<1>5. notes \in [active : [MidiVoices -> BOOLEAN], frame : Nat, attached : BOOLEAN, attaches : Nat]
  BY <1>1 DEF MidiTypes
<1> DEFINE Told ==
      \E t, active :
        /\ Tells(t, active, at) /\ Sends(t, "idle", FALSE)
        /\ notes' = [notes EXCEPT !.frame = at, !.active = active]
<1>6. ASSUME NEW gate \in BOOLEAN,
             Sends(IF gate THEN NoteOn(v, at) ELSE NoteOff(v, at), "idle", FALSE),
             notes' = [notes EXCEPT !.frame = at, !.active[v] = gate]
      PROVE  Told
  <2> DEFINE t == IF gate THEN NoteOn(v, at) ELSE NoteOff(v, at)
             active == [notes.active EXCEPT ![v] = gate]
  <2>1. Tells(t, active, at)
    <3>1. CASE gate
      <4>1. active = [notes.active EXCEPT ![v] = TRUE] /\ t = NoteOn(v, at)
        BY <3>1
      <4>2. QED
        BY <1>1, <1>4, <4>1, NoteOnTells
    <3>2. CASE ~gate
      <4>1. active = [notes.active EXCEPT ![v] = FALSE] /\ t = NoteOff(v, at)
        BY <3>2
      <4>2. QED
        BY <1>1, <1>4, <4>1, NoteOffTells
    <3>3. QED
      BY <3>1, <3>2
  <2>2. notes' = [notes EXCEPT !.frame = at, !.active = active]
    BY <1>5, <1>6
  <2>3. Sends(t, "idle", FALSE)
    BY <1>6
  <2> HIDE DEF t, active
  <2>4. QED
    BY <2>1, <2>2, <2>3
<1>7. ASSUME NEW gate \in BOOLEAN,
             Sends((IF notes.active[v] THEN <<Message("control", v, at)>> ELSE << >>)
                     \o (IF gate THEN << >> ELSE NoteOff(v, at)), "idle", FALSE),
             notes' = [notes EXCEPT !.frame = at, !.active[v] = @ /\ gate]
      PROVE  Told
  <2> DEFINE t == (IF notes.active[v] THEN <<Message("control", v, at)>> ELSE << >>)
                    \o (IF gate THEN << >> ELSE NoteOff(v, at))
             active == [notes.active EXCEPT ![v] = @ /\ gate]
  <2>1. Tells(t, active, at)
    BY <1>1, <1>4, LevelTells
  <2>2. notes' = [notes EXCEPT !.frame = at, !.active = active]
    BY <1>5, <1>7
  <2>3. Sends(t, "idle", FALSE)
    BY <1>7
  <2> HIDE DEF t, active
  <2>4. QED
    BY <2>1, <2>2, <2>3
<1>8. ASSUME Sends(<<Message("control", v, at)>>, "idle", FALSE),
             notes' = [notes EXCEPT !.frame = at]
      PROVE  Told
  <2>1. Tells(<<Message("control", v, at)>>, notes.active, at)
    BY <1>1, <1>4, ControlTells
  <2>2. notes' = [notes EXCEPT !.frame = at, !.active = notes.active]
    BY <1>5, <1>8
  <2>3. QED
    BY <1>8, <2>1, <2>2
<1>9. Told
  BY <1>3, <1>6, <1>7, <1>8
<1>10. PICK t, active : /\ Tells(t, active, at) /\ Sends(t, "idle", FALSE)
                        /\ notes' = [notes EXCEPT !.frame = at, !.active = active]
  BY <1>9
<1>11. /\ notes' \in [active : [MidiVoices -> BOOLEAN], frame : Nat, attached : BOOLEAN,
                      attaches : Nat]
       /\ notes'.active = active /\ notes'.frame = at /\ notes'.attached
  <2>1. active \in [MidiVoices -> BOOLEAN]
    BY <1>10 DEF Tells
  <2>2. QED
    BY <1>2, <1>4, <1>5, <1>10, <2>1
<1>12. /\ midiPast' \in [events : Nat, lost : BOOLEAN, rewound : BOOLEAN]
       /\ midiPast'.lost = midiPast.lost /\ midiPast'.rewound = midiPast.rewound
  <2>1. midiPast \in [events : Nat, lost : BOOLEAN, rewound : BOOLEAN]
    BY <1>1 DEF MidiTypes
  <2>2. PICK n \in Nat : n = midiPast.events + 1
    BY <2>1
  <2>3. midiPast' = [midiPast EXCEPT !.events = n]
    BY <2>2 DEF PlayEvent
  <2>4. QED
    BY <2>1, <2>3
<1>13. "idle" \in {"idle", "flush"} /\ "idle" # "flush"
  OBVIOUS
<1> HIDE DEF Told
<1>14. QED
  BY <1>2, <1>4, <1>10, <1>11, <1>12, <1>13, PlayKeeps

\* Time that goes back is remembered.
LEMMA RewindKeeps == ASSUME MidiInv, Rewind PROVE MidiInv'
<1>1. MidiTypes /\ LaneRight /\ ThreadRight /\ StreamRight /\ NotesEnd
  BY DEF MidiInv
<1>2. /\ notes \in [active : [MidiVoices -> BOOLEAN], frame : Nat, attached : BOOLEAN,
                    attaches : Nat]
      /\ midiPast \in [events : Nat, lost : BOOLEAN, rewound : BOOLEAN]
  BY <1>1 DEF MidiTypes
<1>3. /\ notes' = [notes EXCEPT !.frame = 0] /\ midiPast' = [midiPast EXCEPT !.rewound = TRUE]
      /\ UNCHANGED <<outbox, async, midiWorker, sink, written>>
  BY DEF Rewind
<1>4. /\ notes' \in [active : [MidiVoices -> BOOLEAN], frame : Nat, attached : BOOLEAN,
                     attaches : Nat]
      /\ notes'.active = notes.active /\ notes'.attached = notes.attached
      /\ midiPast' \in [events : Nat, lost : BOOLEAN, rewound : BOOLEAN]
      /\ midiPast'.lost = midiPast.lost /\ midiPast'.rewound = TRUE
  BY <1>2, <1>3
<1>5. MidiTypes' /\ LaneRight' /\ ThreadRight'
  <2>1. MidiTypes'
    BY <1>1, <1>3, <1>4 DEF MidiTypes, NotWritten, Message
  <2>2. LaneRight'
    BY <1>1, <1>3, <1>4 DEF LaneRight
  <2>3. ThreadRight'
    BY <1>1, <1>3 DEF ThreadRight
  <2>4. QED
    BY <2>1, <2>2, <2>3
<1>6. StreamRight'
  <2>1. Sent' = Sent
    BY <1>3 DEF Sent, Flying, Unsent
  <2>2. QED
    BY <1>1, <1>4, <2>1 DEF StreamRight, Right, NotesAlternate, NoteSounds
<1>7. NotesEnd'
  BY <1>1, <1>3, <1>4, WrittenStays
<1>8. QED
  BY <1>5, <1>6, <1>7 DEF MidiInv

\* A plugin that is attached starts with no voice on, as the one before it ended.
LEMMA AttachKeeps == ASSUME MidiInv, AttachMidi PROVE MidiInv'
<1>1. MidiTypes /\ LaneRight /\ ThreadRight /\ StreamRight /\ NotesEnd
  BY DEF MidiInv
<1>2. /\ notes \in [active : [MidiVoices -> BOOLEAN], frame : Nat, attached : BOOLEAN,
                    attaches : Nat]
      /\ midiPast \in [events : Nat, lost : BOOLEAN, rewound : BOOLEAN]
  BY <1>1 DEF MidiTypes
<1>3. /\ outbox.pc = "idle" /\ ~notes.attached
      /\ notes' = [active |-> [v \in MidiVoices |-> FALSE], frame |-> 0, attached |-> TRUE,
                   attaches |-> notes.attaches + 1]
      /\ UNCHANGED <<outbox, async, midiWorker, sink, written>>
  BY DEF AttachMidi
<1>4. notes.active = [v \in MidiVoices |-> FALSE]
  BY <1>1, <1>2, <1>3 DEF LaneRight
<1>5. /\ notes' \in [active : [MidiVoices -> BOOLEAN], frame : Nat, attached : BOOLEAN,
                     attaches : Nat]
      /\ notes'.active = notes.active /\ notes'.frame = 0 /\ notes'.attached
  BY <1>2, <1>3, <1>4
<1>6. /\ midiPast' \in [events : Nat, lost : BOOLEAN, rewound : BOOLEAN]
      /\ midiPast'.lost = midiPast.lost /\ midiPast'.rewound = (midiPast.rewound \/ notes.frame > 0)
  <2>1. PICK went \in BOOLEAN : went = (midiPast.rewound \/ notes.frame > 0)
    OBVIOUS
  <2>2. midiPast' = [midiPast EXCEPT !.rewound = went]
    BY <2>1 DEF AttachMidi
  <2>3. QED
    BY <1>2, <2>1, <2>2
<1>7. MidiTypes' /\ LaneRight' /\ ThreadRight'
  BY <1>1, <1>3, <1>5, <1>6 DEF MidiTypes, LaneRight, ThreadRight, NotWritten, Message
<1>8. StreamRight'
  <2>1. Sent' = Sent
    BY <1>3 DEF Sent, Flying, Unsent
  <2>2. ASSUME ~midiPast'.lost PROVE Right(Sent', notes'.active)
    BY <1>1, <1>5, <1>6, <2>1, <2>2 DEF StreamRight
  <2>3. ASSUME ~midiPast'.lost, ~midiPast'.rewound, ~async'.device PROVE UpTo(Sent', notes'.frame)
    <3>1. ~midiPast.rewound /\ notes.frame = 0 /\ async' = async
      BY <1>2, <1>3, <1>6, <2>3
    <3>2. UpTo(Sent, notes.frame)
      BY <1>1, <1>6, <2>3, <3>1 DEF StreamRight
    <3>3. QED
      BY <1>5, <2>1, <3>1, <3>2
  <2>4. QED
    BY <2>2, <2>3 DEF StreamRight, Right, UpTo, NotesAlternate, NoteSounds
<1>9. NotesEnd'
  BY <1>1, <1>3, <1>6, WrittenStays
<1>10. QED
  BY <1>7, <1>8, <1>9 DEF MidiInv

\* Detaching ends every voice that sounds, once.
LEMMA DetachKeeps == ASSUME MidiInv, DetachMidi PROVE MidiInv'
<1>1. MidiTypes /\ LaneRight /\ ThreadRight /\ StreamRight /\ NotesEnd
  BY DEF MidiInv
<1>2. /\ notes \in [active : [MidiVoices -> BOOLEAN], frame : Nat, attached : BOOLEAN,
                    attaches : Nat]
      /\ midiPast \in [events : Nat, lost : BOOLEAN, rewound : BOOLEAN]
  BY <1>1 DEF MidiTypes
<1> DEFINE on == {v \in MidiVoices : notes.active[v]}
           voices == SetToSeq(on)
           t == [i \in 1 .. Len(voices) |-> Message("off", voices[i], notes.frame)]
           silent == [v \in MidiVoices |-> FALSE]
<1>3. /\ outbox.pc = "idle" /\ Sends(t, "flush", FALSE)
      /\ notes' = [notes EXCEPT !.active = silent, !.attached = FALSE]
      /\ UNCHANGED <<async, midiWorker, sink, written, midiPast>>
  BY DEF DetachMidi
<1>4. IsFiniteSet(on)
  BY MidiAssumption, FS_Subset
<1>5. /\ voices \in Seq(on)
      /\ \A i, j \in 1 .. Len(voices) : voices[i] = voices[j] => i = j
      /\ \A x \in on : \E i \in 1 .. Len(voices) : voices[i] = x
  <2> HIDE DEF on
  <2>1. QED
    BY <1>4, SetListed
<1> HIDE DEF voices
<1>6. /\ voices \in Seq(MidiVoices) /\ Len(voices) \in Nat
      /\ \A i \in 1 .. Len(voices) : voices[i] \in on
  <2>1. on \subseteq MidiVoices
    OBVIOUS
  <2> HIDE DEF on
  <2>2. QED
    BY <1>5, <2>1, SeqMonotonic, ElementOfSeq, LenProperties
<1>7. \A v \in MidiVoices : notes.active[v] <=> \E i \in 1 .. Len(voices) : voices[i] = v
  BY <1>5, <1>6
<1> HIDE DEF on
<1>8. \A i \in 1 .. Len(voices) : voices[i] \in MidiVoices
  BY <1>6, ElementOfSeq
<1>9. notes.frame \in Nat
  BY <1>2
<1>10. \A i \in 1 .. Len(voices) : Message("off", voices[i], notes.frame) \in Messages
  BY <1>8, <1>9, MessageFits
<1>11. /\ t \in Seq(Messages) /\ Len(t) = Len(voices)
       /\ \A i \in 1 .. Len(voices) : t[i] = Message("off", voices[i], notes.frame)
  <2>1. t \in [1 .. Len(voices) -> Messages]
    BY <1>10
  <2>2. QED
    BY <1>6, <2>1
<1>12. \A i \in 1 .. Len(t) : t[i].frame = notes.frame
  BY <1>11 DEF Message
<1> HIDE DEF t
<1>13. silent \in [MidiVoices -> BOOLEAN] /\ \A v \in MidiVoices : ~silent[v]
  OBVIOUS
<1>14. ASSUME NEW s \in Seq(Messages), Right(s, notes.active) PROVE Right(s \o t, silent)
  <2>1. notes.active \in [MidiVoices -> BOOLEAN]
    BY <1>2
  <2>2. \A i \in 1 .. Len(t) : t[i].kind = "off" /\ t[i].voice = voices[i]
    <3> SUFFICES ASSUME NEW i \in 1 .. Len(t) PROVE t[i].kind = "off" /\ t[i].voice = voices[i]
      OBVIOUS
    <3>1. t[i] = Message("off", voices[i], notes.frame) /\ i \in 1 .. Len(voices)
      BY <1>11
    <3>2. voices[i] \in MidiVoices
      BY <1>8, <3>1
    <3>3. QED
      BY <1>9, <3>1, <3>2, MessageFits
  <2>3. \A i, j \in 1 .. Len(t) : t[i].voice = t[j].voice => i = j
    BY <1>5, <1>11, <2>2
  <2>4. \A v \in MidiVoices : notes.active[v] <=> \E i \in 1 .. Len(t) : t[i].voice = v
    BY <1>7, <1>11, <2>2
  <2>5. t \in Seq(Messages) /\ \A i \in 1 .. Len(t) : t[i].kind = "off"
    BY <1>11, <2>2
  <2>6. QED
    BY <1>14, <2>1, <2>3, <2>4, <2>5, AllEnded
<1>15. Tells(t, silent, notes.frame)
  BY <1>11, <1>12, <1>13, <1>14 DEF Tells
<1> HIDE DEF silent
<1>16. /\ notes' \in [active : [MidiVoices -> BOOLEAN], frame : Nat, attached : BOOLEAN,
                      attaches : Nat]
       /\ notes'.active = silent /\ notes'.frame = notes.frame /\ ~notes'.attached
  BY <1>2, <1>3, <1>13
<1>17. notes.frame <= notes.frame /\ midiPast' = midiPast
  BY <1>3, <1>9
<1>18. "flush" \in {"idle", "flush"}
  OBVIOUS
<1>19. QED
  BY <1>2, <1>3, <1>9, <1>13, <1>15, <1>16, <1>17, <1>18, PlayKeeps
-----------------------------------------------------------------------------
(* Messages move on to the sink.                                           *)

\* The head of a sequence joins what is before it.
LEMMA HeadMoves ==
    ASSUME NEW x \in Seq(Messages), NEW d \in Seq(Messages), d # << >>
    PROVE  /\ Head(d) \in Messages /\ Tail(d) \in Seq(Messages)
           /\ x \o <<Head(d)>> \in Seq(Messages) /\ Append(x, Head(d)) = x \o <<Head(d)>>
           /\ x \o d = (x \o <<Head(d)>>) \o Tail(d)
<1>1. Head(d) \in Messages /\ Tail(d) \in Seq(Messages)
  BY HeadTailProperties
<1>2. <<Head(d)>> \in Seq(Messages)
  BY <1>1
<1>3. <<Head(d)>> \o Tail(d) = d
  BY <1>1
<1>4. (x \o <<Head(d)>>) \o Tail(d) = x \o (<<Head(d)>> \o Tail(d))
  BY <1>1, <1>2, ConcatAssociative
<1>5. x \o <<Head(d)>> \in Seq(Messages)
  BY <1>2, Joined
<1>6. Append(x, Head(d)) = x \o <<Head(d)>>
  BY <1>1
<1>7. QED
  BY <1>1, <1>3, <1>4, <1>5, <1>6

\* A step that only moves messages on, or drops one.
LEMMA MovedKeeps ==
    ASSUME MidiInv, MidiTypes', LaneRight', ThreadRight', notes' = notes,
           async'.device = async.device, written' = written \/ NotesEnd',
           midiPast'.rewound = midiPast.rewound, midiPast.lost => midiPast'.lost,
           ~midiPast'.lost => Sent' = Sent
    PROVE  MidiInv'
<1>1. StreamRight /\ NotesEnd
  BY DEF MidiInv
<1>2. StreamRight'
  <2>1. ASSUME ~midiPast'.lost
        PROVE  /\ Right(Sent', notes'.active)
               /\ ~midiPast'.rewound /\ ~async'.device => UpTo(Sent', notes'.frame)
    BY <1>1, <2>1 DEF StreamRight
  <2>2. QED
    BY <2>1 DEF StreamRight, Right, UpTo, NotesAlternate, NoteSounds
<1>3. NotesEnd'
  BY <1>1, WrittenStays
<1>4. QED
  BY <1>2, <1>3 DEF MidiInv

\* The plugin goes, and the thread is stopped and joined.
LEMMA StopAndJoinKeep == ASSUME MidiInv, Destroy \/ StopMidi \/ JoinMidi PROVE MidiInv'
<1>1. MidiTypes /\ LaneRight /\ ThreadRight
  BY DEF MidiInv
<1>2. /\ outbox \in [pc : LanePlaces, messages : Seq(Messages), then : {"idle", "flush"},
                     ends : BOOLEAN]
      /\ async \in [device : BOOLEAN, queue : Seq(Messages), permits : Nat, running : BOOLEAN,
                    inFlight : BOOLEAN, waiting : BOOLEAN]
  BY <1>1 DEF MidiTypes
<1>3. UNCHANGED <<notes, midiWorker, sink, written, midiPast>>
  BY DEF Destroy, StopMidi, JoinMidi
<1>4. /\ outbox.messages = << >> /\ outbox'.messages = << >> /\ outbox.pc # "wake"
      /\ outbox'.pc \in {"flush", "join", "gone"} /\ ~notes.attached
      /\ outbox' \in [pc : LanePlaces, messages : Seq(Messages), then : {"idle", "flush"},
                      ends : BOOLEAN]
  <2>1. CASE Destroy
    BY <1>1, <2>1, EmptySeq DEF Destroy, Sends, LaneRight, LanePlaces
  <2>2. CASE StopMidi
    BY <1>1, <1>2, <2>2 DEF StopMidi, LaneRight, LanePlaces
  <2>3. CASE JoinMidi
    BY <1>1, <1>2, <2>3 DEF JoinMidi, LaneRight, LanePlaces
  <2>4. QED
    BY <2>1, <2>2, <2>3
<1>5. /\ async'.device = async.device /\ async'.queue = async.queue
      /\ async'.inFlight = async.inFlight
      /\ async' \in [device : BOOLEAN, queue : Seq(Messages), permits : Nat, running : BOOLEAN,
                     inFlight : BOOLEAN, waiting : BOOLEAN]
  <2>1. CASE UNCHANGED async
    BY <1>2, <2>1
  <2>2. CASE StopMidi
    <3>1. PICK n \in Nat : n = async.permits + 1
      BY <1>2
    <3>2. async' = [async EXCEPT !.running = FALSE, !.permits = n]
      BY <2>2, <3>1 DEF StopMidi
    <3>3. QED
      BY <1>2, <3>2
  <2>3. QED
    BY <2>1, <2>2 DEF Destroy, JoinMidi
<1>6. MidiTypes' /\ LaneRight' /\ ThreadRight'
  BY <1>1, <1>3, <1>4, <1>5 DEF MidiTypes, LaneRight, ThreadRight, NotWritten, Message
<1>7. Sent' = Sent
  BY <1>3, <1>4, <1>5 DEF Sent, Flying, Unsent
<1>8. QED
  BY <1>3, <1>5, <1>6, <1>7, MovedKeeps

\* The lane goes on to the next message, or to what it does then.
LEMMA NextIsRight ==
    ASSUME MidiTypes, LaneRight, outbox.pc \in {"send", "wake"}, outbox' = NextMessage(outbox),
           notes' = notes
    PROVE  /\ LaneRight' /\ Unsent' = Tail(outbox.messages)
           /\ outbox.messages \in Seq(Messages) /\ outbox.messages # << >>
           /\ outbox' \in [pc : LanePlaces, messages : Seq(Messages), then : {"idle", "flush"},
                           ends : BOOLEAN]
           /\ outbox'.pc \in {"send", "idle", "flush"}
<1> DEFINE messages == outbox.messages
<1>1. /\ outbox \in [pc : LanePlaces, messages : Seq(Messages), then : {"idle", "flush"},
                     ends : BOOLEAN]
      /\ messages # << >>
  BY DEF MidiTypes, LaneRight
<1>2. messages \in Seq(Messages) /\ outbox.then \in {"idle", "flush"}
  BY <1>1
<1>3. /\ Tail(messages) \in Seq(Messages) /\ Len(Tail(messages)) = Len(messages) - 1
      /\ Len(messages) \in Nat \ {0}
  BY <1>1, <1>2, HeadTailProperties, EmptySeq
<1>4. Len(messages) = 1 <=> Tail(messages) = << >>
  <2>1. CASE Tail(messages) = << >>
    <3>1. Len(<< >>) = 0
      BY EmptySeq
    <3>2. Len(Tail(messages)) = 0
      BY <2>1, <3>1
    <3>3. QED
      BY <1>3, <2>1, <3>2
  <2>2. CASE Tail(messages) # << >>
    <3>1. Len(Tail(messages)) \in Nat \ {0}
      BY <1>3, <2>2, EmptySeq
    <3>2. QED
      BY <1>3, <2>2, <3>1
  <2>3. QED
    BY <2>1, <2>2
<1>5. /\ outbox'.messages = Tail(messages) /\ outbox'.then = outbox.then
      /\ outbox'.pc = IF Len(messages) = 1 THEN outbox.then ELSE "send"
      /\ outbox' \in [pc : LanePlaces, messages : Seq(Messages), then : {"idle", "flush"},
                      ends : BOOLEAN]
  BY <1>1, <1>2, <1>3 DEF NextMessage, LanePlaces
<1> HIDE DEF messages
<1>6. LaneRight'
  BY <1>2, <1>4, <1>5 DEF LaneRight
<1>7. Unsent' = Tail(messages)
  BY <1>2, <1>5 DEF Unsent
<1>8. QED
  BY <1>1, <1>2, <1>5, <1>6, <1>7 DEF messages

\* A message for the file joins its list, or is dropped.
LEMMA SendToFileKeeps == ASSUME MidiInv, SendToFile PROVE MidiInv'
<1> DEFINE d == outbox.messages
<1>1. MidiTypes /\ LaneRight /\ ThreadRight
  BY DEF MidiInv
<1>2. /\ outbox.pc = "send" /\ ~async.device /\ outbox' = NextMessage(outbox)
      /\ UNCHANGED <<notes, async, midiWorker, written>>
  BY DEF SendToFile
<1>3. /\ LaneRight' /\ Unsent' = Tail(d) /\ d \in Seq(Messages) /\ d # << >>
      /\ outbox' \in [pc : LanePlaces, messages : Seq(Messages), then : {"idle", "flush"},
                      ends : BOOLEAN]
      /\ outbox'.pc \in {"send", "idle", "flush"}
  BY <1>1, <1>2, NextIsRight
<1>4. sink \in Seq(Messages) /\ midiPast \in [events : Nat, lost : BOOLEAN, rewound : BOOLEAN]
  BY <1>1 DEF MidiTypes
<1>5. midiWorker.pc = "loop" /\ async.queue = << >>
  BY <1>1, <1>2 DEF ThreadRight
<1>6. Unsent = d /\ Flying = << >> /\ Flying' = << >>
  BY <1>2, <1>5 DEF Unsent, Flying
<1> HIDE DEF d
<1>7. /\ Head(d) \in Messages /\ sink \o <<Head(d)>> \in Seq(Messages)
      /\ Append(sink, Head(d)) = sink \o <<Head(d)>>
      /\ sink \o d = (sink \o <<Head(d)>>) \o Tail(d)
  BY <1>3, <1>4, HeadMoves
<1>8. \/ sink' = sink /\ midiPast' = [midiPast EXCEPT !.lost = TRUE]
      \/ sink' = sink \o <<Head(d)>> /\ midiPast' = midiPast
  BY <1>7 DEF SendToFile, d
<1>9. /\ sink' \in Seq(Messages) /\ midiPast' \in [events : Nat, lost : BOOLEAN, rewound : BOOLEAN]
      /\ midiPast'.rewound = midiPast.rewound /\ (midiPast.lost => midiPast'.lost)
      /\ ~midiPast'.lost => sink' = sink \o <<Head(d)>>
  BY <1>4, <1>7, <1>8
<1>10. MidiTypes' /\ ThreadRight'
  BY <1>1, <1>2, <1>3, <1>9 DEF MidiTypes, ThreadRight, NotWritten, Message
<1>11. ASSUME ~midiPast'.lost PROVE Sent' = Sent
  <2>1. Sent = ((sink \o << >>) \o << >>) \o d
    BY <1>5, <1>6 DEF Sent
  <2>2. Sent = sink \o d
    BY <1>4, <2>1, ConcatEmptySeq
  <2>3. Sent' = ((sink' \o << >>) \o << >>) \o Tail(d)
    BY <1>2, <1>3, <1>5, <1>6 DEF Sent
  <2>4. Sent' = sink' \o Tail(d)
    BY <1>9, <2>3, ConcatEmptySeq
  <2>5. QED
    BY <1>7, <1>9, <1>11, <2>2, <2>4
<1>12. QED
  BY <1>2, <1>3, <1>9, <1>10, <1>11, MovedKeeps

\* The lane wakes the thread, which it has already given the message.
LEMMA WakeKeeps == ASSUME MidiInv, WakeWorker PROVE MidiInv'
<1>1. MidiTypes /\ LaneRight /\ ThreadRight
  BY DEF MidiInv
<1>2. /\ outbox.pc = "wake" /\ outbox' = NextMessage(outbox)
      /\ UNCHANGED <<notes, midiWorker, sink, written, midiPast>>
  BY DEF WakeWorker
<1>3. /\ LaneRight' /\ Unsent' = Tail(outbox.messages)
      /\ outbox' \in [pc : LanePlaces, messages : Seq(Messages), then : {"idle", "flush"},
                      ends : BOOLEAN]
      /\ outbox'.pc \in {"send", "idle", "flush"}
  BY <1>1, <1>2, NextIsRight
<1>4. async \in [device : BOOLEAN, queue : Seq(Messages), permits : Nat, running : BOOLEAN,
                 inFlight : BOOLEAN, waiting : BOOLEAN]
  BY <1>1 DEF MidiTypes
<1>5. /\ async'.device = async.device /\ async'.queue = async.queue
      /\ async'.inFlight = async.inFlight
      /\ async' \in [device : BOOLEAN, queue : Seq(Messages), permits : Nat, running : BOOLEAN,
                     inFlight : BOOLEAN, waiting : BOOLEAN]
  <2>1. PICK n \in Nat : n = async.permits + 1
    BY <1>4
  <2>2. async' = [async EXCEPT !.permits = n]
    BY <2>1 DEF WakeWorker
  <2>3. QED
    BY <1>4, <2>2
<1>6. MidiTypes' /\ ThreadRight'
  BY <1>1, <1>2, <1>3, <1>5 DEF MidiTypes, ThreadRight, NotWritten, Message
<1>7. Sent' = Sent
  <2>1. Unsent = Tail(outbox.messages) /\ Flying' = Flying
    BY <1>2 DEF Unsent, Flying
  <2>2. QED
    BY <1>2, <1>3, <1>5, <2>1 DEF Sent
<1>8. QED
  BY <1>2, <1>3, <1>5, <1>6, <1>7, MovedKeeps

\* A message for the device joins the queue, or is dropped at a full one.
LEMMA SendToQueueKeeps == ASSUME MidiInv, SendToQueue PROVE MidiInv'
<1> DEFINE d == outbox.messages
<1>1. MidiTypes /\ LaneRight /\ ThreadRight
  BY DEF MidiInv
<1>2. /\ outbox.pc = "send" /\ async.device /\ UNCHANGED <<notes, midiWorker, sink, written>>
  BY DEF SendToQueue
<1>3. /\ outbox \in [pc : LanePlaces, messages : Seq(Messages), then : {"idle", "flush"},
                     ends : BOOLEAN]
      /\ async \in [device : BOOLEAN, queue : Seq(Messages), permits : Nat, running : BOOLEAN,
                    inFlight : BOOLEAN, waiting : BOOLEAN]
      /\ midiPast \in [events : Nat, lost : BOOLEAN, rewound : BOOLEAN]
  BY <1>1 DEF MidiTypes
<1>4. CASE /\ outbox' = NextMessage(outbox) /\ midiPast' = [midiPast EXCEPT !.lost = TRUE]
           /\ UNCHANGED async
  <2>1. /\ LaneRight' /\ outbox'.pc \in {"send", "idle", "flush"}
        /\ outbox' \in [pc : LanePlaces, messages : Seq(Messages), then : {"idle", "flush"},
                        ends : BOOLEAN]
    BY <1>1, <1>2, <1>4, NextIsRight
  <2>2. /\ midiPast' \in [events : Nat, lost : BOOLEAN, rewound : BOOLEAN]
        /\ midiPast'.rewound = midiPast.rewound /\ midiPast'.lost
    BY <1>3, <1>4
  <2>3. MidiTypes' /\ ThreadRight'
    BY <1>1, <1>2, <1>4, <2>1, <2>2 DEF MidiTypes, ThreadRight, NotWritten, Message
  <2>4. async'.device = async.device
    BY <1>4
  <2>5. QED
    BY <1>2, <2>1, <2>2, <2>3, <2>4, MovedKeeps
<1>5. CASE /\ outbox' = [outbox EXCEPT !.pc = "wake"]
           /\ async' = [async EXCEPT !.queue = Append(@, Head(outbox.messages))]
           /\ UNCHANGED midiPast
  <2>1. d \in Seq(Messages) /\ d # << >> /\ async.queue \in Seq(Messages)
    BY <1>1, <1>2, <1>3 DEF LaneRight
  <2>2. /\ outbox' \in [pc : LanePlaces, messages : Seq(Messages), then : {"idle", "flush"},
                        ends : BOOLEAN]
        /\ outbox'.pc = "wake" /\ outbox'.messages = d /\ outbox'.then = outbox.then
    BY <1>3, <1>5 DEF LanePlaces
  <2> DEFINE q == async.queue
             x == sink \o Flying
  <2>3. x \in Seq(Messages) /\ x \o q \in Seq(Messages) /\ Sent = (x \o q) \o d
    BY <1>1, <1>2, SentIsASeq DEF Sent, Unsent
  <2>4. /\ Head(d) \in Messages /\ q \o <<Head(d)>> \in Seq(Messages)
        /\ Append(q, Head(d)) = q \o <<Head(d)>>
    BY <2>1, HeadMoves
  <2>5. /\ async' \in [device : BOOLEAN, queue : Seq(Messages), permits : Nat, running : BOOLEAN,
                       inFlight : BOOLEAN, waiting : BOOLEAN]
        /\ async'.device = async.device /\ async'.queue = q \o <<Head(d)>>
        /\ async'.inFlight = async.inFlight
    BY <1>3, <1>5, <2>4
  <2>6. q # << >> => Head(q \o <<Head(d)>>) = Head(q)
    BY <2>1, <2>4
  <2>7. q \o <<Head(d)>> # << >>
    BY <2>1, <2>4
  <2>8. MidiTypes' /\ LaneRight'
    BY <1>1, <1>2, <1>5, <2>1, <2>2, <2>5 DEF MidiTypes, LaneRight, NotWritten, Message
  <2>9. ThreadRight'
    BY <1>1, <1>2, <2>2, <2>5, <2>6, <2>7 DEF ThreadRight
  <2>10. Sent' = Sent
    <3>1. Unsent' = Tail(d) /\ Flying' = Flying
      BY <1>2, <2>2 DEF Unsent, Flying
    <3>2. Sent' = (x \o (q \o <<Head(d)>>)) \o Tail(d)
      BY <1>2, <2>5, <3>1 DEF Sent
    <3>3. <<Head(d)>> \in Seq(Messages) /\ q \in Seq(Messages) /\ x \in Seq(Messages)
      BY <2>1, <2>3, <2>4
    <3>4. (x \o q) \o <<Head(d)>> = x \o (q \o <<Head(d)>>)
      <4> HIDE DEF x, q, d
      <4>1. QED
        BY <3>3, ConcatAssociative
    <3>5. (x \o q) \o d = ((x \o q) \o <<Head(d)>>) \o Tail(d)
      BY <2>1, <2>3, HeadMoves
    <3>6. QED
      BY <2>3, <3>2, <3>4, <3>5
  <2>11. midiPast' = midiPast
    BY <1>5
  <2>12. QED
    BY <1>2, <2>5, <2>8, <2>9, <2>10, <2>11, MovedKeeps
<1>6. QED
  BY <1>4, <1>5 DEF SendToQueue
-----------------------------------------------------------------------------
(* Flushes.                                                                *)

\* Once all that was sent has reached the sink, its notes have ended.
LEMMA SinkEnds ==
    ASSUME MidiInv, ~notes.attached, ~midiPast.lost, Flying = << >>, async.queue = << >>,
           Unsent = << >>
    PROVE  /\ sink \in Seq(Messages) /\ Sent = sink /\ NotesAlternate(sink)
           /\ \A v \in MidiVoices : ~NoteSounds(sink, v, Len(sink))
<1>1. sink \in Seq(Messages)
  BY DEF MidiInv, MidiTypes
<1>2. Sent = ((sink \o << >>) \o << >>) \o << >>
  BY DEF Sent
<1>3. Sent = sink
  BY <1>1, <1>2, ConcatEmptySeq
<1>4. Right(sink, notes.active) /\ \A v \in MidiVoices : ~notes.active[v]
  BY <1>3 DEF MidiInv, StreamRight, LaneRight
<1>5. QED
  BY <1>1, <1>3, <1>4 DEF Right

\* After a flush the lane is idle, or goes on to stop the thread.
LEMMA AfterFlushIsRight ==
    ASSUME MidiInv, outbox.pc \in {"flush", "flushing"}, outbox' = AfterFlush,
           UNCHANGED <<notes, async, midiWorker, sink, midiPast>>
    PROVE  /\ MidiTypes' /\ LaneRight' /\ ThreadRight' /\ Sent' = Sent
           /\ Unsent = << >> /\ ~notes.attached
<1>1. MidiTypes /\ LaneRight /\ ThreadRight
  BY DEF MidiInv
<1>2. outbox \in [pc : LanePlaces, messages : Seq(Messages), then : {"idle", "flush"},
                  ends : BOOLEAN]
  BY <1>1 DEF MidiTypes
<1>3. outbox.messages = << >> /\ ~notes.attached
  BY <1>1 DEF LaneRight
<1>4. /\ outbox'.pc \in {"stop", "idle"} /\ outbox'.messages = << >>
      /\ outbox' \in [pc : LanePlaces, messages : Seq(Messages), then : {"idle", "flush"},
                      ends : BOOLEAN]
  BY <1>2, <1>3 DEF AfterFlush, LanePlaces
<1>5. MidiTypes' /\ LaneRight' /\ ThreadRight'
  BY <1>1, <1>3, <1>4 DEF MidiTypes, LaneRight, ThreadRight, NotWritten, Message
<1>6. Unsent = << >> /\ Sent' = Sent
  BY <1>3, <1>4 DEF Sent, Flying, Unsent
<1>7. QED
  BY <1>3, <1>5, <1>6

\* The file is written in the order its messages were sent in.
LEMMA FlushFileKeeps == ASSUME MidiInv, FlushFile PROVE MidiInv'
<1>1. /\ outbox.pc = "flush" /\ ~async.device /\ outbox' = AfterFlush
      /\ written' \in {written, ByFrame(sink)}
      /\ UNCHANGED <<notes, async, midiWorker, sink, midiPast>>
  BY DEF FlushFile
<1>2. /\ MidiTypes' /\ LaneRight' /\ ThreadRight' /\ Sent' = Sent
      /\ Unsent = << >> /\ ~notes.attached
  BY <1>1, AfterFlushIsRight
<1>3. midiWorker.pc = "loop" /\ async.queue = << >> /\ Flying = << >>
  BY <1>1 DEF MidiInv, ThreadRight, Flying
<1>4. ASSUME written' = ByFrame(sink) PROVE NotesEnd'
  <2>1. ASSUME ~midiPast.lost, midiPast.rewound => async.device
        PROVE  /\ NotesAlternate(written')
               /\ \A v \in MidiVoices : ~NoteSounds(written', v, Len(written'))
    <3>1. /\ sink \in Seq(Messages) /\ Sent = sink /\ NotesAlternate(sink)
          /\ \A v \in MidiVoices : ~NoteSounds(sink, v, Len(sink))
      BY <1>2, <1>3, <2>1, SinkEnds
    <3>2. UpTo(sink, notes.frame)
      BY <1>1, <2>1, <3>1 DEF MidiInv, StreamRight
    <3>3. ByFrame(sink) = sink
      BY <3>1, <3>2, SortedStays
    <3>4. QED
      BY <1>4, <3>1, <3>3
  <2>2. QED
    BY <1>1, <2>1 DEF NotesEnd, NotesAlternate, NoteSounds, NotWritten, Message
<1>5. QED
  BY <1>1, <1>2, <1>4, MovedKeeps

\* A device has been told all that was sent.
LEMMA FlushDeviceKeeps == ASSUME MidiInv, FlushDevice PROVE MidiInv'
<1>1. /\ outbox.pc = "flushing" /\ outbox' = AfterFlush /\ written' = sink
      /\ UNCHANGED <<notes, async, midiWorker, sink, midiPast>>
  BY DEF FlushDevice
<1>2. /\ MidiTypes' /\ LaneRight' /\ ThreadRight' /\ Sent' = Sent
      /\ Unsent = << >> /\ ~notes.attached
  BY <1>1, AfterFlushIsRight
<1>3. midiWorker.pc # "sending" /\ async.queue = << >> /\ Flying = << >>
  BY <1>1 DEF MidiInv, ThreadRight, Flying, OnItsWay
<1>4. NotesEnd'
  <2>1. ASSUME ~midiPast.lost
        PROVE  /\ NotesAlternate(written')
               /\ \A v \in MidiVoices : ~NoteSounds(written', v, Len(written'))
    BY <1>1, <1>2, <1>3, <2>1, SinkEnds
  <2>2. QED
    BY <1>1, <2>1 DEF NotesEnd, NotesAlternate, NoteSounds, NotWritten, Message
<1>5. QED
  BY <1>1, <1>2, <1>4, MovedKeeps

\* The lane looks at the queue, then at the mark.
LEMMA LooksKeep == ASSUME MidiInv, FlushLooks \/ FlushLooksAgain PROVE MidiInv'
<1>1. MidiTypes /\ LaneRight /\ ThreadRight
  BY DEF MidiInv
<1>2. /\ outbox \in [pc : LanePlaces, messages : Seq(Messages), then : {"idle", "flush"},
                     ends : BOOLEAN]
      /\ async \in [device : BOOLEAN, queue : Seq(Messages), permits : Nat, running : BOOLEAN,
                    inFlight : BOOLEAN, waiting : BOOLEAN]
  BY <1>1 DEF MidiTypes
<1>3. /\ outbox.pc \in {"flush", "waiting", "looking"}
      /\ UNCHANGED <<notes, midiWorker, sink, written, midiPast>>
      /\ async' = async \/ async' = [async EXCEPT !.waiting = TRUE]
  BY DEF FlushLooks, FlushLooksAgain
<1>4. PICK pc \in {"waiting", "looking", "flushing"} :
        /\ outbox' = [outbox EXCEPT !.pc = pc]
        /\ pc = "looking" => async.queue = << >>
        /\ pc = "flushing" => outbox.pc = "looking" /\ ~async.inFlight
  BY DEF FlushLooks, FlushLooksAgain
<1>5. /\ outbox'.pc = pc /\ outbox'.messages = outbox.messages /\ outbox'.then = outbox.then
      /\ outbox' \in [pc : LanePlaces, messages : Seq(Messages), then : {"idle", "flush"},
                      ends : BOOLEAN]
  BY <1>2, <1>4 DEF LanePlaces
<1>6. /\ async'.device = async.device /\ async'.queue = async.queue
      /\ async'.inFlight = async.inFlight
      /\ async' \in [device : BOOLEAN, queue : Seq(Messages), permits : Nat, running : BOOLEAN,
                     inFlight : BOOLEAN, waiting : BOOLEAN]
  BY <1>2, <1>3
<1>7. MidiTypes' /\ LaneRight'
  BY <1>1, <1>3, <1>5, <1>6 DEF MidiTypes, LaneRight, NotWritten, Message
<1>8. ThreadRight'
  BY <1>1, <1>3, <1>4, <1>5, <1>6 DEF ThreadRight
<1>9. Sent' = Sent
  BY <1>3, <1>5, <1>6 DEF Sent, Flying, Unsent
<1>10. QED
  BY <1>3, <1>6, <1>7, <1>8, <1>9, MovedKeeps
-----------------------------------------------------------------------------
(* The sink's thread.                                                      *)

\* What the thread does besides taking and sending a message.
LEMMA ThreadTurnsKeep ==
    ASSUME MidiInv, WorkerLoops \/ WorkerAcquires \/ WorkerClears PROVE MidiInv'
<1>1. MidiTypes /\ LaneRight /\ ThreadRight
  BY DEF MidiInv
<1>2. /\ midiWorker \in [pc : ThreadPlaces, message : Messages \cup {NotWritten[1]}]
      /\ async \in [device : BOOLEAN, queue : Seq(Messages), permits : Nat, running : BOOLEAN,
                    inFlight : BOOLEAN, waiting : BOOLEAN]
  BY <1>1 DEF MidiTypes
<1>3. UNCHANGED <<notes, outbox, sink, written, midiPast>>
  BY DEF WorkerLoops, WorkerAcquires, WorkerClears
<1>4. PICK pc \in {"acquire", "done", "drain", "notify"} :
        midiWorker' = [midiWorker EXCEPT !.pc = pc]
  BY DEF WorkerLoops, WorkerAcquires, WorkerClears
<1>5. /\ midiWorker'.pc = pc
      /\ midiWorker' \in [pc : ThreadPlaces, message : Messages \cup {NotWritten[1]}]
  BY <1>2, <1>4 DEF ThreadPlaces
<1>6. /\ midiWorker.pc \in {"loop", "acquire", "clear", "notify"}
      /\ ~async.device => midiWorker.pc = "loop"
      /\ async.device
  BY <1>1 DEF WorkerLoops, WorkerAcquires, WorkerClears, ThreadRight
<1>7. /\ async'.device = async.device /\ async'.queue = async.queue /\ ~async'.inFlight
      /\ async' \in [device : BOOLEAN, queue : Seq(Messages), permits : Nat, running : BOOLEAN,
                     inFlight : BOOLEAN, waiting : BOOLEAN]
  <2>1. CASE WorkerLoops
    BY <1>1, <1>2, <2>1 DEF WorkerLoops, ThreadRight, OnItsWay
  <2>2. CASE WorkerAcquires
    <3>1. ~async.inFlight
      BY <1>1, <2>2 DEF WorkerAcquires, ThreadRight, OnItsWay
    <3>2. async.permits \in Nat /\ async.permits > 0
      BY <1>2, <2>2 DEF WorkerAcquires
    <3>3. PICK n \in Nat : n = async.permits - 1
      BY <3>2
    <3>4. async' = [async EXCEPT !.permits = n]
      BY <2>2, <3>3 DEF WorkerAcquires
    <3>5. QED
      BY <1>2, <3>1, <3>4
  <2>3. CASE WorkerClears
    <3>1. CASE midiWorker.pc = "clear"
      <4>1. async' = [async EXCEPT !.inFlight = FALSE]
        BY <2>3, <3>1 DEF WorkerClears
      <4>2. QED
        BY <1>2, <4>1
    <3>2. CASE midiWorker.pc = "notify"
      <4>1. async' = [async EXCEPT !.waiting = FALSE] /\ ~async.inFlight
        BY <1>1, <2>3, <3>2 DEF WorkerClears, ThreadRight, OnItsWay
      <4>2. QED
        BY <1>2, <4>1
    <3>3. QED
      BY <2>3, <3>1, <3>2 DEF WorkerClears
  <2>4. QED
    BY <2>1, <2>2, <2>3
<1>8. MidiTypes' /\ LaneRight'
  BY <1>1, <1>3, <1>5, <1>7 DEF MidiTypes, LaneRight, NotWritten, Message
<1>9. ThreadRight'
  BY <1>1, <1>3, <1>5, <1>6, <1>7 DEF ThreadRight, OnItsWay
<1>10. Sent' = Sent
  <2>1. Flying' = << >> /\ Flying = << >>
    BY <1>5, <1>6 DEF Flying
  <2>2. QED
    BY <1>3, <1>7, <2>1 DEF Sent, Unsent
<1>11. QED
  BY <1>3, <1>7, <1>8, <1>9, <1>10, MovedKeeps

\* A message is marked, then leaves the queue for the thread's hand.
LEMMA DrainsKeep == ASSUME MidiInv, WorkerDrains PROVE MidiInv'
<1>1. MidiTypes /\ LaneRight /\ ThreadRight
  BY DEF MidiInv
<1>2. /\ midiWorker \in [pc : ThreadPlaces, message : Messages \cup {NotWritten[1]}]
      /\ async \in [device : BOOLEAN, queue : Seq(Messages), permits : Nat, running : BOOLEAN,
                    inFlight : BOOLEAN, waiting : BOOLEAN]
      /\ async.queue \in Seq(Messages) /\ sink \in Seq(Messages)
  BY <1>1 DEF MidiTypes
<1>3. UNCHANGED <<notes, outbox, sink, written, midiPast>>
  BY DEF WorkerDrains
<1>4. async.device
  BY <1>1 DEF WorkerDrains, ThreadRight
<1>5. CASE /\ midiWorker.pc = "drain" /\ async.queue # << >>
           /\ midiWorker' = [pc |-> "advance", message |-> Head(async.queue)]
           /\ async' = [async EXCEPT !.inFlight = TRUE]
  <2>1. Head(async.queue) \in Messages
    BY <1>2, <1>5, HeadTailProperties
  <2>2. /\ midiWorker'.pc = "advance" /\ midiWorker'.message = Head(async.queue)
        /\ midiWorker' \in [pc : ThreadPlaces, message : Messages \cup {NotWritten[1]}]
    BY <1>5, <2>1 DEF ThreadPlaces
  <2>3. /\ async'.device = async.device /\ async'.queue = async.queue /\ async'.inFlight
        /\ async' \in [device : BOOLEAN, queue : Seq(Messages), permits : Nat, running : BOOLEAN,
                       inFlight : BOOLEAN, waiting : BOOLEAN]
    BY <1>2, <1>5
  <2>4. MidiTypes' /\ LaneRight'
    BY <1>1, <1>3, <2>2, <2>3 DEF MidiTypes, LaneRight, NotWritten, Message
  <2>5. ThreadRight'
    BY <1>1, <1>3, <1>4, <1>5, <2>2, <2>3 DEF ThreadRight, OnItsWay
  <2>6. Sent' = Sent
    <3>1. Flying' = << >> /\ Flying = << >>
      BY <1>5, <2>2 DEF Flying
    <3>2. QED
      BY <1>3, <2>3, <3>1 DEF Sent, Unsent
  <2>7. QED
    BY <1>3, <2>3, <2>4, <2>5, <2>6, MovedKeeps
<1>6. CASE /\ midiWorker.pc = "drain" /\ async.queue = << >>
           /\ midiWorker' = [midiWorker EXCEPT !.pc = "loop"] /\ UNCHANGED async
  <2>1. /\ midiWorker'.pc = "loop"
        /\ midiWorker' \in [pc : ThreadPlaces, message : Messages \cup {NotWritten[1]}]
    BY <1>2, <1>6 DEF ThreadPlaces
  <2>2. MidiTypes' /\ LaneRight'
    BY <1>1, <1>3, <1>6, <2>1 DEF MidiTypes, LaneRight, NotWritten, Message
  <2>3. ThreadRight'
    BY <1>1, <1>3, <1>6, <2>1 DEF ThreadRight, OnItsWay
  <2>4. Sent' = Sent
    BY <1>3, <1>6, <2>1 DEF Sent, Flying, Unsent
  <2>5. async'.device = async.device
    BY <1>6
  <2>6. QED
    BY <1>3, <2>2, <2>3, <2>4, <2>5, MovedKeeps
<1>7. CASE /\ midiWorker.pc = "advance"
           /\ midiWorker' = [midiWorker EXCEPT !.pc = "sending"]
           /\ async' = [async EXCEPT !.queue = Tail(@)]
  <2> DEFINE q == async.queue
  <2>1. q # << >> /\ midiWorker.message = Head(q) /\ q \in Seq(Messages) /\ async.inFlight
    BY <1>1, <1>2, <1>7 DEF ThreadRight, OnItsWay
  <2>2. /\ Head(q) \in Messages /\ Tail(q) \in Seq(Messages)
        /\ sink \o q = (sink \o <<Head(q)>>) \o Tail(q)
    BY <1>2, <2>1, HeadMoves
  <2>3. /\ midiWorker'.pc = "sending" /\ midiWorker'.message = Head(q)
        /\ midiWorker' \in [pc : ThreadPlaces, message : Messages \cup {NotWritten[1]}]
    BY <1>2, <1>7, <2>1, <2>2 DEF ThreadPlaces
  <2>4. /\ async'.device = async.device /\ async'.queue = Tail(q)
        /\ async'.inFlight = async.inFlight
        /\ async' \in [device : BOOLEAN, queue : Seq(Messages), permits : Nat, running : BOOLEAN,
                       inFlight : BOOLEAN, waiting : BOOLEAN]
    BY <1>2, <1>7, <2>2
  <2>5. outbox.pc \notin {"looking", "flushing"}
    BY <1>1, <2>1 DEF ThreadRight
  <2>6. MidiTypes' /\ LaneRight'
    BY <1>1, <1>3, <2>3, <2>4 DEF MidiTypes, LaneRight, NotWritten, Message
  <2>7. ThreadRight'
    BY <1>3, <1>4, <2>1, <2>2, <2>3, <2>4, <2>5 DEF ThreadRight, OnItsWay
  <2>8. Sent' = Sent
    <3>1. Flying = << >> /\ Flying' = <<Head(q)>>
      BY <1>7, <2>3 DEF Flying
    <3>2. sink \o << >> = sink
      BY <1>2, ConcatEmptySeq
    <3>3. /\ Sent = ((sink \o << >>) \o q) \o Unsent
          /\ Sent' = ((sink \o <<Head(q)>>) \o Tail(q)) \o Unsent
      BY <1>3, <2>4, <3>1 DEF Sent, Unsent
    <3>4. QED
      BY <2>2, <3>2, <3>3
  <2>9. QED
    BY <1>3, <2>4, <2>6, <2>7, <2>8, MovedKeeps
<1>8. QED
  BY <1>5, <1>6, <1>7 DEF WorkerDrains

\* The device has the message, or it is lost.
LEMMA SendsKeep == ASSUME MidiInv, WorkerSends PROVE MidiInv'
<1> DEFINE m == midiWorker.message
<1>1. MidiTypes /\ LaneRight /\ ThreadRight
  BY DEF MidiInv
<1>2. /\ midiWorker.pc = "sending"
      /\ midiWorker' = [pc |-> "clear", message |-> NotWritten[1]]
      /\ UNCHANGED <<notes, outbox, async, written>>
  BY DEF WorkerSends
<1>3. /\ m \in Messages /\ sink \in Seq(Messages)
      /\ midiPast \in [events : Nat, lost : BOOLEAN, rewound : BOOLEAN]
  BY <1>1, <1>2 DEF MidiTypes, ThreadRight
<1>4. /\ midiWorker'.pc = "clear"
      /\ midiWorker' \in [pc : ThreadPlaces, message : Messages \cup {NotWritten[1]}]
  BY <1>2 DEF ThreadPlaces
<1> HIDE DEF m
<1>5. <<m>> \in Seq(Messages) /\ Append(sink, m) = sink \o <<m>>
  BY <1>3
<1>6. sink \o <<m>> \in Seq(Messages)
  BY <1>3, <1>5, Joined
<1>7. \/ sink' = sink \o <<m>> /\ midiPast' = midiPast
      \/ sink' = sink /\ midiPast' = [midiPast EXCEPT !.lost = TRUE]
  BY <1>5 DEF WorkerSends, m
<1>8. /\ sink' \in Seq(Messages) /\ midiPast' \in [events : Nat, lost : BOOLEAN, rewound : BOOLEAN]
      /\ midiPast'.rewound = midiPast.rewound /\ (midiPast.lost => midiPast'.lost)
      /\ ~midiPast'.lost => sink' = sink \o <<m>>
  BY <1>3, <1>6, <1>7
<1>9. MidiTypes' /\ LaneRight'
  BY <1>1, <1>2, <1>4, <1>8 DEF MidiTypes, LaneRight, NotWritten, Message
<1>10. ThreadRight'
  BY <1>1, <1>2, <1>4 DEF ThreadRight, OnItsWay
<1>11. ASSUME ~midiPast'.lost PROVE Sent' = Sent
  <2>1. Flying = <<m>> /\ Flying' = << >>
    BY <1>2, <1>4 DEF Flying, m
  <2>2. sink' \o << >> = sink'
    BY <1>8, ConcatEmptySeq
  <2>3. sink' \o Flying' = sink \o Flying
    BY <1>8, <1>11, <2>1, <2>2
  <2>4. QED
    BY <1>2, <2>3 DEF Sent, Unsent
<1>12. QED
  BY <1>2, <1>8, <1>9, <1>10, <1>11, MovedKeeps
-----------------------------------------------------------------------------
(* The theorem.                                                            *)

\* The initial state: nothing sent, no voice on.
LEMMA MidiStarts == MidiInit => MidiInv
<1> SUFFICES ASSUME MidiInit PROVE MidiInv
    OBVIOUS
<1>1. << >> \in Seq(Messages) /\ Len(<< >>) = 0
  BY EmptySeq
<1>2. /\ notes = [active |-> [v \in MidiVoices |-> FALSE], frame |-> 0, attached |-> FALSE,
                  attaches |-> 0]
      /\ outbox = [pc |-> "idle", messages |-> << >>, then |-> "idle", ends |-> FALSE]
      /\ midiWorker = [pc |-> "loop", message |-> NotWritten[1]]
      /\ sink = << >> /\ written = NotWritten
      /\ midiPast = [events |-> 0, lost |-> FALSE, rewound |-> FALSE]
  BY DEF MidiInit
<1>3. PICK d \in BOOLEAN :
        async = [device |-> d, queue |-> << >>, permits |-> 0, running |-> TRUE,
                 inFlight |-> FALSE, waiting |-> FALSE]
  BY DEF MidiInit
<1>4. PICK none \in [MidiVoices -> BOOLEAN] : none = [v \in MidiVoices |-> FALSE]
  OBVIOUS
<1>5. notes.active = none /\ ~notes.attached /\ \A v \in MidiVoices : ~none[v]
  BY <1>2, <1>4
<1>6. MidiTypes
  <2>1. notes \in [active : [MidiVoices -> BOOLEAN], frame : Nat, attached : BOOLEAN,
                   attaches : Nat]
    BY <1>2, <1>4
  <2>2. QED
    BY <1>1, <1>2, <1>3, <2>1 DEF MidiTypes, LanePlaces, ThreadPlaces
<1>7. LaneRight
  BY <1>2, <1>5 DEF LaneRight
<1>8. ThreadRight
  BY <1>2, <1>3 DEF ThreadRight, OnItsWay
<1>9. Sent = << >>
  <2>1. Sent = ((<< >> \o << >>) \o << >>) \o << >>
    BY <1>2, <1>3 DEF Sent, Flying, Unsent
  <2>2. << >> \o << >> = << >>
    BY <1>1, ConcatEmptySeq
  <2>3. QED
    BY <2>1, <2>2
<1>10. StreamRight
  <2>1. 1 .. 0 = {}
    OBVIOUS
  <2>2. Right(<< >>, none) /\ UpTo(<< >>, notes.frame)
    BY <1>1, <1>5, <2>1 DEF Right, UpTo, NotesAlternate, NoteSounds
  <2>3. QED
    BY <1>5, <1>9, <2>2 DEF StreamRight
<1>11. NotesEnd
  BY <1>2 DEF NotesEnd
<1>12. QED
  BY <1>6, <1>7, <1>8, <1>10, <1>11 DEF MidiInv

\* The inductive invariant holds in every reachable state.
LEMMA MidiInvariant == MidiSpec => []MidiInv
<1>1. MidiInv /\ [MidiNext]_midiVars => MidiInv'
  <2> SUFFICES ASSUME MidiInv, [MidiNext]_midiVars PROVE MidiInv'
    OBVIOUS
  <2>1. CASE UNCHANGED midiVars
    <3>1. UNCHANGED <<notes, outbox, async, midiWorker, sink, written, midiPast>>
      BY <2>1 DEF midiVars
    <3>2. MidiTypes' /\ LaneRight' /\ ThreadRight'
      BY <3>1 DEF MidiInv, MidiTypes, LaneRight, ThreadRight, NotWritten, Message
    <3>3. Sent' = Sent
      BY <3>1 DEF Sent, Flying, Unsent
    <3>4. QED
      BY <3>1, <3>2, <3>3, MovedKeeps
  <2>2. CASE PlayEvent \/ Rewind \/ AttachMidi \/ DetachMidi
    BY <2>2, PlayEventKeeps, RewindKeeps, AttachKeeps, DetachKeeps
  <2>3. CASE Destroy \/ StopMidi \/ JoinMidi
    BY <2>3, StopAndJoinKeep
  <2>4. CASE SendToFile \/ SendToQueue \/ WakeWorker
    BY <2>4, SendToFileKeeps, SendToQueueKeeps, WakeKeeps
  <2>5. CASE FlushFile \/ FlushLooks \/ FlushLooksAgain \/ FlushDevice
    BY <2>5, FlushFileKeeps, LooksKeep, FlushDeviceKeeps
  <2>6. CASE MidiWorkerStep
    BY <2>6, ThreadTurnsKeep, DrainsKeep, SendsKeep DEF MidiWorkerStep
  <2>7. QED
    BY <2>1, <2>2, <2>3, <2>4, <2>5, <2>6 DEF MidiNext, LaneStep
<1>2. QED
  BY MidiStarts, <1>1, PTL DEF MidiSpec

\* In what is written notes alternate and none is left on, unless a message was dropped or
\* a file's frames went back; and the lane and the sink's thread never use the device at
\* once, though no lock is held around either use (PsgMidiPlugin's onDetach and the sinks'
\* send and flush, against AsyncMidiSink::run).
THEOREM NotesAlwaysEnd == MidiSpec => []NotesDelivered
<1>1. MidiInv => NotesDelivered
  BY DEF MidiInv, ThreadRight, OnItsWay, NotesDelivered, DeviceUsedAlone
<1>2. QED
  BY MidiInvariant, <1>1, PTL

-----------------------------------------------------------------------------
(*** VisualOverrides ******************************************************)

\* What the program's state is made of.
Files == [manifest : Nat, image : Nat, good : BOOLEAN, edits : Nat]
VisualTypeOK ==
    /\ file \in Files
    /\ pack \in [manifest : Nat, manifestTime : Nat, imageTime : Nat]
    /\ generation \in Nat /\ image \in Nat \cup {NoImage}
    /\ decode \in [step : {"none", "queued", "ready"}, generation : Nat, version : Nat \cup {NoImage}]
    /\ reload \in [step : {"none", "check", "load", "stamp", "done"}, base : Nat, from : Nat,
                   pack : [manifest : Nat, manifestTime : Nat, imageTime : Nat],
                   outcome : {"none", "same", "error", "changed"}]
    /\ probe \in [running : BOOLEAN, manifestTime : Nat, imageTime : Nat, requested : BOOLEAN]
    /\ missed \in BOOLEAN
\* An image was decoded since the pack's stamps were taken.
OfPack(v) == v = NoImage \/ (pack.imageTime <= v /\ v <= file.image)

\* No time stamp is ahead of its file.
TimesPast ==
    /\ probe.manifestTime <= file.manifest /\ probe.imageTime <= file.image
    /\ pack.imageTime <= file.image
    /\ Applies => reload.pack.imageTime <= file.image

\* So was the image shown, and one decoded for the present packs.
ImagesOfPack ==
    /\ OfPack(image)
    /\ decode.generation <= generation
    /\ decode.step = "ready" /\ decode.generation = generation => OfPack(decode.version)

\* Only the result of the one reload replaces the packs it started from.
ReloadOfPack ==
    /\ reload.step # "none" => reload.base = generation
    /\ reload.step \in {"check", "load"} => reload.pack = pack

\* The pack in use, or the one that will replace it, is what its stamp says.
ManifestKnown ==
    \/ missed
    \/ reload.step = "stamp" /\ reload.from = file.manifest
    \/ Applies /\ reload.pack.manifest = file.manifest /\ reload.pack.manifestTime = file.manifest
    \/ reload.step # "stamp" /\ ~Applies /\ pack.manifest = pack.manifestTime

VisualInv == VisualTypeOK /\ TimesPast /\ ImagesOfPack /\ ReloadOfPack /\ ManifestKnown /\ NoChangeLost

LEMMA EditKeeps ==
    ASSUME VisualInv, EditImage \/ EditManifest
    PROVE  VisualInv'
<1>1. /\ file.manifest \in Nat /\ file.image \in Nat
      /\ file' \in Files
      /\ \/ file'.image = file.image + 1 /\ file'.manifest = file.manifest /\ missed' = missed
            /\ file'.good = file.good
         \/ file'.image = file.image /\ file'.manifest = file.manifest + 1
            /\ missed' = (missed \/ reload.step \in {"stamp", "done"})
      /\ UNCHANGED <<pack, generation, image, decode, reload, probe>> /\ missed' \in BOOLEAN
  <2>1. file \in Files /\ missed \in BOOLEAN
    BY DEF VisualInv, VisualTypeOK, Files
  <2>2. CASE EditImage
    <3>1. PICK f : f = [file EXCEPT !.image = @ + 1]
      OBVIOUS
    <3>2. f \in Files /\ f.image = file.image + 1 /\ f.manifest = file.manifest /\ f.good = file.good
      BY <2>1, <3>1 DEF Files
    <3>3. file' = [f EXCEPT !.edits = @ + 1] /\ UNCHANGED <<pack, generation, image, decode, reload, probe, missed>>
      BY <2>2, <3>1 DEF EditImage, Saves
    <3>4. /\ file' \in Files /\ file'.image = f.image /\ file'.manifest = f.manifest
          /\ file'.good = f.good
      BY <3>2, <3>3 DEF Files
    <3> QED BY <2>1, <3>2, <3>3, <3>4 DEF Files
  <2>3. CASE EditManifest
    <3>1. PICK good \in BOOLEAN : Saves([file EXCEPT !.manifest = @ + 1, !.good = good])
      BY <2>3 DEF EditManifest
    <3>2. PICK f : f = [file EXCEPT !.manifest = @ + 1, !.good = good]
      OBVIOUS
    <3>3. f = [manifest |-> file.manifest + 1, image |-> file.image, good |-> good,
               edits |-> file.edits]
      BY <2>1, <3>2, Zenon DEF Files
    <3>4. f \in Files /\ f.image = file.image /\ f.manifest = file.manifest + 1
      BY <2>1, <3>3 DEF Files
    <3>5. /\ file' = [f EXCEPT !.edits = @ + 1] /\ missed' = (missed \/ reload.step \in {"stamp", "done"})
          /\ UNCHANGED <<pack, generation, image, decode, reload, probe>>
      BY <2>3, <3>1, <3>2 DEF EditManifest, Saves
    <3>6. file' \in Files /\ file'.image = f.image /\ file'.manifest = f.manifest
      BY <3>4, <3>5 DEF Files
    <3>7. missed' \in BOOLEAN
      BY <2>1, <3>5
    <3> QED BY <2>1, <3>4, <3>5, <3>6, <3>7 DEF Files
  <2> QED BY <2>2, <2>3
<1>2. VisualTypeOK' /\ ReloadOfPack' /\ (Applies <=> Applies')
  <2>1. VisualTypeOK'
    BY <1>1 DEF VisualInv, VisualTypeOK, Files
  <2>2. ReloadOfPack' /\ (Applies <=> Applies')
    BY <1>1 DEF VisualInv, ReloadOfPack, Applies
  <2> QED BY <2>1, <2>2
<1>3. /\ pack.imageTime \in Nat /\ reload.pack.imageTime \in Nat /\ probe.imageTime \in Nat
      /\ probe.manifestTime \in Nat /\ image \in Int /\ decode.version \in Int
  BY DEF VisualInv, VisualTypeOK, Files, NoImage
<1>4. TimesPast'
  BY <1>1, <1>2, <1>3 DEF VisualInv, TimesPast
<1>5. ImagesOfPack'
  BY <1>1, <1>2, <1>3 DEF VisualInv, ImagesOfPack, OfPack
<1>6. ManifestKnown'
  <2>1. CASE file'.manifest = file.manifest /\ missed' = missed
    BY <1>1, <1>2, <2>1 DEF VisualInv, ManifestKnown
  <2>2. CASE missed' = (missed \/ reload.step \in {"stamp", "done"})
    <3>1. Applies => reload.step = "done"
      BY DEF Applies
    <3> QED BY <1>1, <1>2, <2>2, <3>1 DEF VisualInv, ManifestKnown
  <2> QED BY <1>1, <2>1, <2>2
<1>7. ChangePending'
  BY <1>1, <1>3 DEF VisualInv, TimesPast, ChangePending
<1> QED BY <1>2, <1>4, <1>5, <1>6, <1>7 DEF VisualInv, NoChangeLost

LEMMA PollKeeps ==
    ASSUME VisualInv, NEW probed \in BOOLEAN, NEW accepted \in BOOLEAN,
           PollVisualPackReload(probed, accepted)
    PROVE  VisualInv'
<1> DEFINE free == reload.step \in {"none", "done"}
           starts == probe.requested /\ free /\ accepted
<1>1. /\ UNCHANGED <<file, decode, missed>>
      /\ IF Applies THEN pack' = reload.pack /\ generation' = generation + 1 /\ image' = NoImage
         ELSE pack' = pack /\ generation' = generation /\ image' = image
  BY DEF PollVisualPackReload
<1>2. /\ probe' \in [running : BOOLEAN, manifestTime : Nat, imageTime : Nat, requested : BOOLEAN]
      /\ probe'.manifestTime = IF Applies THEN file.manifest ELSE probe.manifestTime
      /\ probe'.imageTime = IF Applies THEN file.image ELSE probe.imageTime
      /\ probe'.requested = (probe.requested /\ ~starts)
  BY DEF PollVisualPackReload, VisualInv, VisualTypeOK, Files
<1>3. IF starts THEN reload' = [NoReload EXCEPT !.step = "check", !.base = generation', !.pack = pack']
      ELSE reload' = IF free THEN NoReload ELSE reload
  BY DEF PollVisualPackReload
<1>4. VisualTypeOK'
  <2>1. pack' \in [manifest : Nat, manifestTime : Nat, imageTime : Nat] /\ generation' \in Nat
    BY <1>1 DEF VisualInv, VisualTypeOK, Files
  <2>2. reload' \in [step : {"none", "check", "load", "stamp", "done"}, base : Nat, from : Nat,
                     pack : [manifest : Nat, manifestTime : Nat, imageTime : Nat],
                     outcome : {"none", "same", "error", "changed"}]
    <3>1. NoReload \in [step : {"none", "check", "load", "stamp", "done"}, base : Nat, from : Nat,
                        pack : [manifest : Nat, manifestTime : Nat, imageTime : Nat],
                        outcome : {"none", "same", "error", "changed"}]
      BY DEF NoReload
    <3>2. CASE starts
      BY <1>3, <2>1, <3>1, <3>2
    <3>3. CASE ~starts
      BY <1>3, <3>1, <3>3 DEF VisualInv, VisualTypeOK, Files
    <3> QED BY <3>2, <3>3
  <2> QED BY <1>1, <1>2, <2>1, <2>2 DEF VisualInv, VisualTypeOK, Files
<1>5. /\ starts => reload'.step = "check" /\ reload'.base = generation' /\ reload'.pack = pack'
      /\ ~starts /\ free => reload'.step = "none"
      /\ ~free => reload' = reload /\ ~Applies
  <2>1. CASE starts
    BY <1>3, <2>1 DEF NoReload
  <2>2. CASE ~starts /\ free
    BY <1>3, <2>2 DEF NoReload
  <2>3. CASE ~free
    BY <1>3, <2>3 DEF Applies
  <2> QED BY <2>1, <2>2, <2>3
<1>6. ~Applies'
  BY <1>5 DEF Applies
<1>7. ReloadOfPack'
  BY <1>1, <1>5 DEF VisualInv, ReloadOfPack
<1>8. TimesPast'
  BY <1>1, <1>2, <1>6 DEF VisualInv, VisualTypeOK, Files, TimesPast
<1>9. ImagesOfPack'
  BY <1>1 DEF VisualInv, VisualTypeOK, Files, ImagesOfPack, OfPack
<1>10. ManifestKnown'
  BY <1>1, <1>5, <1>6 DEF VisualInv, ManifestKnown, Applies
<1>11. NoChangeLost'
  <2>1. CASE Applies
    <3>1. missed \/ pack'.manifest = file.manifest
      BY <1>1, <2>1 DEF VisualInv, ManifestKnown, Applies
    <3>2. decode.generation # generation'
      BY <1>1, <2>1 DEF VisualInv, VisualTypeOK, Files, ImagesOfPack
    <3> QED BY <1>1, <2>1, <3>1, <3>2 DEF NoChangeLost
  <2>2. CASE ~Applies /\ ~ChangePending'
    <3>1. ~ChangePending
      BY <1>1, <1>2, <1>5, <2>2 DEF ChangePending, VisualInv, VisualTypeOK, Files
    <3> QED BY <1>1, <2>2, <3>1 DEF VisualInv, NoChangeLost
  <2> QED BY <2>1, <2>2 DEF NoChangeLost
<1> QED BY <1>4, <1>7, <1>8, <1>9, <1>10, <1>11 DEF VisualInv

LEMMA DecodesKeep ==
    ASSUME VisualInv, Resolve \/ Decode(TRUE) \/ Decode(FALSE)
    PROVE  VisualInv'
<1>1. UNCHANGED <<file, pack, generation, reload, probe, missed>>
  BY DEF Resolve, Decode
<1>2. /\ (Applies <=> Applies') /\ (ChangePending <=> ChangePending')
      /\ TimesPast' /\ ReloadOfPack' /\ ManifestKnown'
  BY <1>1 DEF VisualInv, Applies, ChangePending, TimesPast, ReloadOfPack, ManifestKnown
<1>3. \/ image' = NoImage /\ decode'.step = "queued" /\ decode'.generation <= generation
         /\ decode' \in [step : {"none", "queued", "ready"}, generation : Nat,
                         version : Nat \cup {NoImage}]
      \/ image' \in {NoImage, decode.version} /\ decode' = NoDecode /\ decode.step = "ready"
         /\ (image' = NoImage \/ decode.generation = generation)
      \/ image' = image /\ decode'.version \in {NoImage, file.image}
         /\ decode'.generation = decode.generation
         /\ decode' \in [step : {"none", "queued", "ready"}, generation : Nat,
                         version : Nat \cup {NoImage}]
  <2>1. CASE Resolve /\ decode.step = "none"
    <3>1. /\ image' = NoImage /\ generation \in Nat
          /\ decode' = [NoDecode EXCEPT !.step = "queued", !.generation = generation]
      BY <2>1 DEF Resolve, VisualInv, VisualTypeOK, Files
    <3>2. NoDecode \in [step : {"none", "queued", "ready"}, generation : Nat,
                        version : Nat \cup {NoImage}]
      BY DEF NoDecode
    <3>3. decode' \in [step : {"none", "queued", "ready"}, generation : Nat,
                       version : Nat \cup {NoImage}] /\ decode'.step = "queued" /\ decode'.generation = generation
      BY <3>1, <3>2
    <3> QED BY <3>1, <3>3
  <2>2. CASE Resolve /\ decode.step = "ready"
    BY <2>2 DEF Resolve
  <2>3. CASE Decode(TRUE) \/ Decode(FALSE)
    <3>1. PICK v \in {NoImage, file.image} : decode' = [decode EXCEPT !.step = "ready", !.version = v]
      BY <2>3 DEF Decode
    <3>2. /\ image' = image /\ v \in Nat \cup {NoImage}
          /\ decode \in [step : {"none", "queued", "ready"}, generation : Nat,
                         version : Nat \cup {NoImage}]
      BY <2>3 DEF Decode, VisualInv, VisualTypeOK, Files
    <3> QED BY <3>1, <3>2
  <2> QED BY <2>1, <2>2, <2>3 DEF Resolve
<1>4. NoDecode \in [step : {"none", "queued", "ready"}, generation : Nat,
                    version : Nat \cup {NoImage}] /\ NoDecode.step = "none" /\ NoDecode.generation = 0
  BY DEF NoDecode
<1>5. VisualTypeOK'
  BY <1>1, <1>3, <1>4 DEF VisualInv, VisualTypeOK, Files
<1>6. ImagesOfPack'
  <2>1. generation \in Nat /\ file.image \in Nat /\ pack.imageTime <= file.image
    BY DEF VisualInv, VisualTypeOK, Files, TimesPast
  <2> QED BY <1>1, <1>3, <1>4, <2>1 DEF VisualInv, VisualTypeOK, Files, ImagesOfPack, OfPack
<1>7. NoChangeLost'
  BY <1>1, <1>2, <1>3, <1>4 DEF VisualInv, NoChangeLost
<1> QED BY <1>2, <1>5, <1>6, <1>7 DEF VisualInv

LEMMA ProbeKeeps ==
    ASSUME VisualInv, ProbeRuns
    PROVE  VisualInv'
<1>1. UNCHANGED <<file, pack, generation, image, decode, reload, missed>>
  BY DEF ProbeRuns
<1>2. /\ probe' \in [running : BOOLEAN, manifestTime : Nat, imageTime : Nat, requested : BOOLEAN]
      /\ probe'.manifestTime = file.manifest /\ probe'.imageTime = file.image
      /\ probe'.requested = (probe.requested \/ probe.manifestTime # file.manifest
                                             \/ probe.imageTime # file.image)
  BY DEF ProbeRuns, VisualInv, VisualTypeOK, Files
<1>3. VisualTypeOK' /\ ReloadOfPack' /\ ImagesOfPack' /\ ManifestKnown' /\ (Applies <=> Applies')
  BY <1>1, <1>2 DEF VisualInv, VisualTypeOK, Files, ReloadOfPack, ImagesOfPack, OfPack, ManifestKnown, Applies
<1>4. TimesPast'
  BY <1>1, <1>2, <1>3 DEF VisualInv, VisualTypeOK, Files, TimesPast
<1>5. ChangePending => ChangePending'
  BY <1>1, <1>2, <1>3 DEF ChangePending
<1> QED BY <1>1, <1>3, <1>4, <1>5 DEF VisualInv, NoChangeLost

LEMMA ReloadKeeps ==
    ASSUME VisualInv, ReloadTask
    PROVE  VisualInv'
<1>1. UNCHANGED <<file, pack, generation, image, decode, probe>>
  BY DEF ReloadTask, ReloadChecks, ReloadLoads, ReloadStamps, Reloads
<1>2. /\ VisualTypeOK' /\ reload'.base = reload.base
      /\ reload.step \in {"check", "load", "stamp"} /\ reload'.step \in {"load", "stamp", "done"}
      /\ reload'.step = "load" => reload.step = "check" /\ reload'.pack = reload.pack
  <2> DEFINE Reload == [step : {"none", "check", "load", "stamp", "done"}, base : Nat, from : Nat,
                        pack : [manifest : Nat, manifestTime : Nat, imageTime : Nat],
                        outcome : {"none", "same", "error", "changed"}]
  <2>1. reload \in Reload /\ file.manifest \in Nat /\ file.image \in Nat /\ missed \in BOOLEAN
        /\ file.good \in BOOLEAN
    BY DEF VisualInv, VisualTypeOK, Files
  <2>2. /\ reload' \in Reload /\ reload'.base = reload.base /\ missed' \in BOOLEAN
        /\ reload.step \in {"check", "load", "stamp"} /\ reload'.step \in {"load", "stamp", "done"}
        /\ reload'.step = "load" => reload.step = "check" /\ reload'.pack = reload.pack
    <3>1. CASE ReloadChecks
      BY <2>1, <3>1 DEF ReloadChecks, Reloads
    <3>2. CASE ReloadLoads
      BY <2>1, <3>2 DEF ReloadLoads, Reloads
    <3>3. CASE ReloadStamps
      <4>1. PICK p \in [manifest : Nat, manifestTime : Nat, imageTime : Nat] :
                p = [manifest |-> reload.from, manifestTime |-> file.manifest, imageTime |-> file.image]
        BY <2>1
      <4> QED BY <2>1, <3>3, <4>1 DEF ReloadStamps, Reloads
    <3> QED BY <3>1, <3>2, <3>3 DEF ReloadTask
  <2>3. VisualTypeOK'
    BY <1>1, <2>2 DEF VisualInv, VisualTypeOK, Files
  <2> QED BY <2>2, <2>3
<1>3. ReloadOfPack' /\ ImagesOfPack'
  <2>1. ReloadOfPack'
    BY <1>1, <1>2 DEF VisualInv, ReloadOfPack
  <2>2. ImagesOfPack'
    BY <1>1 DEF VisualInv, ImagesOfPack, OfPack
  <2> QED BY <2>1, <2>2
<1>4. CASE ReloadChecks /\ reload'.step = "load"
  <2>1. ~Applies /\ ~Applies' /\ ChangePending' /\ missed' = missed /\ reload.step = "check"
    BY <1>4 DEF ReloadChecks, Applies, ChangePending
  <2> QED BY <1>1, <1>2, <1>3, <1>4, <2>1 DEF VisualInv, TimesPast, ManifestKnown, NoChangeLost
<1>5. CASE ReloadChecks /\ reload'.step = "done"
  <2>1. /\ missed' = missed /\ reload.step = "check" /\ reload'.outcome = "same"
        /\ pack.manifestTime = file.manifest /\ pack.imageTime = file.image
    BY <1>5, <1>2 DEF ReloadChecks, Reloads, VisualInv, VisualTypeOK, Files, ReloadOfPack
  <2>2. ~Applies /\ ~Applies'
    BY <2>1 DEF Applies
  <2>3. missed \/ pack.manifest = file.manifest
    BY <2>1, <2>2 DEF VisualInv, ManifestKnown
  <2>4. OfPack(image) /\ (decode.step = "ready" /\ decode.generation = generation => OfPack(decode.version))
    BY DEF VisualInv, ImagesOfPack
  <2>5. \A v \in Nat \cup {NoImage} : OfPack(v) => v \in {NoImage, file.image}
    BY <2>1 DEF OfPack, VisualInv, VisualTypeOK, Files
  <2>6. NoChangeLost'
    BY <1>1, <2>1, <2>3, <2>4, <2>5 DEF NoChangeLost, VisualInv, VisualTypeOK, Files
  <2> QED BY <1>1, <1>2, <1>3, <1>5, <2>1, <2>2, <2>6 DEF VisualInv, TimesPast, ManifestKnown
<1>6. CASE ReloadLoads
  <2>1. /\ reload.step = "load"
        /\ file.good => reload'.step = "stamp" /\ reload'.from = file.manifest
        /\ ~file.good => /\ reload'.step = "done" /\ reload'.outcome = "error"
                         /\ missed' = missed
    BY <1>6 DEF ReloadLoads, Reloads, VisualInv, VisualTypeOK, Files
  <2>2. ~Applies /\ ~Applies'
    BY <2>1 DEF Applies
  <2>3. file.good => ChangePending'
    BY <2>1 DEF ChangePending
  <2>4. NoChangeLost'
    BY <1>1, <2>3 DEF NoChangeLost
  <2>5. ManifestKnown'
    BY <1>1, <2>1, <2>2 DEF VisualInv, VisualTypeOK, Files, ManifestKnown
  <2> QED BY <1>1, <1>2, <1>3, <2>2, <2>4, <2>5 DEF VisualInv, TimesPast
<1>7. CASE ReloadStamps
  <2>1. /\ reload.step = "stamp" /\ reload'.step = "done" /\ reload'.outcome = "changed"
        /\ reload'.pack = [manifest |-> reload.from, manifestTime |-> file.manifest,
                           imageTime |-> file.image]
        /\ missed' = missed
    BY <1>7 DEF ReloadStamps, Reloads, VisualInv, VisualTypeOK, Files
  <2>2. ~Applies /\ Applies'
    BY <1>1, <1>2, <2>1 DEF Applies, VisualInv, ReloadOfPack
  <2>3. NoChangeLost'
    BY <2>2 DEF NoChangeLost, ChangePending
  <2>4. ManifestKnown'
    BY <1>1, <2>1, <2>2 DEF VisualInv, ManifestKnown
  <2>5. TimesPast'
    BY <1>1, <2>1 DEF VisualInv, VisualTypeOK, Files, TimesPast
  <2> QED BY <1>2, <1>3, <2>3, <2>4, <2>5 DEF VisualInv
<1>8. ReloadChecks => reload'.step \in {"load", "done"}
  BY DEF ReloadChecks, Reloads, VisualInv, VisualTypeOK, Files
<1> QED BY <1>4, <1>5, <1>6, <1>7, <1>8 DEF ReloadTask

\* Of the files their author saves while the program runs none is overlooked, whatever
\* the probe, the reload and the decodes interleave with: once nothing is under way, the
\* image and the manifest in use are the ones in the files, but for a manifest saved
\* inside a reload (emulator.cpp pollVisualPackReload; VisualOverrideService.cpp
\* pollBackgroundWork, loadPng).
THEOREM NothingOverlooked == VisualSpec => []NoChangeLost
<1>1. VisualInit => VisualInv
  <2> SUFFICES ASSUME VisualInit PROVE VisualInv
    OBVIOUS
  <2>1. VisualTypeOK
    BY DEF VisualInit, VisualTypeOK, Files, NoDecode, NoReload
  <2>2. TimesPast /\ ImagesOfPack /\ ReloadOfPack /\ ManifestKnown
    BY DEF VisualInit, TimesPast, ImagesOfPack, OfPack, ReloadOfPack, ManifestKnown,
           Applies, NoDecode, NoReload
  <2>3. NoChangeLost
    BY DEF VisualInit, NoChangeLost, NoDecode
  <2> QED BY <2>1, <2>2, <2>3 DEF VisualInv
<1>2. VisualInv /\ [VisualNext]_visualVars => VisualInv'
  <2> SUFFICES ASSUME VisualInv, [VisualNext]_visualVars PROVE VisualInv'
    OBVIOUS
  <2>1. CASE EditImage \/ EditManifest
    BY <2>1, EditKeeps
  <2>2. CASE \E probed, accepted \in BOOLEAN : PollVisualPackReload(probed, accepted)
    BY <2>2, PollKeeps
  <2>3. CASE Resolve \/ \E fails \in BOOLEAN : Decode(fails)
    BY <2>3, DecodesKeep
  <2>4. CASE ProbeRuns \/ ReloadTask
    BY <2>4, ProbeKeeps, ReloadKeeps
  <2>5. CASE UNCHANGED visualVars
    <3>1. UNCHANGED <<file, pack, generation, image, decode, reload, probe, missed>>
      BY <2>5 DEF visualVars
    <3>2. VisualTypeOK' /\ ImagesOfPack' /\ ReloadOfPack'
      BY <3>1 DEF VisualInv, VisualTypeOK, Files, ImagesOfPack, OfPack, ReloadOfPack
    <3>3. (Applies <=> Applies') /\ (ChangePending <=> ChangePending')
      BY <3>1 DEF Applies, ChangePending
    <3> QED BY <3>1, <3>2, <3>3 DEF VisualInv, TimesPast, ManifestKnown, NoChangeLost
  <2> QED BY <2>1, <2>2, <2>3, <2>4, <2>5 DEF VisualNext
<1>3. VisualInv => NoChangeLost
  BY DEF VisualInv
<1> QED BY <1>1, <1>2, <1>3, PTL DEF VisualSpec
=============================================================================
