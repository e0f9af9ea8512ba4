----------------------------- MODULE TimingLane -----------------------------
(***************************************************************************)
(* Pacing of the machine lane: the frontend's thread changes the control   *)
(* state in TimingService (pause, throttle, single step) while the lane,   *)
(* at the top of each round, takes a snapshot of it into the TimingEngine  *)
(* it owns, adds the cycles the elapsed time is worth, and runs            *)
(* instructions while the engine allows one more.                          *)
(*                                                                         *)
(* Time is what a round has gained in cycles; the speed multiplier scales  *)
(* it and nothing else, so any member of Gains stands for any speed.       *)
(***************************************************************************)
EXTENDS Integers, FiniteSetsExt

CONSTANTS
    MinInstructionCycles,
    Costs,              \* cycles an instruction may take
    Gains,              \* cycles a round may gain
    MaxBudget,          \* cycles of the catch-up window
    SliceCycles,        \* cycles of an execution slice
    MaxCyclesPerWake,
    MaxExecutionSlicesPerWake,
    MaxControls         \* bound: what the user does

\* What sanitizeTimingConfig makes of the configuration, in whole cycles.
ASSUME TimingAssumption ==
    /\ MinInstructionCycles \in Nat \ {0}
    /\ IsFiniteSet(Costs) /\ Costs # {} /\ Costs \subseteq Nat
    /\ IsFiniteSet(Gains) /\ Gains \subseteq Nat
    /\ MaxBudget \in Nat /\ MaxBudget >= MinInstructionCycles
    /\ SliceCycles \in Nat /\ SliceCycles >= MinInstructionCycles
    /\ MaxCyclesPerWake \in Nat \ {0} /\ MaxExecutionSlicesPerWake \in Nat \ {0}
    /\ MaxControls \in Nat

VARIABLES
    control,    \* the service's control_: paused, throttled, step
    engine,     \* the lane's engine: its control_, the cycle budget and the
                \* cycles of the present slice
    round,      \* where the lane is; slices and cycles of this wake; whether
                \* the boot entry is still pending
    asked,      \* history: controls so far, single steps among them
    stepped,    \* history: instructions run in rounds that began paused
    unpaused    \* history: cycles run since the last pause without a step

timingVars == <<control, engine, round, asked, stepped, unpaused>>

TimingInit ==
    /\ control \in [paused : BOOLEAN, throttled : BOOLEAN, step : {FALSE}]
    /\ engine = [paused |-> FALSE, throttled |-> control.throttled, step |-> FALSE,
                 budget |-> 0, slice |-> 0]
    /\ round = [at |-> "top", slices |-> 0, cycles |-> 0, booting |-> TRUE]
    /\ asked = [controls |-> 0, steps |-> 0] /\ stepped = 0 /\ unpaused = 0

Charged(cost) == Max({MinInstructionCycles, cost})

CanExecute ==
    IF engine.paused THEN engine.step
    ELSE ~engine.throttled \/ engine.budget >= MinInstructionCycles

-----------------------------------------------------------------------------
(* The frontend's thread: handleControl.                                   *)

Controls ==
    /\ asked.controls < MaxControls
    /\ UNCHANGED <<engine, round, stepped>>

TogglePause ==
    /\ Controls
    /\ control' = [control EXCEPT !.paused = ~@]
    /\ asked' = [asked EXCEPT !.controls = @ + 1]
    /\ unpaused' = 0

ToggleThrottle ==
    /\ Controls
    /\ control' = [control EXCEPT !.throttled = ~@]
    /\ asked' = [asked EXCEPT !.controls = @ + 1]
    /\ UNCHANGED unpaused

RequestSingleStep ==
    /\ Controls
    /\ control' = [control EXCEPT !.step = TRUE]
    /\ asked' = [controls |-> asked.controls + 1, steps |-> asked.steps + 1]
    /\ UNCHANGED unpaused

-----------------------------------------------------------------------------
(* The lane.                                                               *)

\* Mutant: the snapshot leaves the request where it was.
TakeControlSnapshot_KeepsRequest == UNCHANGED control

\* takeControlSnapshot: a request is handed over once.
TakeControlSnapshot == control' = [control EXCEPT !.step = FALSE]

\* update: a paused engine gains nothing; what exceeds the catch-up window is
\* discarded.
Updated(gain) ==
    IF control.paused THEN engine.budget ELSE Min({engine.budget + gain, MaxBudget})

\* The top of a round, up to the loop that executes.
BeginRound(gain) ==
    /\ round.at = "top"
    /\ TakeControlSnapshot
    /\ engine' = [paused |-> control.paused, throttled |-> control.throttled,
                  step |-> control.step, budget |-> Updated(gain), slice |-> engine.slice]
    /\ round' = [round EXCEPT !.at = "executing", !.slices = 0, !.cycles = 0]
    /\ UNCHANGED <<asked, stepped, unpaused>>

WithinWake == round.cycles < MaxCyclesPerWake

\* The first slice of a wake is begun before anything runs; no other ever is.
BeginExecutionSlice ==
    /\ round.at = "executing" /\ round.slices = 0 /\ CanExecute
    /\ engine' = [engine EXCEPT !.slice = 0]
    /\ round' = [round EXCEPT !.slices = 1]
    /\ UNCHANGED <<control, asked, stepped, unpaused>>

\* retireInstruction: the engine is charged, and a step that was granted is
\* spent; a complete slice ends the wake.
RetireInstruction(cost) ==
    LET charged == Charged(cost)
        left == engine.budget - charged
        slice == engine.slice + charged IN
    /\ round.at = "executing" /\ round.slices > 0 /\ ~round.booting
    /\ CanExecute /\ WithinWake
    /\ engine' = [engine EXCEPT
                     !.budget = IF engine.paused \/ ~engine.throttled THEN Max({0, left}) ELSE left,
                     !.step = IF engine.paused THEN FALSE ELSE @,
                     !.slice = slice]
    /\ round' = [round EXCEPT !.cycles = @ + charged,
                            !.at = IF slice >= SliceCycles THEN "idle" ELSE @]
    /\ stepped' = IF engine.paused THEN stepped + 1 ELSE stepped
    /\ unpaused' = IF control.paused /\ ~engine.paused THEN unpaused + charged ELSE unpaused
    /\ UNCHANGED <<control, asked>>

\* The slice that enters the program retires nothing, and ends the wake.
BootEntry ==
    /\ round.at = "executing" /\ round.slices > 0 /\ round.booting
    /\ round' = [round EXCEPT !.at = "idle", !.booting = FALSE]
    /\ UNCHANGED <<control, engine, asked, stepped, unpaused>>

\* The limits of a wake; the number of slices is looked at when the machine
\* has returned from one, which it may do after any instruction.
EndBurst ==
    /\ round.at = "executing"
    /\ ~CanExecute \/ ~WithinWake \/ round.slices >= MaxExecutionSlicesPerWake
    /\ round' = [round EXCEPT !.at = "idle"]
    /\ UNCHANGED <<control, engine, asked, stepped, unpaused>>

\* The rest of the round: statistics are published and the lane sleeps.
EndRound ==
    /\ round.at = "idle"
    /\ round' = [round EXCEPT !.at = "top"]
    /\ UNCHANGED <<control, engine, asked, stepped, unpaused>>

\* stopRequested, seen between two instructions or two rounds.
StopLane ==
    /\ round.at # "over" /\ round' = [round EXCEPT !.at = "over"]
    /\ UNCHANGED <<control, engine, asked, stepped, unpaused>>

TimingNext ==
    \/ TogglePause \/ ToggleThrottle \/ RequestSingleStep
    \/ \E gain \in Gains : BeginRound(gain)
    \/ BeginExecutionSlice
    \/ \E cost \in Costs : RetireInstruction(cost)
    \/ BootEntry \/ EndBurst \/ EndRound \/ StopLane

TimingSpec == TimingInit /\ [][TimingNext]_timingVars

-----------------------------------------------------------------------------
\* A pause holds whatever the lane was doing when it came: what still runs is
\* the rest of the wake that began before it, one slice and the overshoot of
\* its last instruction at most, and after that one instruction for each
\* single step the user has asked for, requests made between two rounds
\* counting as one; the budget never exceeds the catch-up window, nor sinks
\* below what one instruction can owe.
PauseHolds ==
    LET overshoot == Charged(Max(Costs)) - 1 IN
    /\ stepped <= asked.steps
    /\ unpaused <= Min({SliceCycles, MaxCyclesPerWake}) + overshoot
    /\ engine.budget <= MaxBudget
    /\ engine.budget >= MinInstructionCycles - Charged(Max(Costs))
=============================================================================
