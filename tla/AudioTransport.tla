--------------------------- MODULE AudioTransport ---------------------------
(***************************************************************************)
(* machine/AudioService.hpp with plugins/AudioEngine.hpp behind it and     *)
(* plugins/audio_output/DummyAudioOutput.cpp in front of it: PCM travels   *)
(*                                                                         *)
(*   control lane --source ring--> worker: engine --ready ring--> device   *)
(*                                                                         *)
(* The control lane is the emulation thread, which emits PCM and runs the  *)
(* lifecycle transitions (the main thread opens and closes the device      *)
(* before that thread starts and after it is joined).  The worker is       *)
(* outputTransportWorkerLoop, the device thread the backend's run loop     *)
(* with the lock-free drainReadyOutput.                                    *)
(*                                                                         *)
(* The unit of PCM is one callback's worth, its content the session (the   *)
(* loaded ROM or restored state) it was played in.  A frame counter is     *)
(* abstracted to the range it lies in: only "went backwards" matters.      *)
(* Resampling, the processor pipeline and statistics are left out.         *)
(***************************************************************************)
EXTENDS Integers, Sequences

CONSTANTS
  ReadyChunks,     \* readyQueueChunks: usable blocks of the ready ring
  SourceCapacity,  \* sourceBlocks_.size() - 1
  EngineCapacity,  \* the engine's ring, in blocks
  FrameRanges,     \* where a session's frame counters may lie
  MaxOpens,        \* bound: calls of open
  MaxTransitions   \* bound: lifecycle transitions and stream resets

ASSUME TransportAssumption ==
  /\ ReadyChunks \in Nat \ {0} /\ SourceCapacity \in Nat \ {0}
  /\ EngineCapacity \in Nat \ {0}
  /\ FrameRanges \subseteq Nat \ {0} /\ FrameRanges # {}
  /\ MaxOpens \in Nat /\ MaxTransitions \in Nat

VARIABLES
  epoch,           \* transportEpoch_
  paused,          \* backendPausedOrClosed_
  running,         \* outputTransportRunning_
  stopRequested,   \* outputTransportStopRequested_
  primed,          \* transportPrimedForDrain_
  ready,           \* readyBlocks_: [session, epoch] or NoBlock
  readIndex, writeIndex, \* readyReadIndex_, readyWriteIndex_
  drainState,      \* readyDrainState_: [active, suspended]
  productionMutex, \* the holder of outputProductionMutex_
  source,          \* sourceBlocks_ between its indices: [session, frame, epoch]
  engine,          \* AudioEngine: [ring, pendingReset, deferred, last]
  worker,          \* [pc, left, session, depth]: where outputTransportWorkerLoop is
  backendRunning,  \* running_ of the backend
  device,          \* [pc, started, heard]: where the backend's run loop is, and the
                   \* session of the last block it copied
  control,         \* [pc, next]: where the control lane is
  session, frame,  \* history: what the machine plays, where its frame counters lie
  opens, transitions \* history: calls made, for the bounds

transport == <<epoch, paused, running, stopRequested, primed>>
ring      == <<ready, readIndex, writeIndex>>
history   == <<session, frame, opens, transitions>>
vars == <<transport, ring, drainState, productionMutex, source, engine, worker,
          backendRunning, device, control, history>>

\* A slot without a published block: being written, or already given back.
NoBlock == [session |-> 0, epoch |-> 0]
Indices == 0 .. ReadyChunks
NoSession == 0

nextReadyIndex(i) == (i + 1) % (ReadyChunks + 1)

\* readyQueueDepth
Depth == (writeIndex - readIndex) % (ReadyChunks + 1)

\* prefillTargetChunks
Target == IF ReadyChunks < 2 THEN ReadyChunks ELSE 2

FreshEngine == [ring |-> <<>>, pendingReset |-> FALSE, deferred |-> NoSession, last |-> 0]

Worker(pc) == [pc |-> pc, left |-> 0, session |-> NoSession, depth |-> 0]

Init ==
  /\ epoch = 1 /\ paused = TRUE /\ running = FALSE /\ stopRequested = FALSE
  /\ primed = FALSE
  /\ ready = [i \in Indices |-> NoBlock] /\ readIndex = 0 /\ writeIndex = 0
  /\ drainState = [active |-> FALSE, suspended |-> FALSE]
  /\ productionMutex = "free"
  /\ source = <<>> /\ engine = FreshEngine
  /\ worker = Worker("none")
  /\ backendRunning = FALSE
  /\ device = [pc |-> "none", started |-> FALSE, heard |-> NoSession]
  /\ control = [pc |-> "idle", next |-> "idle"]
  /\ session = 1 /\ frame \in FrameRanges
  /\ opens = 0 /\ transitions = 0

-----------------------------------------------------------------------------
(* The control lane: PCM *)

\* submitSourceBlock: stamped with the epoch, rejected when the ring is full.
SubmitSourceBlock ==
  /\ control.pc = "idle" /\ Len(source) < SourceCapacity
  /\ source' = Append(source, [session |-> session, frame |-> frame, epoch |-> epoch])
  /\ UNCHANGED <<transport, ring, drainState, productionMutex, engine, worker,
                 backendRunning, device, control, history>>

-----------------------------------------------------------------------------
(* The control lane: epochs and lifecycle transitions *)

\* bumpTransportEpochLocked: the epoch moves on and draining is suspended.
BumpEpoch ==
  /\ control.pc = "bump" /\ productionMutex = "free"
  /\ productionMutex' = "control"
  /\ epoch' = epoch + 1
  /\ drainState' = [drainState EXCEPT !.suspended = TRUE]
  /\ control' = [control EXCEPT !.pc = "clear"]
  /\ UNCHANGED <<paused, running, stopRequested, primed, ring, source, engine, worker,
                 backendRunning, device, history>>

EmptyReadyRing ==
  /\ primed' = FALSE /\ readIndex' = 0 /\ writeIndex' = 0
  /\ ready' = [i \in Indices |-> NoBlock]

\* Mutant: the rings are cleared without waiting for a drain under way.
ClearReadyQueue_NoWait ==
  /\ control.pc = "clear"
  /\ EmptyReadyRing
  /\ drainState' = [active |-> FALSE, suspended |-> FALSE]
  /\ source' = <<>> /\ productionMutex' = "free"
  /\ control' = [pc |-> control.next, next |-> "idle"]
  /\ UNCHANGED <<epoch, paused, running, stopRequested, engine, worker, backendRunning,
                 device, history>>

\* Mutant: only the source ring is emptied.
ClearReadyQueue_KeepsBlocks ==
  /\ control.pc = "clear" /\ ~drainState.active
  /\ drainState' = [active |-> FALSE, suspended |-> FALSE]
  /\ source' = <<>> /\ productionMutex' = "free"
  /\ control' = [pc |-> control.next, next |-> "idle"]
  /\ UNCHANGED <<epoch, paused, running, stopRequested, primed, ring, engine, worker,
                 backendRunning, device, history>>

\* clearReadyQueue waits for a drain under way; then the source ring is skipped.
ClearReadyQueue ==
  /\ control.pc = "clear" /\ ~drainState.active
  /\ EmptyReadyRing
  /\ drainState' = [active |-> FALSE, suspended |-> FALSE]
  /\ source' = <<>> /\ productionMutex' = "free"
  /\ control' = [pc |-> control.next, next |-> "idle"]
  /\ UNCHANGED <<epoch, paused, running, stopRequested, engine, worker, backendRunning,
                 device, history>>

\* runTransition pauses the lane: setBackendPausedOrClosed(true).
PauseLane ==
  /\ control.pc = "idle" /\ transitions < MaxTransitions
  /\ transitions' = transitions + 1
  /\ paused' = TRUE
  /\ control' = [pc |-> "bump", next |-> "mutate"]
  /\ UNCHANGED <<epoch, running, stopRequested, primed, ring, drainState, productionMutex,
                 source, engine, worker, backendRunning, device, session, frame, opens>>

\* The mutation starts a new session or fails; bumpLifecycleEpochBarrier follows.
Mutate ==
  /\ control.pc = "mutate"
  /\ \/ UNCHANGED <<session, frame>>
     \/ session' = session + 1 /\ frame' \in FrameRanges
  /\ control' = [pc |-> "bump", next |-> "resume"]
  /\ UNCHANGED <<transport, ring, drainState, productionMutex, source, engine, worker,
                 backendRunning, device, opens, transitions>>

\* resumeLanesLocked: setBackendDrainActive(false).
ResumeLane ==
  /\ control.pc = "resume"
  /\ paused' = TRUE
  /\ control' = [control EXCEPT !.pc = "idle"]
  /\ UNCHANGED <<epoch, running, stopRequested, primed, ring, drainState, productionMutex,
                 source, engine, worker, backendRunning, device, history>>

canPerformReset == paused /\ ~running

\* resetStream, refused unless canPerformReset().
ResetStream ==
  /\ control.pc = "idle" /\ canPerformReset
  /\ transitions < MaxTransitions /\ transitions' = transitions + 1
  /\ engine' = FreshEngine
  /\ epoch' = epoch + 1
  /\ EmptyReadyRing /\ source' = <<>>
  /\ UNCHANGED <<paused, running, stopRequested, drainState, productionMutex, worker,
                 backendRunning, device, control, session, frame, opens>>

-----------------------------------------------------------------------------
(* The worker *)

\* AudioEngine::appendRecentPcm: a frame counter that went back defers a reset, and
\* what arrives until the reset has happened replaces the deferred chunk.
appendRecentPcm(e, block) ==
  IF block.frame < e.last \/ e.pendingReset
  THEN [e EXCEPT !.pendingReset = TRUE, !.deferred = block.session, !.last = block.frame]
  ELSE [e EXCEPT !.ring = IF Len(@) < EngineCapacity THEN Append(@, block.session) ELSE @,
                 !.last = block.frame]

\* Mutant: the ring is not flushed when the deferred chunk is published.
Flushed_KeepsRing(e) ==
  IF e.pendingReset
  THEN [e EXCEPT !.ring = <<e.deferred>> \o @, !.pendingReset = FALSE, !.deferred = NoSession]
  ELSE e

\* AudioEngine::render: a pending reset flushes the ring and publishes the deferred
\* chunk; then one block is consumed.
Flushed(e) ==
  IF e.pendingReset
  THEN [e EXCEPT !.ring = <<e.deferred>>, !.pendingReset = FALSE, !.deferred = NoSession]
  ELSE e

\* outputTransportWorkerLoop wakes, notified or timed out: it exits, finds the
\* target depth reached, or starts producing.
WorkerWake ==
  /\ worker.pc = "wait"
  /\ stopRequested \/ Depth < Target
  /\ worker' = Worker(IF stopRequested THEN "exited" ELSE "produce")
  /\ UNCHANGED <<transport, ring, drainState, productionMutex, source, engine,
                 backendRunning, device, control, history>>

\* produceReadyOutputBlock begins, unless a stop was requested.
ProduceBegin ==
  /\ worker.pc = "produce"
  /\ IF stopRequested
     THEN worker' = Worker("wait") /\ UNCHANGED productionMutex
     ELSE /\ productionMutex = "free" /\ productionMutex' = "worker"
          /\ worker' = [Worker("drain") EXCEPT !.left = Len(source)]
  /\ UNCHANGED <<transport, ring, drainState, source, engine, backendRunning, device,
                 control, history>>

\* drainSourceBlocks: each block present goes to the engine, unless it is stale.
DrainSourceBlock ==
  /\ worker.pc = "drain" /\ worker.left > 0
  /\ source' = Tail(source)
  /\ worker' = [worker EXCEPT !.left = @ - 1]
  /\ engine' = IF Head(source).epoch = epoch THEN appendRecentPcm(engine, Head(source))
               ELSE engine
  /\ UNCHANGED <<transport, ring, drainState, productionMutex, backendRunning, device,
                 control, history>>

\* Too little source, or no room in the ready ring: nothing is produced.
ProduceNothing ==
  /\ worker.pc = "drain" /\ worker.left = 0
  /\ engine.ring = <<>> \/ nextReadyIndex(writeIndex) = readIndex
  /\ worker' = Worker("wait") /\ productionMutex' = "free"
  /\ UNCHANGED <<transport, ring, drainState, source, engine, backendRunning, device,
                 control, history>>

\* A block is rendered and written into its slot.
RenderBlock ==
  /\ worker.pc = "drain" /\ worker.left = 0
  /\ engine.ring # <<>> /\ nextReadyIndex(writeIndex) # readIndex
  /\ LET e == Flushed(engine) IN
     /\ engine' = [e EXCEPT !.ring = Tail(@)]
     /\ worker' = [Worker("publish") EXCEPT !.session = Head(e.ring)]
  /\ ready' = [ready EXCEPT ![writeIndex] = NoBlock]
  /\ UNCHANGED <<transport, readIndex, writeIndex, drainState, productionMutex, source,
                 backendRunning, device, control, history>>

PublishBlock ==
  /\ worker.pc = "publish"
  /\ ready' = [ready EXCEPT ![writeIndex] = [session |-> worker.session, epoch |-> epoch]]
  /\ writeIndex' = nextReadyIndex(writeIndex)
  /\ worker' = Worker("depth")
  /\ UNCHANGED <<transport, readIndex, drainState, productionMutex, source, engine,
                 backendRunning, device, control, history>>

LoadDepth ==
  /\ worker.pc = "depth"
  /\ worker' = [Worker("prime") EXCEPT !.depth = Depth]
  /\ UNCHANGED <<transport, ring, drainState, productionMutex, source, engine,
                 backendRunning, device, control, history>>

\* maybeMarkTransportPrimed: compare_exchange(false, true) at the target depth.
MaybeMarkTransportPrimed ==
  /\ worker.pc = "prime"
  /\ primed' = (primed \/ worker.depth >= Target)
  /\ worker' = Worker("produce") /\ productionMutex' = "free"
  /\ UNCHANGED <<epoch, paused, running, stopRequested, ring, drainState, source, engine,
                 backendRunning, device, control, history>>

-----------------------------------------------------------------------------
(* The device thread: DummyAudioOutput's run, with drainReadyOutput inlined *)

deviceFrame == <<epoch, running, stopRequested, writeIndex, productionMutex, source, engine,
                 worker, backendRunning, control, history>>

DeviceGoTo(pc) == device' = [device EXCEPT !.pc = pc]

\* The loop condition and the poll of primedForDrain().
PollPrimed ==
  /\ device.pc = "poll"
  /\ DeviceGoTo(IF ~backendRunning THEN "ended"
                ELSE IF primed THEN (IF device.started THEN "enter" ELSE "gateOn")
                ELSE (IF device.started THEN "gateOff" ELSE "poll"))
  /\ UNCHANGED <<deviceFrame, paused, primed, ready, readIndex, drainState>>

\* setBackendDrainActive, on the first and on the last drain of a run of drains.
GateDrain ==
  /\ device.pc \in {"gateOn", "gateOff"}
  /\ paused' = (device.pc = "gateOff")
  /\ device' = [device EXCEPT !.pc = IF @ = "gateOn" THEN "enter" ELSE "poll",
                              !.started = (device.pc = "gateOn")]
  /\ UNCHANGED <<deviceFrame, primed, ready, readIndex, drainState>>

\* ReadyDrainScope: entered unless a reset suspends draining.
EnterDrain ==
  /\ device.pc = "enter"
  /\ IF drainState = [active |-> FALSE, suspended |-> FALSE]
     THEN drainState' = [drainState EXCEPT !.active = TRUE] /\ DeviceGoTo("checkPrimed")
     ELSE UNCHANGED drainState /\ DeviceGoTo("poll")
  /\ UNCHANGED <<deviceFrame, paused, primed, ready, readIndex>>

CheckPrimed ==
  /\ device.pc = "checkPrimed"
  /\ DeviceGoTo(IF primed THEN "checkIndex" ELSE "leave")
  /\ UNCHANGED <<deviceFrame, paused, primed, ready, readIndex, drainState>>

CheckIndex ==
  /\ device.pc = "checkIndex"
  /\ DeviceGoTo(IF readIndex = writeIndex THEN "underrun" ELSE "copy")
  /\ UNCHANGED <<deviceFrame, paused, primed, ready, readIndex, drainState>>

\* The ring was empty: silence, and the prefill has to be rebuilt.
Underrun ==
  /\ device.pc = "underrun"
  /\ primed' = FALSE
  /\ DeviceGoTo("leave")
  /\ UNCHANGED <<deviceFrame, paused, ready, readIndex, drainState>>

\* The block is copied out and its slot given back.
CopyBlock ==
  /\ device.pc = "copy"
  /\ device' = [device EXCEPT !.pc = "copied", !.heard = ready[readIndex].session]
  /\ ready' = [ready EXCEPT ![readIndex] = NoBlock]
  /\ readIndex' = nextReadyIndex(readIndex)
  /\ UNCHANGED <<deviceFrame, paused, primed, drainState>>

LeaveDrain ==
  /\ device.pc \in {"leave", "copied"}
  /\ drainState' = [drainState EXCEPT !.active = FALSE]
  /\ DeviceGoTo("poll")
  /\ UNCHANGED <<deviceFrame, paused, primed, ready, readIndex>>

-----------------------------------------------------------------------------
(* open and close of the device, by the control lane *)

\* open: configureOutputTransport and startOutputTransport each move the epoch on;
\* what the engine still holds becomes the first ready block.
OpenDevice ==
  /\ control.pc = "idle" /\ device.pc = "none" /\ opens < MaxOpens
  /\ opens' = opens + 1
  /\ epoch' = epoch + 3
  /\ paused' = TRUE /\ running' = TRUE /\ stopRequested' = FALSE
  /\ readIndex' = 0 /\ source' = <<>>
  /\ LET e == Flushed(engine) IN
     IF engine.ring = <<>>
     THEN /\ ready' = [i \in Indices |-> NoBlock] /\ writeIndex' = 0
          /\ primed' = FALSE /\ UNCHANGED engine
     ELSE /\ ready' = [i \in Indices |-> IF i = 0 THEN [session |-> Head(e.ring), epoch |-> epoch']
                                         ELSE NoBlock]
          /\ writeIndex' = 1 /\ primed' = (Target = 1)
          /\ engine' = [e EXCEPT !.ring = Tail(@)]
  /\ worker' = Worker("wait")
  /\ backendRunning' = TRUE
  /\ device' = [device EXCEPT !.pc = "poll", !.started = FALSE]
  /\ UNCHANGED <<drainState, productionMutex, control, session, frame, transitions>>

\* close: running_ falls and the device thread is joined ...
CloseDevice ==
  /\ control.pc = "idle" /\ backendRunning
  /\ backendRunning' = FALSE
  /\ control' = [pc |-> "joinDevice", next |-> "idle"]
  /\ UNCHANGED <<transport, ring, drainState, productionMutex, source, engine, worker,
                 device, history>>

\* ... then stopOutputTransport asks the worker to stop ...
RequestStop ==
  /\ control.pc = "joinDevice" /\ device.pc = "ended"
  /\ stopRequested' = TRUE
  /\ DeviceGoTo("none")
  /\ control' = [control EXCEPT !.pc = "joinWorker"]
  /\ UNCHANGED <<epoch, paused, running, primed, ring, drainState, productionMutex, source,
                 engine, worker, backendRunning, history>>

\* Mutant: the worker is not joined.
StopTransport_NoJoin ==
  /\ control.pc = "joinWorker"
  /\ running' = FALSE /\ EmptyReadyRing
  /\ paused' = TRUE
  /\ control' = [pc |-> "bump", next |-> "idle"]
  /\ UNCHANGED <<epoch, stopRequested, drainState, productionMutex, source, engine, worker,
                 backendRunning, device, history>>

\* ... joins it, clears the ready ring and marks the backend closed.
StopTransport ==
  /\ control.pc = "joinWorker" /\ worker.pc = "exited"
  /\ running' = FALSE /\ EmptyReadyRing
  /\ worker' = Worker("none")
  /\ paused' = TRUE
  /\ control' = [pc |-> "bump", next |-> "idle"]
  /\ UNCHANGED <<epoch, stopRequested, drainState, productionMutex, source, engine,
                 backendRunning, device, history>>

-----------------------------------------------------------------------------
ControlStep == BumpEpoch \/ ClearReadyQueue \/ Mutate \/ ResumeLane \/ RequestStop \/ StopTransport
ControlCall == SubmitSourceBlock \/ PauseLane \/ ResetStream \/ OpenDevice \/ CloseDevice
WorkerNext  == \/ WorkerWake \/ ProduceBegin \/ DrainSourceBlock \/ ProduceNothing
               \/ RenderBlock \/ PublishBlock \/ LoadDepth \/ MaybeMarkTransportPrimed
DeviceNext  == \/ PollPrimed \/ GateDrain \/ EnterDrain \/ CheckPrimed \/ CheckIndex
               \/ Underrun \/ CopyBlock \/ LeaveDrain

Next == ControlStep \/ ControlCall \/ WorkerNext \/ DeviceNext

Spec == Init /\ [][Next]_vars

(* The threads run: the worker's wait and the device's sleep have deadlines, *)
(* a transition or a close that has begun goes on, and the machine keeps     *)
(* emitting PCM.  The worker sleeps between its uses of the production mutex, *)
(* so the control lane gets it in the end.  Nothing else is called by        *)
(* fairness.                                                                 *)
Fairness ==
  /\ WF_vars(WorkerNext) /\ WF_vars(DeviceNext) /\ WF_vars(ControlStep)
  /\ WF_vars(SubmitSourceBlock) /\ SF_vars(BumpEpoch)

FairSpec == Spec /\ Fairness

-----------------------------------------------------------------------------
(* Properties *)

Block == [session : Nat, epoch : Nat]

\* Every variable keeps its range; in particular both ring indices do.
TypeOK ==
  /\ epoch \in Nat /\ paused \in BOOLEAN /\ running \in BOOLEAN
  /\ stopRequested \in BOOLEAN /\ primed \in BOOLEAN /\ backendRunning \in BOOLEAN
  /\ ready \in [Indices -> Block] /\ readIndex \in Indices /\ writeIndex \in Indices
  /\ drainState \in [active : BOOLEAN, suspended : BOOLEAN]
  /\ productionMutex \in {"free", "worker", "control"}
  /\ source \in Seq([session : Nat, frame : FrameRanges, epoch : Nat])
  /\ engine \in [ring : Seq(Nat), pendingReset : BOOLEAN, deferred : Nat, last : Nat]
  /\ worker \in [pc : {"none", "wait", "produce", "drain", "publish", "depth", "prime", "exited"},
                 left : Nat, session : Nat, depth : Indices]
  /\ device \in [pc : {"none", "poll", "gateOn", "gateOff", "enter", "checkPrimed",
                       "checkIndex", "underrun", "copy", "copied", "leave", "ended"},
                 started : BOOLEAN, heard : Nat]
  /\ control \in [pc : {"idle", "bump", "clear", "mutate", "resume", "joinDevice", "joinWorker"},
                  next : {"idle", "mutate", "resume"}]
  /\ session \in Nat /\ frame \in FrameRanges
  /\ opens \in Nat /\ transitions \in Nat

\* The device thread, which takes no lock, copies from a slot the worker has
\* published and is not writing, although resets put both indices back to zero.
NoTornCopy ==
  device.pc = "copy" =>
    /\ readIndex # writeIndex
    /\ ready[readIndex] # NoBlock

\* drainReadyOutput does not look at epochs; it need not, for the ready ring holds no
\* block rendered before the last epoch change once draining is let in again.
OnlyCurrentEpochHeard ==
  device.pc = "copy" => ready[readIndex].epoch = epoch \/ drainState.suspended

\* The device thread copies whole blocks of the current epoch only.
HeardRight == NoTornCopy /\ OnlyCurrentEpochHeard

\* canPerformReset() tells the truth: when it says so, neither the worker nor the
\* device thread is at work on the rings.
ResetIsSafe ==
  canPerformReset => worker.pc \in {"none", "exited"} /\ device.pc \in {"none", "ended"}

\* Old PCM never comes back: once a block of a session has been heard, none of an
\* earlier session is, whatever was left in the engine or deferred in it.
SessionsInOrder == [][device'.heard >= device.heard]_vars

\* Transitions and closing come back although they wait for the device thread, the
\* worker and the production mutex.
ControlReturns == control.pc # "idle" ~> control.pc = "idle"

\* Violated: what the device thread hands out belongs to the session the machine is
\* in, once the transition that began it is over.
NoStaleOutput ==
  (device.pc = "copied" /\ control.pc = "idle") => device.heard = session

\* Violated: a deferred reset is observed when the next block is rendered.
DeferredResetHappens == engine.pendingReset ~> ~engine.pendingReset

\* Violated: after start and after an underrun the prefill margin is rebuilt and
\* draining goes on, as long as the machine emits PCM.
PrefillRebuilt == (backendRunning /\ ~primed) ~> (primed \/ ~backendRunning)
=============================================================================
