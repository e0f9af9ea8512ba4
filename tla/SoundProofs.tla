----------------------------- MODULE SoundProofs -----------------------------
(***************************************************************************)
(* Proofs about the sound.  Its transport (AudioTransport): the device     *)
(* copies whole blocks of the present epoch, a reset finds nobody at work, *)
(* and old PCM never comes back, for rings of any size, any number of      *)
(* opens and transitions, and any frame counters.  The chips (SoundChips): *)
(* the notes follow the voices, and packets follow on each other, for any  *)
(* of their voices, chunks of any size and runs of any length.             *)
(***************************************************************************)
EXTENDS AudioTransport, SoundChips, SequenceTheorems, FiniteSetTheorems, WellFoundedInduction, TLAPS

-----------------------------------------------------------------------------
(* The transport.                                                          *)

\* What the proofs need of the types.
Shape ==
  /\ "pc" \in DOMAIN worker /\ "pc" \in DOMAIN device
  /\ {"pc", "next"} \subseteq DOMAIN control
  /\ {"active", "suspended"} \subseteq DOMAIN drainState
  /\ control.next \in {"idle", "mutate", "resume"}
  /\ DOMAIN ready = Indices /\ readIndex \in Indices /\ writeIndex \in Indices
  /\ epoch \in Nat \ {0}

\* Outside of open and close neither thread is there.
ThreadsJoined ==
  /\ ~running => worker.pc = "none" /\ device.pc = "none"
  /\ device.pc = "none" => ~running \/ control.pc = "joinWorker"
  /\ control.pc = "joinWorker" => device.pc = "none"

\* The production mutex keeps the worker and an epoch change apart.
MutexHeld ==
  /\ worker.pc \in {"drain", "publish", "depth", "prime"} => productionMutex = "worker"
  /\ control.pc = "clear" => productionMutex = "control"

\* The gate is up while the device thread is in drainReadyOutput.
GateUp ==
  device.pc \in {"checkPrimed", "checkIndex", "underrun", "copy", "copied", "leave"}
    => drainState.active

\* The slots from the read index up to the write index, round the ring.
Occupied(i) ==
  IF readIndex <= writeIndex THEN readIndex <= i /\ i < writeIndex
  ELSE readIndex <= i \/ i < writeIndex

\* They hold blocks, of the present epoch unless an epoch change has not cleared them yet.
BlocksCurrent ==
  \A i \in Indices : Occupied(i) =>
      /\ ready[i].epoch # 0
      /\ ready[i].epoch = epoch \/ drainState.suspended

\* The worker publishes into a ring that is not full, the device copies from one that is
\* not empty.
RoomLeft == worker.pc = "publish" => nextReadyIndex(writeIndex) # readIndex
BlockThere == device.pc = "copy" => readIndex # writeIndex

AudioInv ==
  Shape /\ ThreadsJoined /\ MutexHeld /\ GateUp /\ BlocksCurrent /\ RoomLeft /\ BlockThere

-----------------------------------------------------------------------------
(* Lemmas. *)

\* The index after one of the ring's.
LEMMA NextReadyIndex ==
  ASSUME NEW i \in Indices
  PROVE  nextReadyIndex(i) = IF i = ReadyChunks THEN 0 ELSE i + 1
<1>1. ReadyChunks \in Nat \ {0} /\ i \in 0 .. ReadyChunks
  BY TransportAssumption DEF Indices
<1>2. CASE i = ReadyChunks
  BY <1>1, <1>2 DEF nextReadyIndex
<1>3. CASE i < ReadyChunks
  BY <1>1, <1>3 DEF nextReadyIndex
<1>4. QED
  BY <1>1, <1>2, <1>3

\* The initial state.
LEMMA InitInv ==
  ASSUME Init
  PROVE  AudioInv
BY TransportAssumption
   DEF Init, AudioInv, Shape, ThreadsJoined, MutexHeld, GateUp, BlocksCurrent,
       Occupied, RoomLeft, BlockThere, transport, ring, history, deviceFrame,
       Worker, DeviceGoTo, EmptyReadyRing, NoBlock, Indices, Target, Depth,
       Flushed, FreshEngine, canPerformReset, nextReadyIndex

-----------------------------------------------------------------------------
(* The control lane keeps the invariant. *)

\* A submitted block touches neither the ready ring nor a thread.
LEMMA SubmitSourceBlockInv ==
  ASSUME AudioInv, SubmitSourceBlock
  PROVE  AudioInv'
BY TransportAssumption
   DEF SubmitSourceBlock, AudioInv, Shape, ThreadsJoined, MutexHeld, GateUp,
       BlocksCurrent, Occupied, RoomLeft, BlockThere, transport, ring,
       history, Indices

\* An epoch change takes the mutex and suspends draining before the blocks grow old.
LEMMA BumpEpochInv ==
  ASSUME AudioInv, BumpEpoch
  PROVE  AudioInv'
BY TransportAssumption
   DEF BumpEpoch, AudioInv, Shape, ThreadsJoined, MutexHeld, GateUp,
       BlocksCurrent, Occupied, RoomLeft, BlockThere, ring, transport,
       history, Indices

\* The clearing waits for the drain under way, and no worker holds the mutex.
LEMMA ClearReadyQueueInv ==
  ASSUME AudioInv, ClearReadyQueue
  PROVE  AudioInv'
BY TransportAssumption
   DEF ClearReadyQueue, AudioInv, Shape, ThreadsJoined, MutexHeld, GateUp,
       BlocksCurrent, Occupied, RoomLeft, BlockThere, history, transport,
       ring, EmptyReadyRing, NoBlock, Indices

\* Pausing only moves the control lane.
LEMMA PauseLaneInv ==
  ASSUME AudioInv, PauseLane
  PROVE  AudioInv'
BY TransportAssumption
   DEF PauseLane, AudioInv, Shape, ThreadsJoined, MutexHeld, GateUp,
       BlocksCurrent, Occupied, RoomLeft, BlockThere, ring, transport,
       history, Indices

\* A mutation starts a session; the rings are not touched.
LEMMA MutateInv ==
  ASSUME AudioInv, Mutate
  PROVE  AudioInv'
BY TransportAssumption
   DEF Mutate, AudioInv, Shape, ThreadsJoined, MutexHeld, GateUp,
       BlocksCurrent, Occupied, RoomLeft, BlockThere, transport, ring,
       history, Indices

\* Resuming only raises the flag.
LEMMA ResumeLaneInv ==
  ASSUME AudioInv, ResumeLane
  PROVE  AudioInv'
BY TransportAssumption
   DEF ResumeLane, AudioInv, Shape, ThreadsJoined, MutexHeld, GateUp,
       BlocksCurrent, Occupied, RoomLeft, BlockThere, ring, transport,
       history, Indices

\* A reset empties the ring with both threads gone.
LEMMA ResetStreamInv ==
  ASSUME AudioInv, ResetStream
  PROVE  AudioInv'
BY TransportAssumption
   DEF ResetStream, AudioInv, Shape, ThreadsJoined, MutexHeld, GateUp,
       BlocksCurrent, Occupied, RoomLeft, BlockThere, EmptyReadyRing, NoBlock,
       Indices, FreshEngine, ring, transport, history, canPerformReset

\* An open starts both threads on a ring of at most one block.
LEMMA OpenDeviceInv ==
  ASSUME AudioInv, OpenDevice
  PROVE  AudioInv'
BY TransportAssumption
   DEF OpenDevice, AudioInv, Shape, ThreadsJoined, MutexHeld, GateUp,
       BlocksCurrent, Occupied, RoomLeft, BlockThere, ring, transport,
       history, Worker, NoBlock, Indices, Target, Flushed

\* A close begins with the device thread.
LEMMA CloseDeviceInv ==
  ASSUME AudioInv, CloseDevice
  PROVE  AudioInv'
BY TransportAssumption
   DEF CloseDevice, AudioInv, Shape, ThreadsJoined, MutexHeld, GateUp,
       BlocksCurrent, Occupied, RoomLeft, BlockThere, transport, ring,
       history, Indices

\* The device thread is joined.
LEMMA RequestStopInv ==
  ASSUME AudioInv, RequestStop
  PROVE  AudioInv'
BY TransportAssumption
   DEF RequestStop, AudioInv, Shape, ThreadsJoined, MutexHeld, GateUp,
       BlocksCurrent, Occupied, RoomLeft, BlockThere, ring, transport,
       history, DeviceGoTo, Indices

\* The worker is joined, and the ring emptied.
LEMMA StopTransportInv ==
  ASSUME AudioInv, StopTransport
  PROVE  AudioInv'
BY TransportAssumption
   DEF StopTransport, AudioInv, Shape, ThreadsJoined, MutexHeld, GateUp,
       BlocksCurrent, Occupied, RoomLeft, BlockThere, history, transport,
       ring, Worker, EmptyReadyRing, NoBlock, Indices

-----------------------------------------------------------------------------
(* The worker keeps the invariant. *)

\* A wake only moves the worker.
LEMMA WorkerWakeInv ==
  ASSUME AudioInv, WorkerWake
  PROVE  AudioInv'
BY TransportAssumption
   DEF WorkerWake, AudioInv, Shape, ThreadsJoined, MutexHeld, GateUp,
       BlocksCurrent, Occupied, RoomLeft, BlockThere, transport, ring,
       history, Worker, Target, Depth, Indices

\* Production begins under the mutex.
LEMMA ProduceBeginInv ==
  ASSUME AudioInv, ProduceBegin
  PROVE  AudioInv'
BY TransportAssumption
   DEF ProduceBegin, AudioInv, Shape, ThreadsJoined, MutexHeld, GateUp,
       BlocksCurrent, Occupied, RoomLeft, BlockThere, transport, ring,
       history, Worker, Indices

\* A drained block goes to the engine, not to the ring.
LEMMA DrainSourceBlockInv ==
  ASSUME AudioInv, DrainSourceBlock
  PROVE  AudioInv'
BY TransportAssumption
   DEF DrainSourceBlock, AudioInv, Shape, ThreadsJoined, MutexHeld, GateUp,
       BlocksCurrent, Occupied, RoomLeft, BlockThere, transport, ring,
       history, Indices

\* The mutex is given back.
LEMMA ProduceNothingInv ==
  ASSUME AudioInv, ProduceNothing
  PROVE  AudioInv'
BY TransportAssumption
   DEF ProduceNothing, AudioInv, Shape, ThreadsJoined, MutexHeld, GateUp,
       BlocksCurrent, Occupied, RoomLeft, BlockThere, transport, ring,
       history, Worker, Indices

\* The slot written to is outside of the occupied ones, and there is room for it.
LEMMA RenderBlockInv ==
  ASSUME AudioInv, RenderBlock
  PROVE  AudioInv'
BY TransportAssumption
   DEF RenderBlock, AudioInv, Shape, ThreadsJoined, MutexHeld, GateUp,
       BlocksCurrent, Occupied, RoomLeft, BlockThere, transport, ring,
       history, Worker, NoBlock, Indices, Flushed

\* The published block joins the occupied slots; it bears the present epoch.
LEMMA PublishBlockInv ==
  ASSUME AudioInv, PublishBlock
  PROVE  AudioInv'
<1>1. /\ readIndex \in 0 .. ReadyChunks /\ writeIndex \in 0 .. ReadyChunks
      /\ ReadyChunks \in Nat \ {0} /\ epoch \in Nat \ {0}
      /\ nextReadyIndex(writeIndex) = IF writeIndex = ReadyChunks THEN 0 ELSE writeIndex + 1
      /\ nextReadyIndex(writeIndex) # readIndex
  BY TransportAssumption, NextReadyIndex
     DEF PublishBlock, AudioInv, Shape, RoomLeft, Indices
<1>2. Shape'
  BY <1>1 DEF PublishBlock, AudioInv, Shape, Indices, transport, Worker
<1>3. /\ ThreadsJoined' /\ MutexHeld' /\ GateUp' /\ RoomLeft' /\ BlockThere'
  BY <1>1 DEF PublishBlock, AudioInv, Shape, ThreadsJoined, MutexHeld, GateUp, RoomLeft,
              BlockThere, transport, Worker
<1>4. ASSUME NEW i \in Indices, Occupied(i)', i # writeIndex
      PROVE  Occupied(i)
  BY <1>1, <1>4 DEF PublishBlock, Occupied, Indices
<1>5. BlocksCurrent'
  BY <1>1, <1>4 DEF PublishBlock, AudioInv, Shape, BlocksCurrent, transport
<1>6. QED
  BY <1>2, <1>3, <1>5 DEF AudioInv

\* A depth is only read.
LEMMA LoadDepthInv ==
  ASSUME AudioInv, LoadDepth
  PROVE  AudioInv'
BY TransportAssumption
   DEF LoadDepth, AudioInv, Shape, ThreadsJoined, MutexHeld, GateUp,
       BlocksCurrent, Occupied, RoomLeft, BlockThere, transport, ring,
       history, Worker, Depth, Indices

\* The mutex is given back.
LEMMA MaybeMarkTransportPrimedInv ==
  ASSUME AudioInv, MaybeMarkTransportPrimed
  PROVE  AudioInv'
BY TransportAssumption
   DEF MaybeMarkTransportPrimed, AudioInv, Shape, ThreadsJoined, MutexHeld,
       GateUp, BlocksCurrent, Occupied, RoomLeft, BlockThere, ring, transport,
       history, Worker, Target, Indices

-----------------------------------------------------------------------------
(* The device thread keeps the invariant. *)

\* A poll only moves the device thread.
LEMMA PollPrimedInv ==
  ASSUME AudioInv, PollPrimed
  PROVE  AudioInv'
BY TransportAssumption
   DEF PollPrimed, AudioInv, Shape, ThreadsJoined, MutexHeld, GateUp,
       BlocksCurrent, Occupied, RoomLeft, BlockThere, deviceFrame, history,
       transport, ring, DeviceGoTo, Indices

\* A gate write only moves the device thread.
LEMMA GateDrainInv ==
  ASSUME AudioInv, GateDrain
  PROVE  AudioInv'
BY TransportAssumption
   DEF GateDrain, AudioInv, Shape, ThreadsJoined, MutexHeld, GateUp,
       BlocksCurrent, Occupied, RoomLeft, BlockThere, deviceFrame, history,
       transport, ring, Indices

\* The gate goes up as the device thread enters.
LEMMA EnterDrainInv ==
  ASSUME AudioInv, EnterDrain
  PROVE  AudioInv'
BY TransportAssumption
   DEF EnterDrain, AudioInv, Shape, ThreadsJoined, MutexHeld, GateUp,
       BlocksCurrent, Occupied, RoomLeft, BlockThere, deviceFrame, history,
       transport, ring, DeviceGoTo, Indices

\* A check only moves the device thread.
LEMMA CheckPrimedInv ==
  ASSUME AudioInv, CheckPrimed
  PROVE  AudioInv'
BY TransportAssumption
   DEF CheckPrimed, AudioInv, Shape, ThreadsJoined, MutexHeld, GateUp,
       BlocksCurrent, Occupied, RoomLeft, BlockThere, deviceFrame, history,
       transport, ring, DeviceGoTo, Indices

\* The device thread copies only if it found the ring not empty; the worker can only add.
LEMMA CheckIndexInv ==
  ASSUME AudioInv, CheckIndex
  PROVE  AudioInv'
BY TransportAssumption
   DEF CheckIndex, AudioInv, Shape, ThreadsJoined, MutexHeld, GateUp,
       BlocksCurrent, Occupied, RoomLeft, BlockThere, deviceFrame, history,
       transport, ring, DeviceGoTo, Indices

\* An underrun leaves the ring as it is.
LEMMA UnderrunInv ==
  ASSUME AudioInv, Underrun
  PROVE  AudioInv'
BY TransportAssumption
   DEF Underrun, AudioInv, Shape, ThreadsJoined, MutexHeld, GateUp,
       BlocksCurrent, Occupied, RoomLeft, BlockThere, deviceFrame, history,
       transport, ring, DeviceGoTo, Indices

\* The copied block leaves the occupied slots.
LEMMA CopyBlockInv ==
  ASSUME AudioInv, CopyBlock
  PROVE  AudioInv'
<1>1. /\ readIndex \in 0 .. ReadyChunks /\ writeIndex \in 0 .. ReadyChunks
      /\ ReadyChunks \in Nat \ {0}
      /\ nextReadyIndex(readIndex) = IF readIndex = ReadyChunks THEN 0 ELSE readIndex + 1
      /\ readIndex # writeIndex
  BY TransportAssumption, NextReadyIndex
     DEF CopyBlock, AudioInv, Shape, BlockThere, Indices
<1>2. Shape'
  BY <1>1 DEF CopyBlock, AudioInv, Shape, Indices, deviceFrame
<1>3. RoomLeft'
  <2>1. CASE worker.pc = "publish"
    <3>1. nextReadyIndex(writeIndex) = IF writeIndex = ReadyChunks THEN 0 ELSE writeIndex + 1
      BY NextReadyIndex DEF AudioInv, Shape
    <3>2. nextReadyIndex(writeIndex) # nextReadyIndex(readIndex)
      BY <1>1, <3>1
    <3>3. QED
      BY <3>2 DEF CopyBlock, RoomLeft, deviceFrame
  <2>2. QED
    BY <2>1 DEF CopyBlock, RoomLeft, deviceFrame
<1>4. /\ ThreadsJoined' /\ MutexHeld' /\ GateUp' /\ BlockThere'
  BY <1>1 DEF CopyBlock, AudioInv, Shape, ThreadsJoined, MutexHeld, GateUp, BlockThere,
              deviceFrame
<1>5. ASSUME NEW i \in Indices, Occupied(i)'
      PROVE  Occupied(i) /\ i # readIndex
  BY <1>1, <1>5 DEF CopyBlock, Occupied, Indices, deviceFrame
<1>6. BlocksCurrent'
  BY <1>1, <1>5 DEF CopyBlock, AudioInv, Shape, BlocksCurrent, deviceFrame
<1>7. QED
  BY <1>2, <1>3, <1>4, <1>6 DEF AudioInv

\* The gate comes down as the device thread leaves.
LEMMA LeaveDrainInv ==
  ASSUME AudioInv, LeaveDrain
  PROVE  AudioInv'
BY TransportAssumption
   DEF LeaveDrain, AudioInv, Shape, ThreadsJoined, MutexHeld, GateUp,
       BlocksCurrent, Occupied, RoomLeft, BlockThere, deviceFrame, history,
       transport, ring, DeviceGoTo, Indices

-----------------------------------------------------------------------------
(* The step and what the invariant gives. *)

\* Every step keeps the invariant, whichever thread takes it.
LEMMA NextInv ==
  ASSUME AudioInv, [Next]_vars
  PROVE  AudioInv'
<1>1. CASE UNCHANGED vars
  BY <1>1 DEF vars, transport, ring, history, AudioInv, Shape, ThreadsJoined, MutexHeld,
              GateUp, BlocksCurrent, Occupied, RoomLeft, BlockThere, nextReadyIndex
<1>2. CASE ControlStep
  BY <1>2,
     BumpEpochInv, ClearReadyQueueInv, MutateInv, ResumeLaneInv,
     RequestStopInv, StopTransportInv
     DEF ControlStep
<1>3. CASE ControlCall
  BY <1>3,
     SubmitSourceBlockInv, PauseLaneInv, ResetStreamInv, OpenDeviceInv,
     CloseDeviceInv
     DEF ControlCall
<1>4. CASE WorkerNext
  BY <1>4,
     WorkerWakeInv, ProduceBeginInv, DrainSourceBlockInv,
     ProduceNothingInv, RenderBlockInv, PublishBlockInv, LoadDepthInv,
     MaybeMarkTransportPrimedInv
     DEF WorkerNext
<1>5. CASE DeviceNext
  BY <1>5,
     PollPrimedInv, GateDrainInv, EnterDrainInv, CheckPrimedInv,
     CheckIndexInv, UnderrunInv, CopyBlockInv, LeaveDrainInv
     DEF DeviceNext
<1>6. QED
  BY <1>1, <1>2, <1>3, <1>4, <1>5 DEF Next

\* Where the invariant holds, what the device copies is a whole block of the present epoch.
LEMMA InvHeardRight ==
  ASSUME AudioInv
  PROVE  HeardRight
<1>1. CASE device.pc = "copy"
  <2>1. readIndex \in 0 .. ReadyChunks /\ writeIndex \in 0 .. ReadyChunks /\ ReadyChunks \in Nat
    BY TransportAssumption DEF AudioInv, Shape, Indices
  <2>2. readIndex # writeIndex
    BY <1>1 DEF AudioInv, BlockThere
  <2>3. Occupied(readIndex)
    BY <2>1, <2>2 DEF Occupied
  <2>4. /\ ready[readIndex].epoch # 0
        /\ ready[readIndex].epoch = epoch \/ drainState.suspended
    BY <2>3 DEF AudioInv, Shape, BlocksCurrent
  <2>5. QED
    BY <2>2, <2>4 DEF HeardRight, NoTornCopy, OnlyCurrentEpochHeard, NoBlock
<1>2. QED
  BY <1>1 DEF HeardRight, NoTornCopy, OnlyCurrentEpochHeard

\* Where the invariant holds, a reset that is let through finds nobody at work.
LEMMA InvResetIsSafe ==
  ASSUME AudioInv
  PROVE  ResetIsSafe
BY DEF AudioInv, ThreadsJoined, ResetIsSafe, canPerformReset

-----------------------------------------------------------------------------
(* Theorems. *)

\* The inductive invariant holds always.
LEMMA AudioInvariant == Spec => []AudioInv
BY InitInv, NextInv, PTL DEF Spec

\* drainReadyOutput, which takes no lock, copies whole blocks of the present epoch only,
\* whatever resets, opens and transitions do to the two indices meanwhile
\* (AudioService.hpp drainReadyOutput, clearReadyQueue, bumpTransportEpochLocked).
THEOREM WholeBlocksHeard == Spec => []HeardRight
BY AudioInvariant, InvHeardRight, PTL

\* canPerformReset says yes only while neither the worker nor the device thread is at
\* work on the rings and the engine (AudioService.hpp canPerformReset, resetStream).
THEOREM ResetFindsNobody == Spec => []ResetIsSafe
BY AudioInvariant, InvResetIsSafe, PTL

-----------------------------------------------------------------------------
(* The order of the sessions along the transport. *)

\* No session upstream of the given place is earlier than n.
FromSource(n)   == n <= session /\ \A i \in 1 .. Len(source) : n <= source[i].session
FromDeferred(n) == FromSource(n) /\ (engine.pendingReset => n <= engine.deferred)
FromEngine(n)   == FromDeferred(n) /\ \A i \in 1 .. Len(engine.ring) : n <= engine.ring[i]
FromWorker(n)   == FromEngine(n) /\ (worker.pc = "publish" => n <= worker.session)
FromReady(n)    == FromWorker(n) /\ \A i \in Indices : Occupied(i) => n <= ready[i].session

\* How many blocks are read before the one at an index of the ready ring.
Pos(i) == IF readIndex <= i THEN i - readIndex ELSE i + ReadyChunks + 1 - readIndex

\* What is in each place is in order, and not later than what is upstream of it.
SourceInOrder ==
  \A i, j \in 1 .. Len(source) :
    source[i].session <= session /\ (i <= j => source[i].session <= source[j].session)
DeferredInOrder == engine.pendingReset => FromSource(engine.deferred)
EngineInOrder ==
  \A i, j \in 1 .. Len(engine.ring) :
    FromDeferred(engine.ring[i]) /\ (i <= j => engine.ring[i] <= engine.ring[j])
WorkerInOrder == worker.pc = "publish" => FromEngine(worker.session)
ReadyInOrder ==
  \A i, j \in Indices : Occupied(i) /\ Occupied(j) =>
    FromWorker(ready[i].session) /\ (Pos(i) <= Pos(j) => ready[i].session <= ready[j].session)
HeardInOrder == FromReady(device.heard)

\* What the proof needs of the types of the PCM on its way.
PcmShape ==
  /\ session \in Nat /\ frame \in Nat
  /\ source \in Seq([session : Nat, frame : Nat, epoch : Nat])
  /\ {"ring", "pendingReset", "deferred", "last"} \subseteq DOMAIN engine
  /\ engine.ring \in Seq(Nat) /\ engine.deferred \in Nat
  /\ {"pc", "session", "left"} \subseteq DOMAIN worker
  /\ {"pc", "heard"} \subseteq DOMAIN device
  /\ worker.pc = "publish" => worker.session \in Nat
  /\ worker.pc = "drain" => worker.left \in 0 .. Len(source)
  /\ \A i \in Indices : ready[i].session \in Nat
  /\ device.heard \in Nat

\* The inductive invariant of the order.
OrderInv ==
  /\ PcmShape /\ SourceInOrder /\ DeferredInOrder /\ EngineInOrder /\ WorkerInOrder
  /\ ReadyInOrder /\ HeardInOrder

\* What taking the first element of a sequence returns and leaves.
LEMMA HeadAndTail ==
  ASSUME NEW S, NEW q \in Seq(S), q # <<>>
  PROVE  /\ Len(q) \in Nat \ {0} /\ 1 \in 1 .. Len(q) /\ Head(q) = q[1] /\ q[1] \in S
         /\ Tail(q) \in Seq(S) /\ Len(Tail(q)) \in Nat
         /\ \A i \in 1 .. Len(Tail(q)) : i + 1 \in 1 .. Len(q) /\ Tail(q)[i] = q[i + 1]
<1>1. Len(q) \in Nat \ {0}
  BY LenProperties, EmptySeq
<1>2. q[1] \in S
  BY <1>1, ElementOfSeq
<1>3. Head(q) = q[1]
  OBVIOUS
<1>4. /\ Tail(q) \in Seq(S) /\ Len(Tail(q)) = Len(q) - 1
      /\ \A i \in 1 .. Len(Tail(q)) : Tail(q)[i] = q[i + 1]
  BY HeadTailProperties
<1>5. ASSUME NEW i \in 1 .. Len(Tail(q)) PROVE i + 1 \in 1 .. Len(q)
  BY <1>1, <1>4
<1>6. QED
  BY <1>1, <1>2, <1>3, <1>4, <1>5

\* Steps that move no PCM.
LEMMA OrderStutter ==
  ASSUME OrderInv, UNCHANGED <<session, frame, source, engine, ready, readIndex, writeIndex>>,
         device'.heard = device.heard, {"pc", "heard"} \subseteq DOMAIN device',
         {"pc", "session", "left"} \subseteq DOMAIN worker',
         worker'.pc = "publish" => worker' = worker,
         worker'.pc = "drain" => worker'.left \in 0 .. Len(source)
  PROVE  OrderInv'
<1>1. PcmShape'
  BY DEF OrderInv, PcmShape
<1>2. ASSUME NEW n
      PROVE  /\ FromSource(n)' <=> FromSource(n)
             /\ FromDeferred(n)' <=> FromDeferred(n)
             /\ FromEngine(n)' <=> FromEngine(n)
             /\ FromWorker(n) => FromWorker(n)'
             /\ FromReady(n) => FromReady(n)'
  BY DEF FromSource, FromDeferred, FromEngine, FromWorker, FromReady, Occupied
<1>3. SourceInOrder' /\ DeferredInOrder' /\ EngineInOrder' /\ WorkerInOrder'
  BY <1>2 DEF OrderInv, SourceInOrder, DeferredInOrder, EngineInOrder, WorkerInOrder
<1>4. ReadyInOrder' /\ HeardInOrder'
  BY <1>2 DEF OrderInv, ReadyInOrder, HeardInOrder, Occupied, Pos
<1>5. QED
  BY <1>1, <1>3, <1>4 DEF OrderInv

\* Steps that only take PCM away: the ready ring is emptied, the source and the engine are
\* emptied or left alone, and nothing new is heard.
LEMMA OrderEmptied ==
  ASSUME OrderInv, UNCHANGED <<session, frame>>, EmptyReadyRing,
         device'.heard = device.heard, {"pc", "heard"} \subseteq DOMAIN device',
         source' = source \/ source' = <<>>, engine' = engine \/ engine' = FreshEngine,
         worker'.pc # "publish", worker'.pc # "drain",
         {"pc", "session", "left"} \subseteq DOMAIN worker'
  PROVE  OrderInv'
<1>1. PcmShape'
  <2>1. /\ {"ring", "pendingReset", "deferred", "last"} \subseteq DOMAIN engine'
        /\ engine'.ring \in Seq(Nat) /\ engine'.deferred \in Nat
    <3>1. CASE engine' = engine
      BY <3>1 DEF OrderInv, PcmShape
    <3>2. CASE engine' = FreshEngine
      BY <3>2, EmptySeq DEF FreshEngine, NoSession
    <3>3. QED
      BY <3>1, <3>2
  <2>2. source' \in Seq([session : Nat, frame : Nat, epoch : Nat])
    BY EmptySeq DEF OrderInv, PcmShape
  <2>3. \A i \in Indices : ready'[i].session \in Nat
    BY DEF EmptyReadyRing, NoBlock
  <2>4. QED
    BY <2>1, <2>2, <2>3 DEF OrderInv, PcmShape
<1>2. Len(source') = 0 \/ source' = source
  BY EmptySeq
<1>3. \/ engine' = engine
      \/ engine'.pendingReset = FALSE /\ Len(engine'.ring) = 0
  BY EmptySeq DEF FreshEngine
<1>4. \A i \in Indices : ~Occupied(i)'
  BY TransportAssumption DEF EmptyReadyRing, Occupied, Indices
<1>5. ASSUME NEW n
      PROVE  /\ FromSource(n) => FromSource(n)'
             /\ FromDeferred(n) => FromDeferred(n)'
             /\ FromEngine(n) => FromEngine(n)'
             /\ FromEngine(n) => FromReady(n)'
  BY <1>2, <1>3, <1>4 DEF FromSource, FromDeferred, FromEngine, FromWorker, FromReady
<1>6. SourceInOrder' /\ DeferredInOrder' /\ EngineInOrder' /\ WorkerInOrder'
  BY <1>2, <1>3, <1>5 DEF OrderInv, SourceInOrder, DeferredInOrder, EngineInOrder, WorkerInOrder
<1>7. ReadyInOrder' /\ HeardInOrder'
  BY <1>4, <1>5 DEF OrderInv, ReadyInOrder, HeardInOrder, FromReady, FromWorker
<1>8. QED
  BY <1>1, <1>6, <1>7 DEF OrderInv

\* What is submitted is of the present session.
LEMMA SubmitSourceBlockOrder ==
  ASSUME AudioInv, OrderInv, SubmitSourceBlock
  PROVE  OrderInv'
<1> DEFINE b == [session |-> session, frame |-> frame, epoch |-> epoch]
           B == [session : Nat, frame : Nat, epoch : Nat]
<1>1. /\ source' = Append(source, b) /\ source \in Seq(B) /\ b \in B
      /\ UNCHANGED <<session, frame, engine, worker, device, ready, readIndex, writeIndex>>
  BY DEF SubmitSourceBlock, OrderInv, PcmShape, AudioInv, Shape, ring, history
<1>2. /\ source' \in Seq(B) /\ Len(source) \in Nat /\ Len(source') = Len(source) + 1
      /\ \A i \in 1 .. Len(source) : source'[i] = source[i]
      /\ source'[Len(source) + 1].session = session
  <2>1. source' \in Seq(B) /\ Len(source') = Len(source) + 1 /\ source'[Len(source) + 1] = b
        /\ \A i \in 1 .. Len(source) : source'[i] = source[i]
    BY ONLY <1>1, AppendProperties
  <2>2. Len(source) \in Nat /\ b.session = session
    BY ONLY <1>1, LenProperties
  <2> QED BY ONLY <2>1, <2>2
<1>3. PcmShape'
  BY <1>1, <1>2 DEF OrderInv, PcmShape
<1>4. \A i \in 1 .. Len(source') :
        \/ i \in 1 .. Len(source) /\ source'[i] = source[i]
        \/ i = Len(source) + 1 /\ source'[i].session = session
  <2>1. \A i \in 1 .. Len(source') : i \in 1 .. Len(source) \/ i = Len(source) + 1
    BY ONLY <1>2
  <2> QED BY ONLY <1>2, <2>1
<1>5. ASSUME NEW n, FromSource(n) PROVE FromSource(n)'
  BY <1>1, <1>4, <1>5 DEF FromSource
<1>6. ASSUME NEW n
      PROVE  /\ FromDeferred(n) => FromDeferred(n)'
             /\ FromEngine(n) => FromEngine(n)'
             /\ FromWorker(n) => FromWorker(n)'
             /\ FromReady(n) => FromReady(n)'
  BY <1>1, <1>5 DEF FromDeferred, FromEngine, FromWorker, FromReady, Occupied
<1>7. SourceInOrder'
  <2>1. session \in Nat
    BY DEF OrderInv, PcmShape
  <2>2. ASSUME NEW i \in 1 .. Len(source') PROVE source'[i].session <= session
    BY <1>4, <2>1 DEF OrderInv, SourceInOrder
  <2>3. ASSUME NEW i \in 1 .. Len(source'), NEW j \in 1 .. Len(source'), i <= j
        PROVE  source'[i].session <= source'[j].session
    <3>1. CASE j = Len(source) + 1
      BY <1>2, <2>2, <3>1
    <3>2. CASE j \in 1 .. Len(source)
      <4>1. i \in 1 .. Len(source)
        BY <1>2, <2>3, <3>2
      <4>2. QED
        BY <1>2, <2>3, <3>2, <4>1 DEF OrderInv, SourceInOrder
    <3>3. QED
      BY <1>2, <3>1, <3>2
  <2>4. QED
    BY <1>1, <2>2, <2>3 DEF SourceInOrder
<1>8. DeferredInOrder' /\ EngineInOrder' /\ WorkerInOrder'
  BY <1>1, <1>5, <1>6 DEF OrderInv, DeferredInOrder, EngineInOrder, WorkerInOrder
<1>9. ReadyInOrder' /\ HeardInOrder'
  BY <1>1, <1>6 DEF OrderInv, ReadyInOrder, HeardInOrder, Occupied, Pos
<1>10. QED
  BY <1>3, <1>7, <1>8, <1>9 DEF OrderInv

\* A new session is later than all that is on its way.
LEMMA MutateOrder ==
  ASSUME AudioInv, OrderInv, Mutate
  PROVE  OrderInv'
<1>1. /\ session' \in {session, session + 1} /\ session \in Nat /\ frame' \in Nat
      /\ UNCHANGED <<source, engine, worker, device, ready, readIndex, writeIndex>>
  BY TransportAssumption DEF Mutate, OrderInv, PcmShape, ring
<1>2. PcmShape'
  BY <1>1 DEF OrderInv, PcmShape
<1>3. ASSUME NEW n \in Nat
      PROVE  /\ FromSource(n) => FromSource(n)'
             /\ FromDeferred(n) => FromDeferred(n)'
             /\ FromEngine(n) => FromEngine(n)'
             /\ FromWorker(n) => FromWorker(n)'
             /\ FromReady(n) => FromReady(n)'
  BY <1>1 DEF FromSource, FromDeferred, FromEngine, FromWorker, FromReady, Occupied
<1>4. SourceInOrder'
  <2>1. \A i \in 1 .. Len(source) : source[i].session \in Nat
    <3>1. source \in Seq([session : Nat, frame : Nat, epoch : Nat])
      BY DEF OrderInv, PcmShape
    <3>2. \A i \in 1 .. Len(source) : source[i] \in [session : Nat, frame : Nat, epoch : Nat]
      BY <3>1, ElementOfSeq
    <3>3. QED
      BY <3>2
  <2>2. QED
    BY <1>1, <2>1 DEF OrderInv, SourceInOrder
<1>5. DeferredInOrder' /\ WorkerInOrder'
  BY <1>1, <1>3 DEF OrderInv, PcmShape, DeferredInOrder, WorkerInOrder
<1>6. EngineInOrder'
  <2>1. \A i \in 1 .. Len(engine.ring) : engine.ring[i] \in Nat
    BY ElementOfSeq DEF OrderInv, PcmShape
  <2>2. QED
    BY <1>1, <1>3, <2>1 DEF OrderInv, EngineInOrder
<1>7. ReadyInOrder' /\ HeardInOrder'
  BY <1>1, <1>3 DEF OrderInv, PcmShape, ReadyInOrder, HeardInOrder, Occupied, Pos
<1>8. QED
  BY <1>2, <1>4, <1>5, <1>6, <1>7 DEF OrderInv

\* A block drained from the source goes to the end of what the engine holds, or replaces
\* what is deferred.
LEMMA DrainSourceBlockOrder ==
  ASSUME AudioInv, OrderInv, DrainSourceBlock
  PROVE  OrderInv'
<1> DEFINE B == [session : Nat, frame : Nat, epoch : Nat]
<1>1. source \in Seq(B) /\ worker.pc = "drain" /\ worker.left \in 1 .. Len(source)
  BY DEF OrderInv, PcmShape, DrainSourceBlock
<1>2. source # <<>> /\ source' = Tail(source)
  BY <1>1, EmptySeq DEF DrainSourceBlock
<1>3. PICK h : h = Head(source)
  OBVIOUS
<1>4. /\ Len(source) \in Nat \ {0} /\ h = source[1] /\ source' \in Seq(B)
      /\ 1 \in 1 .. Len(source) /\ h \in B /\ Len(source') \in Nat
      /\ \A i \in 1 .. Len(source') : i + 1 \in 1 .. Len(source) /\ source'[i] = source[i + 1]
  <2>1. /\ Len(source) \in Nat \ {0} /\ 1 \in 1 .. Len(source) /\ Head(source) = source[1]
        /\ source[1] \in B /\ Tail(source) \in Seq(B) /\ Len(Tail(source)) \in Nat
        /\ \A i \in 1 .. Len(Tail(source)) :
             i + 1 \in 1 .. Len(source) /\ Tail(source)[i] = source[i + 1]
    BY <1>1, <1>2, HeadAndTail
  <2>2. QED
    BY <1>2, <1>3, <2>1
<1>5. /\ worker' = [worker EXCEPT !.left = @ - 1]
      /\ UNCHANGED <<session, frame, device, ready, readIndex, writeIndex>>
      /\ engine' = IF h.epoch = epoch THEN appendRecentPcm(engine, h) ELSE engine
  BY <1>3 DEF DrainSourceBlock, ring, history
<1>6. PICK played : played = h.session /\ played \in Nat
  BY <1>4
<1>7. /\ {"ring", "pendingReset", "deferred", "last"} \subseteq DOMAIN engine'
      /\ \/ /\ engine'.pendingReset = engine.pendingReset /\ engine'.deferred = engine.deferred
            /\ engine'.ring = engine.ring
         \/ engine'.pendingReset /\ engine'.deferred = played /\ engine'.ring = engine.ring
         \/ /\ ~engine.pendingReset /\ ~engine'.pendingReset /\ engine'.deferred = engine.deferred
            /\ engine'.ring = Append(engine.ring, played)
  BY <1>5, <1>6 DEF appendRecentPcm, OrderInv, PcmShape
<1>8. /\ engine.ring \in Seq(Nat) /\ Len(engine.ring) \in Nat
      /\ LET r == Append(engine.ring, played) IN
         /\ r \in Seq(Nat) /\ Len(r) = Len(engine.ring) + 1
         /\ \A i \in 1 .. Len(engine.ring) : r[i] = engine.ring[i]
         /\ r[Len(engine.ring) + 1] = played
  BY <1>6, AppendProperties, LenProperties DEF OrderInv, PcmShape
<1>9. worker'.left = worker.left - 1 /\ worker'.pc = "drain"
  BY <1>1, <1>5 DEF OrderInv, PcmShape
<1>10. PcmShape'
  <2>1. /\ {"ring", "pendingReset", "deferred", "last"} \subseteq DOMAIN engine'
        /\ engine'.ring \in Seq(Nat) /\ engine'.deferred \in Nat
    BY <1>6, <1>7, <1>8 DEF OrderInv, PcmShape
  <2>2. Len(source') = Len(source) - 1
    BY <1>1, <1>2, HeadTailProperties
  <2>3. worker'.left \in 0 .. Len(source')
    BY <1>1, <1>4, <1>9, <2>2, SMTT(20)
  <2>4. QED
    BY <1>4, <1>5, <1>9, <2>1, <2>3 DEF OrderInv, PcmShape
<1>11. ASSUME NEW n, FromSource(n) PROVE FromSource(n)' /\ n <= played
  BY <1>4, <1>5, <1>6, <1>11 DEF FromSource
<1>12. FromSource(played)'
  <2>1. ASSUME NEW i \in 1 .. Len(source') PROVE played <= source'[i].session
    <3>1. 1 \in 1 .. Len(source) /\ i + 1 \in 1 .. Len(source) /\ 1 <= i + 1
      BY <1>4
    <3>2. source[1].session <= source[i + 1].session
      BY <3>1 DEF OrderInv, SourceInOrder
    <3>3. QED
      BY <1>4, <1>6, <3>2
  <2>2. played <= session'
    BY <1>4, <1>5, <1>6 DEF OrderInv, SourceInOrder
  <2>3. QED
    BY <2>1, <2>2 DEF FromSource
<1>13. ASSUME NEW n, FromDeferred(n) PROVE FromDeferred(n)'
  BY <1>7, <1>11, <1>13 DEF FromDeferred
<1>14. \/ engine'.ring = engine.ring
       \/ /\ ~engine.pendingReset /\ ~engine'.pendingReset
          /\ Len(engine'.ring) \in Nat
          /\ \A i \in 1 .. Len(engine'.ring) :
               \/ i \in 1 .. Len(engine.ring) /\ engine'.ring[i] = engine.ring[i]
               \/ i = Len(engine.ring) + 1 /\ engine'.ring[i] = played
  BY <1>7, <1>8
<1>15. ASSUME NEW n, FromEngine(n) PROVE FromEngine(n)'
  <2>1. FromDeferred(n)' /\ n <= played /\ \A i \in 1 .. Len(engine.ring) : n <= engine.ring[i]
    BY <1>11, <1>13, <1>15 DEF FromEngine, FromDeferred
  <2>2. QED
    BY <1>14, <2>1 DEF FromEngine
<1>16. ASSUME NEW n
       PROVE  (FromWorker(n) => FromWorker(n)') /\ (FromReady(n) => FromReady(n)')
  BY <1>5, <1>9, <1>15 DEF FromWorker, FromReady, Occupied
<1>17. SourceInOrder'
  <2>1. ASSUME NEW i \in 1 .. Len(source'), NEW j \in 1 .. Len(source')
        PROVE  /\ source'[i].session <= session'
               /\ i <= j => source'[i].session <= source'[j].session
    <3>1. i + 1 \in 1 .. Len(source) /\ j + 1 \in 1 .. Len(source) /\ (i <= j => i + 1 <= j + 1)
      BY <1>4
    <3>2. /\ source[i + 1].session <= session
          /\ i + 1 <= j + 1 => source[i + 1].session <= source[j + 1].session
      BY <3>1 DEF OrderInv, SourceInOrder
    <3>3. QED
      BY <1>4, <1>5, <3>1, <3>2
  <2>2. QED
    BY <2>1 DEF SourceInOrder
<1>18. DeferredInOrder'
  <2>1. CASE engine'.pendingReset /\ engine'.deferred = played
    BY <1>12, <2>1 DEF DeferredInOrder
  <2>2. CASE engine'.pendingReset = engine.pendingReset /\ engine'.deferred = engine.deferred
    BY <1>11, <2>2 DEF OrderInv, DeferredInOrder
  <2>3. QED
    BY <1>7, <2>1, <2>2 DEF DeferredInOrder
<1>19. EngineInOrder'
  <2>1. CASE engine'.ring = engine.ring
    BY <1>13, <2>1 DEF OrderInv, EngineInOrder
  <2>2. CASE /\ ~engine.pendingReset /\ ~engine'.pendingReset
             /\ Len(engine'.ring) \in Nat
             /\ \A i \in 1 .. Len(engine'.ring) :
                  \/ i \in 1 .. Len(engine.ring) /\ engine'.ring[i] = engine.ring[i]
                  \/ i = Len(engine.ring) + 1 /\ engine'.ring[i] = played
    <3>1. FromDeferred(played)'
      BY <1>12, <2>2 DEF FromDeferred
    <3>2. \A i \in 1 .. Len(engine.ring) : engine.ring[i] <= played
      BY <1>11 DEF OrderInv, EngineInOrder, FromDeferred
    <3>3. ASSUME NEW i \in 1 .. Len(engine'.ring), NEW j \in 1 .. Len(engine'.ring), i <= j
          PROVE  engine'.ring[i] <= engine'.ring[j]
      <4>1. CASE j = Len(engine.ring) + 1 /\ engine'.ring[j] = played
        BY <1>6, <2>2, <3>2, <4>1
      <4>2. CASE j \in 1 .. Len(engine.ring) /\ engine'.ring[j] = engine.ring[j]
        <5>1. i \in 1 .. Len(engine.ring) /\ engine'.ring[i] = engine.ring[i]
          BY <1>8, <2>2, <3>3, <4>2
        <5>2. QED
          BY <3>3, <4>2, <5>1 DEF OrderInv, EngineInOrder
      <4>3. QED
        BY <2>2, <4>1, <4>2
    <3>4. ASSUME NEW i \in 1 .. Len(engine.ring), NEW n, n = engine.ring[i]
          PROVE  FromDeferred(n)'
      BY <1>13, <3>4 DEF OrderInv, EngineInOrder
    <3>5. ASSUME NEW i \in 1 .. Len(engine'.ring), NEW n, n = engine'.ring[i]
          PROVE  FromDeferred(n)'
      BY <2>2, <3>1, <3>4, <3>5
    <3>6. QED
      BY <3>3, <3>5 DEF EngineInOrder
  <2>3. QED
    BY <1>14, <2>1, <2>2
<1>20. WorkerInOrder'
  BY <1>9 DEF WorkerInOrder
<1>21. ReadyInOrder' /\ HeardInOrder'
  BY <1>5, <1>16 DEF OrderInv, ReadyInOrder, HeardInOrder, Occupied, Pos
<1>22. QED
  BY <1>10, <1>17, <1>18, <1>19, <1>20, <1>21 DEF OrderInv

\* What the engine renders is the first of what it holds; the rest is not earlier.
LEMMA RenderedFirst ==
  ASSUME OrderInv, engine.ring # <<>>,
         engine' = [Flushed(engine) EXCEPT !.ring = Tail(@)],
         UNCHANGED session, source' = source \/ source' = <<>>,
         NEW h, h = Head(Flushed(engine).ring)
  PROVE  /\ h \in Nat
         /\ {"ring", "pendingReset", "deferred", "last"} \subseteq DOMAIN engine'
         /\ engine'.ring \in Seq(Nat) /\ engine'.deferred \in Nat
         /\ \A n : FromSource(n) => FromSource(n)'
         /\ \A n : FromEngine(n) => FromEngine(n)' /\ n <= h
         /\ FromEngine(h)' /\ DeferredInOrder' /\ EngineInOrder'
<1>1. ASSUME NEW n, FromSource(n) PROVE FromSource(n)'
  <2>1. source' = source \/ Len(source') = 0
    BY EmptySeq
  <2>2. QED
    BY <1>1, <2>1 DEF FromSource
<1>2. CASE engine.pendingReset
  <2>1. /\ {"ring", "pendingReset", "deferred", "last"} \subseteq DOMAIN engine'
        /\ engine'.ring = Tail(<<engine.deferred>>) /\ engine'.pendingReset = FALSE
        /\ engine'.deferred = NoSession /\ h = Head(<<engine.deferred>>)
    BY <1>2 DEF Flushed, OrderInv, PcmShape
  <2>2. engine'.ring = <<>> /\ h = engine.deferred
    BY <2>1
  <2>3. engine'.ring \in Seq(Nat) /\ Len(engine'.ring) = 0
    BY <2>2, EmptySeq
  <2>4. FromSource(h)'
    <3>1. FromSource(h)
      BY <1>2, <2>2 DEF OrderInv, DeferredInOrder
    <3>2. QED
      BY <1>1, <3>1
  <2>5. FromEngine(h)' /\ DeferredInOrder' /\ EngineInOrder'
    BY <2>1, <2>3, <2>4 DEF FromEngine, FromDeferred, DeferredInOrder, EngineInOrder
  <2>6. ASSUME NEW n, FromEngine(n) PROVE FromEngine(n)' /\ n <= h
    BY <1>1, <1>2, <2>1, <2>2, <2>3, <2>6 DEF FromEngine, FromDeferred
  <2>7. h \in Nat /\ engine'.deferred \in Nat
    BY <2>1, <2>2 DEF OrderInv, PcmShape, NoSession
  <2>8. QED
    BY <1>1, <2>1, <2>3, <2>5, <2>6, <2>7
<1>3. CASE ~engine.pendingReset
  <2>1. /\ {"ring", "pendingReset", "deferred", "last"} \subseteq DOMAIN engine'
        /\ engine'.ring = Tail(engine.ring) /\ engine'.pendingReset = engine.pendingReset
        /\ engine'.deferred = engine.deferred /\ h = Head(engine.ring)
    BY <1>3 DEF Flushed, OrderInv, PcmShape
  <2>2. engine.ring \in Seq(Nat)
    BY DEF OrderInv, PcmShape
  <2>3. /\ h = engine.ring[1] /\ h \in Nat
        /\ engine'.ring \in Seq(Nat) /\ 1 \in 1 .. Len(engine.ring) /\ Len(engine'.ring) \in Nat
        /\ \A i \in 1 .. Len(engine'.ring) :
             i + 1 \in 1 .. Len(engine.ring) /\ engine'.ring[i] = engine.ring[i + 1]
    <3>1. /\ 1 \in 1 .. Len(engine.ring) /\ Head(engine.ring) = engine.ring[1]
          /\ engine.ring[1] \in Nat /\ Tail(engine.ring) \in Seq(Nat)
          /\ Len(Tail(engine.ring)) \in Nat
          /\ \A i \in 1 .. Len(Tail(engine.ring)) :
               i + 1 \in 1 .. Len(engine.ring) /\ Tail(engine.ring)[i] = engine.ring[i + 1]
      BY <2>2, HeadAndTail
    <3>2. QED
      BY <2>1, <3>1
  <2>4. ASSUME NEW n, FromDeferred(n) PROVE FromDeferred(n)'
    BY <1>1, <2>1, <2>4 DEF FromDeferred
  <2>5. ASSUME NEW n, FromEngine(n) PROVE FromEngine(n)' /\ n <= h
    BY <2>3, <2>4, <2>5 DEF FromEngine
  <2>6. FromEngine(h)'
    <3>1. FromDeferred(h)'
      BY <2>3, <2>4 DEF OrderInv, EngineInOrder
    <3>2. ASSUME NEW i \in 1 .. Len(engine'.ring) PROVE h <= engine'.ring[i]
      <4>1. 1 \in 1 .. Len(engine.ring) /\ i + 1 \in 1 .. Len(engine.ring) /\ 1 <= i + 1
        BY <2>3
      <4>2. engine.ring[1] <= engine.ring[i + 1]
        BY <4>1 DEF OrderInv, EngineInOrder
      <4>3. QED
        BY <2>3, <4>2
    <3>3. QED
      BY <3>1, <3>2 DEF FromEngine
  <2>7. EngineInOrder'
    <3>1. ASSUME NEW i \in 1 .. Len(engine'.ring), NEW n, n = engine'.ring[i]
          PROVE  FromDeferred(n)'
      BY <2>3, <2>4, <3>1 DEF OrderInv, EngineInOrder
    <3>2. ASSUME NEW i \in 1 .. Len(engine'.ring), NEW j \in 1 .. Len(engine'.ring), i <= j
          PROVE  engine'.ring[i] <= engine'.ring[j]
      <4>1. /\ i + 1 \in 1 .. Len(engine.ring) /\ j + 1 \in 1 .. Len(engine.ring)
            /\ i + 1 <= j + 1
        BY <2>3, <3>2
      <4>2. engine.ring[i + 1] <= engine.ring[j + 1]
        BY <4>1 DEF OrderInv, EngineInOrder
      <4>3. QED
        BY <2>3, <4>2
    <3>3. QED
      BY <3>1, <3>2 DEF EngineInOrder
  <2>8. DeferredInOrder' /\ engine'.deferred \in Nat
    BY <1>3, <2>1 DEF DeferredInOrder, OrderInv, PcmShape
  <2>9. QED
    BY <1>1, <2>1, <2>3, <2>5, <2>6, <2>7, <2>8
<1>4. QED
  BY <1>2, <1>3

\* A block is rendered; the worker holds it until it is published.
LEMMA RenderBlockOrder ==
  ASSUME AudioInv, OrderInv, RenderBlock
  PROVE  OrderInv'
<1>1. /\ engine.ring # <<>> /\ engine' = [Flushed(engine) EXCEPT !.ring = Tail(@)]
      /\ worker' = [Worker("publish") EXCEPT !.session = Head(Flushed(engine).ring)]
      /\ ready' = [ready EXCEPT ![writeIndex] = NoBlock]
      /\ UNCHANGED <<readIndex, writeIndex, source, device, session, frame>>
      /\ worker.pc = "drain"
  BY DEF RenderBlock, history
<1>2. PICK h : h = Head(Flushed(engine).ring)
  OBVIOUS
<1>3. /\ h \in Nat
      /\ {"ring", "pendingReset", "deferred", "last"} \subseteq DOMAIN engine'
      /\ engine'.ring \in Seq(Nat) /\ engine'.deferred \in Nat
      /\ \A n : FromSource(n) => FromSource(n)'
      /\ \A n : FromEngine(n) => FromEngine(n)' /\ n <= h
      /\ FromEngine(h)' /\ DeferredInOrder' /\ EngineInOrder'
  BY <1>1, <1>2, RenderedFirst
<1>4. /\ worker'.pc = "publish" /\ worker'.session = h
      /\ {"pc", "session", "left"} \subseteq DOMAIN worker'
  BY <1>1, <1>2 DEF Worker
<1>5. /\ \A i \in Indices : i # writeIndex => ready'[i] = ready[i]
      /\ ready'[writeIndex].session = 0
      /\ \A i \in Indices : Occupied(i)' <=> Occupied(i)
      /\ \A i \in Indices : Pos(i)' = Pos(i)
      /\ ~Occupied(writeIndex)
  <2>1. readIndex \in Nat /\ writeIndex \in Nat
    BY TransportAssumption DEF AudioInv, Shape, Indices
  <2>2. QED
    BY <1>1, <2>1 DEF AudioInv, Shape, NoBlock, Occupied, Pos
<1>6. PcmShape'
  BY <1>1, <1>3, <1>4, <1>5, SMTT(20) DEF OrderInv, PcmShape
<1>7. SourceInOrder'
  BY <1>1 DEF OrderInv, SourceInOrder
<1>8. WorkerInOrder'
  BY <1>3, <1>4 DEF WorkerInOrder
<1>9. ASSUME NEW n, FromWorker(n) PROVE FromWorker(n)'
  BY <1>3, <1>4, <1>9 DEF FromWorker
<1>10. ReadyInOrder'
  BY <1>5, <1>9 DEF OrderInv, ReadyInOrder
<1>11. HeardInOrder'
  BY <1>1, <1>5, <1>9 DEF OrderInv, HeardInOrder, FromReady
<1>12. QED
  BY <1>3, <1>6, <1>7, <1>8, <1>10, <1>11 DEF OrderInv

\* The block published is not earlier than those before it in the ring.
LEMMA PublishBlockOrder ==
  ASSUME AudioInv, OrderInv, PublishBlock
  PROVE  OrderInv'
<1>1. /\ worker.pc = "publish" /\ worker' = Worker("depth")
      /\ ready' = [ready EXCEPT ![writeIndex] = [session |-> worker.session, epoch |-> epoch]]
      /\ writeIndex' = nextReadyIndex(writeIndex)
      /\ UNCHANGED <<readIndex, source, engine, device, session, frame>>
  BY DEF PublishBlock, history
<1>2. /\ readIndex \in 0 .. ReadyChunks /\ writeIndex \in 0 .. ReadyChunks
      /\ ReadyChunks \in Nat \ {0}
      /\ nextReadyIndex(writeIndex) = IF writeIndex = ReadyChunks THEN 0 ELSE writeIndex + 1
      /\ nextReadyIndex(writeIndex) # readIndex
  BY <1>1, TransportAssumption, NextReadyIndex DEF AudioInv, Shape, RoomLeft, Indices
<1>3. PICK h : h = worker.session
  OBVIOUS
<1>4. h \in Nat /\ FromEngine(h)
  BY <1>1, <1>3 DEF OrderInv, PcmShape, WorkerInOrder
<1>5. /\ \A i \in Indices : i # writeIndex => ready'[i] = ready[i]
      /\ ready'[writeIndex].session = h
  BY <1>1, <1>3 DEF AudioInv, Shape
<1>6. /\ \A i \in Indices : Occupied(i)' => Occupied(i) \/ i = writeIndex
      /\ \A i \in Indices : Pos(i)' = Pos(i)
      /\ \A i \in Indices : Occupied(i) => i # writeIndex /\ ~(Pos(writeIndex) <= Pos(i))
  BY <1>1, <1>2 DEF Occupied, Pos, Indices
<1>7. worker'.pc = "depth" /\ {"pc", "session", "left"} \subseteq DOMAIN worker'
  BY <1>1 DEF Worker
<1>8. PcmShape'
  BY <1>1, <1>4, <1>5, <1>7 DEF OrderInv, PcmShape
<1>9. ASSUME NEW n PROVE FromEngine(n) => FromEngine(n)' /\ FromWorker(n)'
  BY <1>1, <1>7 DEF FromEngine, FromDeferred, FromSource, FromWorker
<1>10. SourceInOrder' /\ DeferredInOrder' /\ EngineInOrder' /\ WorkerInOrder'
  BY <1>1, <1>7 DEF OrderInv, SourceInOrder, DeferredInOrder, EngineInOrder, WorkerInOrder,
                    FromDeferred, FromSource
<1>11. ASSUME NEW n PROVE FromWorker(n) => FromWorker(n)' /\ n <= h
  BY <1>1, <1>3, <1>9 DEF FromWorker
<1>12. ReadyInOrder'
  <2>1. ASSUME NEW i \in Indices, Occupied(i)', NEW n, n = ready'[i].session
        PROVE  FromWorker(n)'
    BY <1>4, <1>5, <1>6, <1>9, <1>11, <2>1 DEF OrderInv, ReadyInOrder
  <2>2. ASSUME NEW i \in Indices, NEW j \in Indices, Occupied(i)', Occupied(j)',
               (Pos(i) <= Pos(j))'
        PROVE  ready'[i].session <= ready'[j].session
    <3>1. CASE j = writeIndex
      BY <1>4, <1>5, <1>6, <1>11, <2>2, <3>1 DEF OrderInv, ReadyInOrder
    <3>2. CASE j # writeIndex
      BY <1>5, <1>6, <2>2, <3>2 DEF OrderInv, ReadyInOrder
    <3>3. QED
      BY <3>1, <3>2
  <2>3. QED
    BY <2>1, <2>2 DEF ReadyInOrder
<1>13. HeardInOrder'
  BY <1>1, <1>5, <1>6, <1>11 DEF OrderInv, HeardInOrder, FromReady
<1>14. QED
  BY <1>8, <1>10, <1>12, <1>13 DEF OrderInv

\* The block copied is the first in the ring; what is left is not earlier.
LEMMA CopyBlockOrder ==
  ASSUME AudioInv, OrderInv, CopyBlock
  PROVE  OrderInv' /\ device'.heard >= device.heard
<1>1. /\ device.pc = "copy" /\ device'.heard = ready[readIndex].session
      /\ {"pc", "heard"} \subseteq DOMAIN device'
      /\ ready' = [ready EXCEPT ![readIndex] = NoBlock]
      /\ readIndex' = nextReadyIndex(readIndex)
      /\ UNCHANGED <<writeIndex, source, engine, worker, session, frame>>
  BY DEF CopyBlock, deviceFrame, history, OrderInv, PcmShape
<1>2. /\ readIndex \in 0 .. ReadyChunks /\ writeIndex \in 0 .. ReadyChunks
      /\ ReadyChunks \in Nat \ {0}
      /\ nextReadyIndex(readIndex) = IF readIndex = ReadyChunks THEN 0 ELSE readIndex + 1
      /\ readIndex # writeIndex
  BY <1>1, TransportAssumption, NextReadyIndex DEF AudioInv, Shape, BlockThere, Indices
<1>3. /\ Occupied(readIndex) /\ \A i \in Indices : Pos(readIndex) <= Pos(i)
      /\ \A i \in Indices : Occupied(i)' => Occupied(i) /\ i # readIndex
      /\ \A i, j \in Indices : Occupied(i)' /\ Occupied(j)' /\ Pos(i)' <= Pos(j)' => Pos(i) <= Pos(j)
  BY <1>1, <1>2 DEF Occupied, Pos, Indices
<1>4. readIndex \in Indices /\ ready[readIndex].session \in Nat
  BY <1>2 DEF Indices, OrderInv, PcmShape
<1>5. /\ \A i \in Indices : i # readIndex => ready'[i] = ready[i]
      /\ ready'[readIndex].session = 0
  BY <1>1, <1>4 DEF AudioInv, Shape, NoBlock
<1>6. PcmShape'
  BY <1>1, <1>4, <1>5 DEF OrderInv, PcmShape
<1>7. ASSUME NEW n
      PROVE  /\ FromSource(n) <=> FromSource(n)'
             /\ FromDeferred(n) <=> FromDeferred(n)'
             /\ FromEngine(n) <=> FromEngine(n)'
             /\ FromWorker(n) <=> FromWorker(n)'
  BY <1>1 DEF FromSource, FromDeferred, FromEngine, FromWorker
<1>8. SourceInOrder' /\ DeferredInOrder' /\ EngineInOrder' /\ WorkerInOrder'
  BY <1>1, <1>7 DEF OrderInv, SourceInOrder, DeferredInOrder, EngineInOrder, WorkerInOrder
<1>9. ReadyInOrder'
  BY <1>3, <1>5, <1>7 DEF OrderInv, ReadyInOrder
<1>10. \A i \in Indices : Occupied(i) => ready[readIndex].session <= ready[i].session
  BY <1>3, <1>4 DEF OrderInv, ReadyInOrder
<1>11. PICK h : h = ready[readIndex].session
  OBVIOUS
<1>12. FromWorker(h)'
  BY <1>3, <1>4, <1>7, <1>11 DEF OrderInv, ReadyInOrder
<1>13. HeardInOrder'
  BY <1>1, <1>3, <1>5, <1>10, <1>11, <1>12 DEF HeardInOrder, FromReady
<1>14. device'.heard >= device.heard
  BY <1>1, <1>3, <1>4 DEF OrderInv, PcmShape, HeardInOrder, FromReady
<1>15. QED
  BY <1>6, <1>8, <1>9, <1>13, <1>14 DEF OrderInv

\* An open finds both rings empty and no thread; what the engine still holds goes first.
LEMMA OpenDeviceOrder ==
  ASSUME AudioInv, OrderInv, OpenDevice
  PROVE  OrderInv' /\ device'.heard = device.heard
<1>1. /\ device'.heard = device.heard /\ {"pc", "heard"} \subseteq DOMAIN device'
      /\ source' = <<>> /\ readIndex' = 0 /\ UNCHANGED <<session, frame>>
      /\ worker'.pc = "wait" /\ {"pc", "session", "left"} \subseteq DOMAIN worker'
  BY DEF OpenDevice, Worker, OrderInv, PcmShape
<1>2. CASE engine.ring = <<>>
  <2>1. EmptyReadyRing /\ engine' = engine
    BY <1>1, <1>2 DEF OpenDevice, EmptyReadyRing
  <2>2. QED
    BY <1>1, <2>1, OrderEmptied
<1>3. CASE engine.ring # <<>>
  <2>1. PICK h : h = Head(Flushed(engine).ring)
    OBVIOUS
  <2>2. /\ engine' = [Flushed(engine) EXCEPT !.ring = Tail(@)]
        /\ ready' = [i \in Indices |-> IF i = 0 THEN [session |-> h, epoch |-> epoch'] ELSE NoBlock]
        /\ writeIndex' = 1
    BY <1>3, <2>1 DEF OpenDevice
  <2>3. /\ h \in Nat
        /\ {"ring", "pendingReset", "deferred", "last"} \subseteq DOMAIN engine'
        /\ engine'.ring \in Seq(Nat) /\ engine'.deferred \in Nat
        /\ \A n : FromSource(n) => FromSource(n)'
        /\ \A n : FromEngine(n) => FromEngine(n)' /\ n <= h
        /\ FromEngine(h)' /\ DeferredInOrder' /\ EngineInOrder'
    BY <1>1, <1>3, <2>1, <2>2, RenderedFirst
  <2>4. /\ \A i \in Indices : Occupied(i)' => i = 0
        /\ 0 \in Indices /\ ready'[0].session = h
        /\ \A i \in Indices : ready'[i].session \in Nat
    BY <1>1, <2>2, <2>3, TransportAssumption DEF Occupied, Indices, NoBlock
  <2>5. PcmShape'
    BY <1>1, <2>3, <2>4, EmptySeq DEF OrderInv, PcmShape
  <2>6. Len(source') = 0
    BY <1>1, EmptySeq
  <2>7. SourceInOrder' /\ WorkerInOrder'
    BY <1>1, <2>6 DEF SourceInOrder, WorkerInOrder
  <2>8. ASSUME NEW n, FromEngine(n) PROVE FromWorker(n)' /\ n <= h
    BY <1>1, <2>3, <2>8 DEF FromWorker
  <2>9. FromWorker(h)'
    BY <1>1, <2>3 DEF FromWorker
  <2>10. ReadyInOrder'
    BY <2>3, <2>4, <2>9 DEF ReadyInOrder
  <2>11. HeardInOrder'
    BY <1>1, <2>4, <2>8 DEF OrderInv, HeardInOrder, FromReady, FromWorker
  <2>12. QED
    BY <1>1, <2>3, <2>5, <2>7, <2>10, <2>11 DEF OrderInv
<1>4. QED
  BY <1>2, <1>3

\* A transport that was never opened.
LEMMA OrderInit ==
  ASSUME Init
  PROVE  OrderInv
<1>1. Len(source) = 0 /\ Len(engine.ring) = 0 /\ engine.pendingReset = FALSE
  BY EmptySeq DEF Init, FreshEngine
<1>2. PcmShape
  BY TransportAssumption, EmptySeq DEF Init, PcmShape, Worker, NoBlock, NoSession, FreshEngine
<1>3. \A i \in Indices : ~Occupied(i)
  BY TransportAssumption DEF Init, Occupied, Indices
<1>4. SourceInOrder /\ DeferredInOrder /\ EngineInOrder /\ WorkerInOrder
  BY <1>1 DEF Init, SourceInOrder, DeferredInOrder, EngineInOrder, WorkerInOrder, Worker
<1>5. ReadyInOrder /\ HeardInOrder
  BY <1>1, <1>3 DEF Init, ReadyInOrder, HeardInOrder, FromReady, FromWorker, FromEngine,
                    FromDeferred, FromSource, Worker, NoSession
<1>6. QED
  BY <1>2, <1>4, <1>5 DEF OrderInv

\* Every step keeps the order, and what is heard does not go back.
LEMMA OrderNext ==
  ASSUME AudioInv, OrderInv, [Next]_vars
  PROVE  OrderInv' /\ device'.heard >= device.heard
<1>1. device.heard \in Nat /\ {"pc", "heard"} \subseteq DOMAIN device
  BY DEF OrderInv, PcmShape
<1>2. CASE UNCHANGED vars
  BY <1>1, <1>2, OrderStutter DEF vars, ring, history, OrderInv, PcmShape
<1>3. CASE \/ BumpEpoch \/ PauseLane \/ ResumeLane \/ CloseDevice \/ RequestStop
  <2>1. /\ UNCHANGED <<session, frame, source, engine, ready, readIndex, writeIndex, worker>>
        /\ device'.heard = device.heard /\ {"pc", "heard"} \subseteq DOMAIN device'
    BY <1>1, <1>3 DEF BumpEpoch, PauseLane, ResumeLane, CloseDevice, RequestStop, DeviceGoTo,
                      ring, history
  <2>2. QED
    BY <1>1, <2>1, OrderStutter DEF OrderInv, PcmShape
<1>4. CASE ClearReadyQueue \/ ResetStream \/ StopTransport
  <2>1. /\ UNCHANGED <<session, frame, device>> /\ EmptyReadyRing
        /\ source' = source \/ source' = <<>>
        /\ engine' = engine \/ engine' = FreshEngine
    BY <1>4 DEF ClearReadyQueue, ResetStream, StopTransport, history
  <2>2. /\ worker'.pc \notin {"publish", "drain"}
        /\ {"pc", "session", "left"} \subseteq DOMAIN worker'
    <3>1. CASE ClearReadyQueue
      BY <3>1 DEF ClearReadyQueue, AudioInv, MutexHeld, OrderInv, PcmShape
    <3>2. CASE ResetStream
      BY <3>2 DEF ResetStream, canPerformReset, AudioInv, ThreadsJoined, OrderInv, PcmShape
    <3>3. CASE StopTransport
      BY <3>3 DEF StopTransport, Worker
    <3>4. QED
      BY <1>4, <3>1, <3>2, <3>3
  <2>3. QED
    BY <1>1, <2>1, <2>2, OrderEmptied
<1>5. CASE SubmitSourceBlock \/ Mutate
  <2>1. UNCHANGED device
    BY <1>5 DEF SubmitSourceBlock, Mutate
  <2>2. QED
    BY <1>1, <1>5, <2>1, SubmitSourceBlockOrder, MutateOrder
<1>6. CASE OpenDevice
  BY <1>1, <1>6, OpenDeviceOrder
<1>7. CASE WorkerWake \/ ProduceBegin \/ ProduceNothing \/ LoadDepth \/ MaybeMarkTransportPrimed
  <2>1. /\ UNCHANGED <<session, frame, source, engine, ready, readIndex, writeIndex, device>>
        /\ {"pc", "session", "left"} \subseteq DOMAIN worker'
        /\ worker'.pc # "publish"
    BY <1>7 DEF WorkerWake, ProduceBegin, ProduceNothing, LoadDepth, MaybeMarkTransportPrimed,
                Worker, ring, history
  <2>2. worker'.pc = "drain" => worker'.left = Len(source) /\ Len(source) \in Nat
    <3>1. worker'.pc = "drain" => worker'.left = Len(source)
      BY <1>7 DEF WorkerWake, ProduceBegin, ProduceNothing, LoadDepth, MaybeMarkTransportPrimed,
                  Worker
    <3>2. Len(source) \in Nat
      BY LenProperties DEF OrderInv, PcmShape
    <3>3. QED
      BY <3>1, <3>2
  <2>3. QED
    BY <1>1, <2>1, <2>2, OrderStutter
<1>8. CASE DrainSourceBlock \/ RenderBlock \/ PublishBlock
  <2>1. UNCHANGED device
    BY <1>8 DEF DrainSourceBlock, RenderBlock, PublishBlock
  <2>2. QED
    BY <1>1, <1>8, <2>1, DrainSourceBlockOrder, RenderBlockOrder, PublishBlockOrder
<1>9. CASE CopyBlock
  BY <1>9, CopyBlockOrder
<1>10. CASE PollPrimed \/ GateDrain \/ EnterDrain \/ CheckPrimed \/ CheckIndex \/ Underrun \/ LeaveDrain
  <2>1. /\ UNCHANGED <<session, frame, source, engine, ready, readIndex, writeIndex, worker>>
        /\ device'.heard = device.heard /\ {"pc", "heard"} \subseteq DOMAIN device'
    BY <1>1, <1>10 DEF PollPrimed, GateDrain, EnterDrain, CheckPrimed, CheckIndex, Underrun,
                       LeaveDrain, DeviceGoTo, deviceFrame, history
  <2>2. QED
    BY <1>1, <2>1, OrderStutter DEF OrderInv, PcmShape
<1>11. QED
  BY <1>2, <1>3, <1>4, <1>5, <1>6, <1>7, <1>8, <1>9, <1>10
     DEF Next, ControlStep, ControlCall, WorkerNext, DeviceNext

\* Old PCM never comes back: no session heard is followed by an earlier one, whatever was
\* left in the rings, in the engine or deferred in it, across resets, opens and closes
\* (AudioService.hpp drainReadyOutput; AudioEngine.hpp appendRecentPcm, render).
THEOREM OldPcmNeverReturns == Spec => SessionsInOrder
<1>1. AudioInv /\ OrderInv /\ [Next]_vars => [device'.heard >= device.heard]_vars
  BY OrderNext
<1>2. AudioInv /\ OrderInv /\ [Next]_vars => OrderInv'
  BY OrderNext
<1>3. QED
  BY <1>1, <1>2, OrderInit, AudioInvariant, PTL DEF Spec, SessionsInOrder

-----------------------------------------------------------------------------
(* Sequences of events, taken one after the other.                         *)

\* A set of numbers that is not empty has a least one.
LEMMA LeastNumber ==
  ASSUME NEW S, S \subseteq Nat, S # {}
  PROVE  \E n \in S : \A m \in S : n <= m
<1>1. PICK top \in S : TRUE
  OBVIOUS
<1> DEFINE Low == S \cap (0 .. top)
           Unbounded == {T \in SUBSET Low : T # {} /\ ~ \E n \in T : \A m \in T : n <= m}
<1>2. IsFiniteSet(Low)
  <2>1. top \in Nat /\ Low \in SUBSET (0 .. top)
    BY <1>1
  <2>2. IsFiniteSet(0 .. top)
    BY <2>1, FS_Interval
  <2> HIDE DEF Low
  <2> QED BY <2>1, <2>2, FS_Subset
<1>3. Unbounded = {}
  <2> SUFFICES ASSUME Unbounded # {} PROVE FALSE
    OBVIOUS
  <2>1. IsWellFoundedOn(StrictSubsetOrdering(Low), SUBSET Low)
    <3> HIDE DEF Low
    <3> QED BY <1>2, FS_StrictSubsetOrderingWellFounded, FS_FiniteSubsetsOfFinite
  <2>2. PICK T \in Unbounded : \A U \in Unbounded : ~ (<<U, T>> \in StrictSubsetOrdering(Low))
    <3>1. Unbounded \subseteq SUBSET Low
      OBVIOUS
    <3> HIDE DEF Unbounded
    <3> QED BY <2>1, <3>1, WFMin
  <2>3. PICK n \in T : TRUE
    OBVIOUS
  <2>4. T \ {n} \notin Unbounded
    BY <2>2 DEF StrictSubsetOrdering
  <2>5. CASE T \ {n} = {}
    BY <2>5, <2>3
  <2>6. CASE T \ {n} # {}
    <3>1. PICK m \in T \ {n} : \A x \in T \ {n} : m <= x
      BY <2>4, <2>6
    <3>2. CASE n <= m
      BY <3>1, <3>2
    <3>3. CASE m <= n
      BY <3>1, <3>3, <2>3
    <3> QED BY <3>1, <3>2, <3>3, <2>3
  <2> QED BY <2>5, <2>6
<1>4. top \in Low
  BY <1>1
<1>5. PICK n \in Low : \A m \in Low : n <= m
  <2> HIDE DEF Low
  <2> QED BY <1>3, <1>4
<1> QED BY <1>1, <1>5

\* A property of 0 that each number hands to the next one holds up to any number.
LEMMA Climbs ==
    ASSUME NEW N \in Nat, NEW S \in SUBSET Nat, 0 \in S,
           \A n \in Nat : n < N /\ n \in S => n + 1 \in S
    PROVE  \A n \in 0 .. N : n \in S
<1> SUFFICES ASSUME {n \in 0 .. N : n \notin S} # {} PROVE FALSE
  OBVIOUS
<1>1. {n \in 0 .. N : n \notin S} \in SUBSET Nat
  OBVIOUS
<1>2. PICK n \in {m \in 0 .. N : m \notin S} : \A m \in {k \in 0 .. N : k \notin S} : n <= m
  BY <1>1, LeastNumber
<1>3. n # 0
  BY <1>2
<1>4. PICK k \in Nat : n = k + 1 /\ k < N
  BY <1>2, <1>3
<1>5. k \in S
  BY <1>2, <1>4
<1> QED BY <1>2, <1>4, <1>5

\* What a chip tells: PsgEvent's records.
KindNames == {"StateSnapshot", "GateOn", "GateOff", "Retrigger", "PitchChange", "TimbreChange",
              "LevelChange", "RoutingChange", "RawWrite"}
Told(V) == [voice : V, kind : KindNames, gate : BOOLEAN, at : Nat]
Notes(V) == [V -> BOOLEAN]

\* The notes after each event are those of a recursive function.
LEMMA EachNote ==
    ASSUME NEW V, NEW h, NEW s \in Seq(Told(V))
    PROVE  HeldAfterEach(h, s) = [n \in 0 .. Len(s) |-> IF n = 0 THEN h
                                     ELSE HeldAfter(HeldAfterEach(h, s)[n - 1], s[n])]
<1> DEFINE Taken1(f, k) == f = [n \in 0 .. k |-> IF n = 0 THEN h ELSE HeldAfter(f[n - 1], s[n])]
           Reached == {k \in Nat : \E f : Taken1(f, k)}
<1>1. 0 \in Reached
  <2>1. Taken1([n \in 0 .. 0 |-> h], 0)
    OBVIOUS
  <2> QED BY <2>1
<1>2. ASSUME NEW k \in Nat, k \in Reached PROVE k + 1 \in Reached
  <2>1. PICK f : Taken1(f, k)
    BY <1>2
  <2>2. PICK x : x = HeldAfter(f[k], s[k + 1])
    OBVIOUS
  <2>3. PICK g : g = [n \in 0 .. k + 1 |-> IF n = k + 1 THEN x ELSE f[n]]
    OBVIOUS
  <2>4. g = [n \in 0 .. k + 1 |-> IF n = 0 THEN h ELSE HeldAfter(g[n - 1], s[n])]
    <3>1. ASSUME NEW n \in 0 .. k + 1
          PROVE  g[n] = IF n = 0 THEN h ELSE HeldAfter(g[n - 1], s[n])
      <4>1. CASE n = k + 1
        <5>1. g[n] = x /\ g[n - 1] = f[k]
          BY <2>3, <4>1
        <5> QED BY <5>1, <2>2, <4>1
      <4>2. CASE n # k + 1
        <5>1. n \in 0 .. k /\ g[n] = f[n] /\ (n # 0 => g[n - 1] = f[n - 1])
          BY <2>3, <4>2
        <5>2. f[n] = IF n = 0 THEN h ELSE HeldAfter(f[n - 1], s[n])
          BY <5>1, <2>1
        <5> QED BY <5>1, <5>2
      <4> QED BY <4>1, <4>2
    <3> QED BY <2>3, <3>1
  <2>5. Taken1(g, k + 1)
    BY <2>4
  <2> HIDE DEF Taken1
  <2> QED BY <2>5
<1>3. PICK f : Taken1(f, Len(s))
  <2>1. Len(s) \in Nat
    OBVIOUS
  <2>2. Reached \in SUBSET Nat
    OBVIOUS
  <2> HIDE DEF Reached
  <2>3. \A n \in 0 .. Len(s) : n \in Reached
    BY <1>1, <1>2, <2>1, <2>2, Climbs
  <2>4. Len(s) \in Reached
    BY <2>1, <2>3
  <2> QED BY <2>4 DEF Reached
<1>4. Taken1(HeldAfterEach(h, s), Len(s))
  <2>1. HeldAfterEach(h, s) = CHOOSE g : Taken1(g, Len(s))
    BY DEF HeldAfterEach
  <2> HIDE DEF Taken1
  <2> QED BY <1>3, <2>1
<1> QED BY <1>4

\* Before the first event the notes are as given; each event changes them as HeldAfter says.
LEMMA NoteByNote ==
    ASSUME NEW V, NEW h, NEW s \in Seq(Told(V))
    PROVE  /\ HeldAfterEach(h, s)[0] = h
           /\ \A n \in Nat : n < Len(s) =>
                 HeldAfterEach(h, s)[n + 1] = HeldAfter(HeldAfterEach(h, s)[n], s[n + 1])
<1>1. PICK f : f = HeldAfterEach(h, s)
  OBVIOUS
<1>2. f = [n \in 0 .. Len(s) |-> IF n = 0 THEN h ELSE HeldAfter(f[n - 1], s[n])]
  BY <1>1, EachNote
<1>3. Len(s) \in Nat
  OBVIOUS
<1>4. f[0] = h
  BY <1>2, <1>3
<1>5. ASSUME NEW n \in Nat, n < Len(s) PROVE f[n + 1] = HeldAfter(f[n], s[n + 1])
  <2>1. n + 1 \in 0 .. Len(s) /\ n + 1 # 0 /\ (n + 1) - 1 = n
    BY <1>3, <1>5
  <2> QED BY <2>1, <1>2
<1> QED BY <1>1, <1>4, <1>5

\* An event makes notes of notes.
LEMMA HeldAfterIsNotes ==
    ASSUME NEW V, NEW h \in Notes(V), NEW e \in Told(V)
    PROVE  HeldAfter(h, e) \in Notes(V)
<1>1. e.voice \in V /\ e.gate \in BOOLEAN /\ (h[e.voice] /\ e.gate) \in BOOLEAN
  BY DEF Told, Notes
<1>2. \A b \in BOOLEAN : [h EXCEPT ![e.voice] = b] \in Notes(V)
  BY <1>1 DEF Notes
<1>3. CASE e.kind \in Starts
  BY <1>1, <1>2, <1>3 DEF HeldAfter, Starts, Ends
<1>4. CASE e.kind \in Ends
  BY <1>1, <1>2, <1>4 DEF HeldAfter, Starts, Ends
<1>5. CASE e.kind = "LevelChange"
  <2>1. HeldAfter(h, e) = [h EXCEPT ![e.voice] = h[e.voice] /\ e.gate]
    BY <1>5 DEF HeldAfter, Starts, Ends
  <2> QED BY <2>1, <1>1, <1>2
<1>6. CASE e.kind \notin Starts \cup Ends \cup {"LevelChange"}
  BY <1>6 DEF HeldAfter, Starts, Ends
<1> QED BY <1>3, <1>4, <1>5, <1>6

\* An event leaves the notes of other voices, and the one it does not settle.
LEMMA NoteLeft ==
    ASSUME NEW V, NEW h \in Notes(V), NEW e \in Told(V), NEW v \in V, v # e.voice \/ ~Settles(e)
    PROVE  HeldAfter(h, e)[v] = h[v]
<1>1. e.voice \in V /\ e.gate \in BOOLEAN /\ h[e.voice] \in BOOLEAN /\ DOMAIN h = V
  BY DEF Told, Notes
<1>2. CASE v # e.voice
  <2>1. \A x : [h EXCEPT ![e.voice] = x][v] = h[v]
    BY <1>1, <1>2
  <2> QED BY <2>1 DEF HeldAfter
<1>3. CASE ~Settles(e) /\ e.kind = "LevelChange"
  <2>1. HeldAfter(h, e) = [h EXCEPT ![e.voice] = h[e.voice] /\ e.gate] /\ e.gate
    BY <1>3 DEF HeldAfter, Settles, Starts, Ends
  <2>2. (h[e.voice] /\ e.gate) = h[e.voice]
    BY <1>1, <2>1
  <2>3. HeldAfter(h, e) = [h EXCEPT ![e.voice] = h[e.voice]]
    BY <2>1, <2>2
  <2> QED BY <2>3, <1>1
<1>4. CASE ~Settles(e) /\ e.kind # "LevelChange"
  BY <1>4 DEF HeldAfter, Settles, Starts, Ends
<1> QED BY <1>2, <1>3, <1>4

\* An event that settles a note leaves it as its gate says.
LEMMA NoteSettled ==
    ASSUME NEW V, NEW h \in Notes(V), NEW e \in Told(V), e.kind = "GateOff" => ~e.gate, Settles(e)
    PROVE  HeldAfter(h, e)[e.voice] = e.gate
<1>1. e.voice \in V /\ e.gate \in BOOLEAN /\ h[e.voice] \in BOOLEAN /\ DOMAIN h = V
  BY DEF Told, Notes
<1>2. \A x : [h EXCEPT ![e.voice] = x][e.voice] = x
  BY <1>1
<1>3. CASE e.kind \in Starts
  BY <1>2, <1>3 DEF HeldAfter, Starts, Ends
<1>4. CASE e.kind \in Ends
  <2>1. HeldAfter(h, e) = [h EXCEPT ![e.voice] = FALSE] /\ e.gate = FALSE
    BY <1>1, <1>4 DEF HeldAfter, Starts, Ends
  <2> QED BY <2>1, <1>2
<1>5. CASE e.kind = "LevelChange" /\ ~e.gate
  <2>1. HeldAfter(h, e) = [h EXCEPT ![e.voice] = h[e.voice] /\ e.gate]
    BY <1>5 DEF HeldAfter, Starts, Ends
  <2>2. (h[e.voice] /\ e.gate) = e.gate
    BY <1>1, <1>5
  <2> QED BY <2>1, <2>2, <1>2
<1> QED BY <1>3, <1>4, <1>5 DEF Settles

\* Notes stay notes throughout the events.
LEMMA NotesThroughout ==
    ASSUME NEW V, NEW h \in Notes(V), NEW s \in Seq(Told(V))
    PROVE  \A n \in 0 .. Len(s) : HeldAfterEach(h, s)[n] \in Notes(V)
<1>1. PICK f : f = HeldAfterEach(h, s)
  OBVIOUS
<1>2. f[0] = h /\ \A n \in Nat : n < Len(s) => f[n + 1] = HeldAfter(f[n], s[n + 1])
  BY <1>1, NoteByNote
<1>3. PICK S : S = {n \in Nat : f[n] \in Notes(V)}
  OBVIOUS
<1>4. ASSUME NEW n \in Nat, n < Len(s), n \in S PROVE n + 1 \in S
  <2>1. s[n + 1] \in Told(V) /\ f[n] \in Notes(V)
    BY <1>3, <1>4
  <2>2. HeldAfter(f[n], s[n + 1]) \in Notes(V)
    BY <2>1, HeldAfterIsNotes
  <2> QED BY <1>2, <1>3, <1>4, <2>2
<1>5. \A n \in 0 .. Len(s) : n \in S
  <2>1. S \in SUBSET Nat /\ 0 \in S /\ Len(s) \in Nat
    BY <1>2, <1>3
  <2> QED BY <2>1, <1>4, Climbs
<1> QED BY <1>1, <1>3, <1>5

\* Events that follow on others start from the notes those left.
LEMMA NotesJoin ==
    ASSUME NEW V, NEW h \in Notes(V), NEW s \in Seq(Told(V)), NEW t \in Seq(Told(V))
    PROVE  HeldAfterAll(h, s \o t) = HeldAfterAll(HeldAfterAll(h, s), t)
<1>1. PICK f : f = HeldAfterEach(h, s)
  OBVIOUS
<1>2. PICK g : g = HeldAfterEach(h, s \o t)
  OBVIOUS
<1>3. PICK k : k = HeldAfterEach(f[Len(s)], t)
  OBVIOUS
<1>4. f[0] = h /\ \A n \in Nat : n < Len(s) => f[n + 1] = HeldAfter(f[n], s[n + 1])
  BY <1>1, NoteByNote
<1>5. g[0] = h /\ \A n \in Nat : n < Len(s \o t) => g[n + 1] = HeldAfter(g[n], (s \o t)[n + 1])
  <2>0. s \o t \in Seq(Told(V))
    OBVIOUS
  <2>1. PICK u \in Seq(Told(V)) : u = s \o t
    BY ONLY <2>0
  <2>2. HeldAfterEach(h, u)[0] = h /\ \A n \in Nat : n < Len(u) =>
            HeldAfterEach(h, u)[n + 1] = HeldAfter(HeldAfterEach(h, u)[n], u[n + 1])
    BY NoteByNote
  <2> QED BY <1>2, <2>1, <2>2
<1>6. k[0] = f[Len(s)] /\ \A n \in Nat : n < Len(t) => k[n + 1] = HeldAfter(k[n], t[n + 1])
  BY <1>3, NoteByNote
<1>7. PICK a \in Nat, b \in Nat : a = Len(s) /\ b = Len(t)
  OBVIOUS
<1>8. /\ Len(s \o t) = a + b
      /\ \A n \in Nat : n < a => (s \o t)[n + 1] = s[n + 1]
      /\ \A n \in Nat : n < b => (s \o t)[(a + n) + 1] = t[n + 1]
  <2>1. ASSUME NEW n \in Nat, n < b PROVE (s \o t)[(a + n) + 1] = t[n + 1]
    BY <1>7, <2>1
  <2> QED BY <1>7, <2>1
<1>9. g[a] = f[a]
  <2>1. PICK S : S = {n \in Nat : g[n] = f[n]}
    OBVIOUS
  <2>2. S \in SUBSET Nat /\ 0 \in S
    BY <2>1, <1>4, <1>5
  <2>3. ASSUME NEW n \in Nat, n < a, n \in S PROVE n + 1 \in S
    <3>1. g[n + 1] = HeldAfter(g[n], s[n + 1])
      <4>1. n < a + b /\ (s \o t)[n + 1] = s[n + 1]
        BY <1>8, <2>3
      <4>2. g[n + 1] = HeldAfter(g[n], (s \o t)[n + 1])
        BY <1>5, <1>8, <2>3, <4>1
      <4> QED BY <4>1, <4>2
    <3>2. f[n + 1] = HeldAfter(f[n], s[n + 1])
      BY <1>4, <1>7, <2>3
    <3> QED BY <3>1, <3>2, <2>1, <2>3
  <2>4. \A n \in 0 .. a : n \in S
    BY <2>2, <2>3, Climbs
  <2>5. a \in 0 .. a
    OBVIOUS
  <2> QED BY <2>1, <2>4, <2>5
<1>10. g[a + b] = k[b]
  <2>1. PICK S : S = {n \in Nat : g[a + n] = k[n]}
    OBVIOUS
  <2>2. S \in SUBSET Nat /\ 0 \in S
    BY <2>1, <1>6, <1>7, <1>9
  <2>3. ASSUME NEW n \in Nat, n < b, n \in S PROVE n + 1 \in S
    <3>1. (a + n) + 1 = a + (n + 1) /\ a + n \in Nat /\ a + n < a + b
      BY <2>3
    <3>2. g[a + (n + 1)] = HeldAfter(g[a + n], t[n + 1])
      BY <1>5, <1>8, <2>3, <3>1
    <3>3. k[n + 1] = HeldAfter(k[n], t[n + 1])
      BY <1>6, <1>7, <2>3
    <3> QED BY <3>2, <3>3, <2>1, <2>3
  <2>4. \A n \in 0 .. b : n \in S
    BY <2>2, <2>3, Climbs
  <2>5. b \in 0 .. b
    OBVIOUS
  <2> QED BY <2>1, <2>4, <2>5
<1>11. HeldAfterAll(h, s \o t) = g[a + b]
  BY <1>2, <1>8 DEF HeldAfterAll
<1>12. HeldAfterAll(HeldAfterAll(h, s), t) = k[b]
  BY <1>1, <1>3, <1>7 DEF HeldAfterAll
<1> QED BY <1>10, <1>11, <1>12

\* Where the events about a voice all carry one gate, the note is left at that gate,
\* or left alone.
LEMMA OneGate ==
    ASSUME NEW V, NEW h \in Notes(V), NEW s \in Seq(Told(V)), NEW v \in V, NEW gate \in BOOLEAN,
           \A i \in 1 .. Len(s) : s[i].voice = v =>
               s[i].gate = gate /\ (s[i].kind = "GateOff" => ~gate)
    PROVE  /\ HeldAfterAll(h, s) \in Notes(V)
           /\ HeldAfterAll(h, s)[v] =
                 IF \E i \in 1 .. Len(s) : s[i].voice = v /\ Settles(s[i]) THEN gate ELSE h[v]
<1> DEFINE Settled(n) == \E i \in 1 .. n : s[i].voice = v /\ Settles(s[i])
<1>1. PICK f : f = HeldAfterEach(h, s)
  OBVIOUS
<1>2. f[0] = h /\ \A n \in Nat : n < Len(s) => f[n + 1] = HeldAfter(f[n], s[n + 1])
  BY <1>1, NoteByNote
<1>3. \A n \in 0 .. Len(s) : f[n] \in Notes(V)
  BY <1>1, NotesThroughout
<1>4. PICK S : S = {n \in Nat : f[n][v] = IF Settled(n) THEN gate ELSE h[v]}
  OBVIOUS
<1>5. 0 \in S
  <2>1. ~Settled(0)
    OBVIOUS
  <2> HIDE DEF Settled
  <2> QED BY <2>1, <1>2, <1>4
<1>6. ASSUME NEW n \in Nat, n < Len(s), n \in S PROVE n + 1 \in S
  <2>1. PICK e \in Told(V) : e = s[n + 1]
    BY <1>6
  <2>2. f[n] \in Notes(V)
    BY <1>3, <1>6
  <2>3. PICK m \in Notes(V) : m = f[n]
    BY <2>2
  <2>4. e.voice = v => e.gate = gate /\ (e.kind = "GateOff" => ~gate)
    BY <1>6, <2>1
  <2>5. Settled(n + 1) <=> Settled(n) \/ (e.voice = v /\ Settles(e))
    <3>1. \A i : i \in 1 .. n + 1 <=> i \in 1 .. n \/ i = n + 1
      BY <1>6
    <3> QED BY <2>1, <3>1
  <2>6. f[n][v] = IF Settled(n) THEN gate ELSE h[v]
    BY <1>4, <1>6
  <2> HIDE DEF Settled
  <2>7. f[n + 1][v] = IF Settled(n + 1) THEN gate ELSE h[v]
    <3>0. f[n + 1] = HeldAfter(m, e)
      BY <1>2, <1>6, <2>1, <2>3
    <3>1. CASE v = e.voice /\ Settles(e)
      <4>1. HeldAfter(m, e)[e.voice] = e.gate
        BY <3>1, <2>4, NoteSettled
      <4> QED BY <4>1, <3>0, <3>1, <2>4, <2>5
    <3>2. CASE ~(v = e.voice /\ Settles(e))
      <4>1. HeldAfter(m, e)[v] = m[v]
        BY <3>2, NoteLeft
      <4>2. Settled(n + 1) <=> Settled(n)
        BY <3>2, <2>5
      <4> QED BY <4>1, <4>2, <3>0, <2>3, <2>6
    <3> QED BY <3>1, <3>2
  <2> QED BY <2>7, <1>4
<1>7. \A n \in 0 .. Len(s) : n \in S
  <2>1. S \in SUBSET Nat /\ Len(s) \in Nat
    BY <1>4
  <2> QED BY <2>1, <1>5, <1>6, Climbs
<1>8. Len(s) \in 0 .. Len(s) /\ HeldAfterAll(h, s) = f[Len(s)]
  BY <1>1 DEF HeldAfterAll
<1> QED BY <1>3, <1>4, <1>7, <1>8

\* The members kept of each prefix are those of a recursive function.
LEMMA EachKept ==
    ASSUME NEW X, NEW order \in Seq(X), NEW S
    PROVE  KeptOfEach(order, S) = [n \in 0 .. Len(order) |->
               IF n = 0 THEN << >>
               ELSE IF order[n] \in S THEN Append(KeptOfEach(order, S)[n - 1], order[n])
                    ELSE KeptOfEach(order, S)[n - 1]]
<1> DEFINE Next1(q, n) == IF order[n] \in S THEN Append(q, order[n]) ELSE q
           Taken1(f, k) == f = [n \in 0 .. k |-> IF n = 0 THEN << >> ELSE Next1(f[n - 1], n)]
           Reached == {k \in Nat : \E f : Taken1(f, k)}
<1>1. 0 \in Reached
  <2>1. Taken1([n \in 0 .. 0 |-> << >>], 0)
    OBVIOUS
  <2> QED BY <2>1
<1>2. ASSUME NEW k \in Nat, k \in Reached PROVE k + 1 \in Reached
  <2> HIDE DEF Next1
  <2>1. PICK f : Taken1(f, k)
    BY <1>2
  <2>2. PICK x : x = Next1(f[k], k + 1)
    OBVIOUS
  <2>3. PICK g : g = [n \in 0 .. k + 1 |-> IF n = k + 1 THEN x ELSE f[n]]
    OBVIOUS
  <2>4. g = [n \in 0 .. k + 1 |-> IF n = 0 THEN << >> ELSE Next1(g[n - 1], n)]
    <3>1. ASSUME NEW n \in 0 .. k + 1
          PROVE  g[n] = IF n = 0 THEN << >> ELSE Next1(g[n - 1], n)
      <4>1. CASE n = k + 1
        <5>1. g[n] = x /\ g[n - 1] = f[k]
          BY <2>3, <4>1
        <5> QED BY <5>1, <2>2, <4>1
      <4>2. CASE n # k + 1
        <5>1. n \in 0 .. k /\ g[n] = f[n] /\ (n # 0 => g[n - 1] = f[n - 1])
          BY <2>3, <4>2
        <5>2. f[n] = IF n = 0 THEN << >> ELSE Next1(f[n - 1], n)
          BY <5>1, <2>1
        <5> QED BY <5>1, <5>2
      <4> QED BY <4>1, <4>2
    <3> QED BY <2>3, <3>1
  <2> QED BY <2>4
<1>3. PICK f : Taken1(f, Len(order))
  <2>1. Len(order) \in Nat
    OBVIOUS
  <2>2. Reached \in SUBSET Nat
    OBVIOUS
  <2> HIDE DEF Reached
  <2>3. \A n \in 0 .. Len(order) : n \in Reached
    BY <1>1, <1>2, <2>1, <2>2, Climbs
  <2>4. Len(order) \in Reached
    BY <2>1, <2>3
  <2> QED BY <2>4 DEF Reached
<1>4. Taken1(KeptOfEach(order, S), Len(order))
  <2>1. KeptOfEach(order, S) = CHOOSE g : Taken1(g, Len(order))
    BY DEF KeptOfEach
  <2> HIDE DEF Taken1
  <2> QED BY <1>3, <2>1
<1> QED BY <1>4

\* What is kept is in S, and nothing of S is left out.
LEMMA KeptIsOrdered ==
    ASSUME NEW X, NEW order \in Seq(X), NEW S
    PROVE  /\ Kept(order, S) \in Seq(S)
           /\ \A i \in 1 .. Len(order) :
                order[i] \in S => \E k \in 1 .. Len(Kept(order, S)) : Kept(order, S)[k] = order[i]
<1>1. PICK f : f = KeptOfEach(order, S)
  OBVIOUS
<1>2. f = [n \in 0 .. Len(order) |-> IF n = 0 THEN << >>
               ELSE IF order[n] \in S THEN Append(f[n - 1], order[n]) ELSE f[n - 1]]
  BY <1>1, EachKept
<1>3. PICK a \in Nat : a = Len(order)
  OBVIOUS
<1> DEFINE Whole(q, n) == /\ q \in Seq(S)
                          /\ \A i \in 1 .. n : order[i] \in S => \E k \in 1 .. Len(q) : q[k] = order[i]
           Good == {n \in Nat : Whole(f[n], n)}
<1>4. 0 \in Good
  <2>1. f[0] = << >>
    BY <1>2, <1>3
  <2>2. << >> \in Seq(S) /\ 1 .. 0 = {}
    OBVIOUS
  <2>3. Whole(<< >>, 0)
    BY <2>2
  <2> QED BY <2>1, <2>3
<1>5. ASSUME NEW n \in Nat, n < a, n \in Good PROVE n + 1 \in Good
  <2>1. Whole(f[n], n)
    BY <1>5
  <2>2. PICK q \in Seq(S) : q = f[n]
    BY <2>1
  <2>3. \A i : i \in 1 .. n + 1 <=> i \in 1 .. n \/ i = n + 1
    BY <1>5
  <2>4. f[n + 1] = IF order[n + 1] \in S THEN Append(q, order[n + 1]) ELSE q
    <3>1. n + 1 \in 0 .. Len(order) /\ n + 1 # 0 /\ (n + 1) - 1 = n
      BY <1>3, <1>5
    <3>2. f[n + 1] = IF n + 1 = 0 THEN << >>
                     ELSE IF order[n + 1] \in S THEN Append(f[(n + 1) - 1], order[n + 1])
                          ELSE f[(n + 1) - 1]
      BY ONLY <1>2, <3>1
    <3> QED BY ONLY <3>1, <3>2, <2>2
  <2>5. CASE order[n + 1] \in S
    <3>0. Append(q, order[n + 1]) \in Seq(S)
      BY <2>5, AppendProperties
    <3>1. PICK r \in Seq(S) : r = Append(q, order[n + 1])
      BY ONLY <3>0
    <3>2. Len(r) = Len(q) + 1 /\ r[Len(r)] = order[n + 1] /\ \A k \in 1 .. Len(q) : r[k] = q[k]
      BY <3>1, <2>5
    <3>3. \A i \in 1 .. n + 1 : order[i] \in S => \E k \in 1 .. Len(r) : r[k] = order[i]
      <4>1. ASSUME NEW i \in 1 .. n + 1, order[i] \in S PROVE \E k \in 1 .. Len(r) : r[k] = order[i]
        <5>1. CASE i = n + 1
          <6>1. Len(r) \in 1 .. Len(r)
            BY <3>2
          <6> QED BY <6>1, <3>2, <5>1
        <5>2. CASE i \in 1 .. n
          <6>1. PICK k \in 1 .. Len(q) : q[k] = order[i]
            BY <2>1, <2>2, <4>1, <5>2
          <6>2. k \in 1 .. Len(r) /\ r[k] = order[i]
            BY <6>1, <3>2
          <6> QED BY <6>2
        <5> QED BY <5>1, <5>2, <2>3
      <4> QED BY <4>1
    <3>4. f[n + 1] = r
      BY <2>4, <2>5, <3>1
    <3> QED BY <3>3, <3>4
  <2>6. CASE order[n + 1] \notin S
    <3>1. f[n + 1] = q
      BY <2>4, <2>6
    <3> QED BY <3>1, <2>1, <2>2, <2>3, <2>6
  <2> QED BY <2>5, <2>6
<1>6. a \in Good
  <2>1. Good \in SUBSET Nat
    OBVIOUS
  <2> HIDE DEF Good
  <2>2. \A n \in 0 .. a : n \in Good
    BY <1>4, <1>5, <2>1, Climbs
  <2> QED BY <2>2
<1>7. Kept(order, S) = f[a]
  BY <1>1, <1>3 DEF Kept
<1>8. Whole(f[a], a)
  BY <1>6
<1> QED BY <1>3, <1>7, <1>8

-----------------------------------------------------------------------------
(* The Game Gear's chip.                                                   *)

Psgs == [att : [PsgVoices -> Nat], on : [Tones -> BOOLEAN],
         latch : [voice : PsgVoices, volume : BOOLEAN], power : BOOLEAN]

Chunks == [total : Nat, begun : Nat, observed : Notes(PsgVoices), events : Seq(Told(PsgVoices))]

\* The chunk begun is not complete, and its events are about it.
MixedRight(m) ==
    /\ m \in Chunks /\ m.begun < PsgChunk /\ m.begun <= m.total
    /\ \A i \in 1 .. Len(m.events) : m.events[i].at <= m.begun

PsgPasts == [writes : Nat, unannounced : SUBSET PsgVoices, next : Nat]

PsgStateRight(s) ==
    s # NoPsgState =>
        s.psg \in Psgs /\ s.total \in Nat /\ s.begun \in Nat /\ s.begun < PsgChunk /\ s.begun <= s.total

\* A voice that has been announced sounds as it was last observed and as its note will be.
Announced(v) ==
    /\ HeldAfterAll(keys, mixed.events)[v] = Gate(psg, v)
    /\ mixed.observed[v] = Gate(psg, v)

GgInv ==
    /\ psg \in Psgs /\ MixedRight(mixed) /\ keys \in Notes(PsgVoices) /\ psgPast \in PsgPasts
    /\ psgPast.next = mixed.total - mixed.begun
    /\ PsgStateRight(psgState)
    /\ \A v \in PsgVoices \ psgPast.unannounced : Announced(v)

\* PsgOrder lists every voice of the Game Gear's chip (GameGearPSG.cpp reset).
LEMMA PsgOrderRight ==
    PsgOrder \in Seq(PsgVoices) /\ \A v \in PsgVoices : \E k \in 1 .. Len(PsgOrder) : PsgOrder[k] = v
<1>0. <<0, 1, 2, 3>> \in Seq(Nat)
  OBVIOUS
<1>1. PICK order \in Seq(Nat) : order = <<0, 1, 2, 3>>
  BY ONLY <1>0
<1>2. Kept(order, PsgVoices) \in Seq(PsgVoices)
  BY KeptIsOrdered
<1>3. ASSUME NEW v \in PsgVoices PROVE \E k \in 1 .. Len(Kept(order, PsgVoices)) : Kept(order, PsgVoices)[k] = v
  <2>1. v \in 0 .. 3
    BY PsgAssumption DEF PsgVoices, Noise
  <2>2. \E i \in 1 .. Len(order) : order[i] = v
    <3>1. v + 1 \in 1 .. Len(order) /\ order[v + 1] = v
      BY <1>1, <2>1
    <3> QED BY <3>1
  <2>3. PICK i \in 1 .. Len(order) : order[i] = v
    BY <2>2
  <2>4. \E k \in 1 .. Len(Kept(order, PsgVoices)) : Kept(order, PsgVoices)[k] = order[i]
    BY <1>3, <2>3, KeptIsOrdered
  <2> QED BY ONLY <2>3, <2>4
<1>4. PsgOrder = Kept(order, PsgVoices)
  BY <1>1 DEF PsgOrder
<1> QED BY ONLY <1>2, <1>3, <1>4

Kinds == {"LevelChange", "PitchChange", "TimbreChange", "RoutingChange"}

\* The events of a write tell of its voices, and of each with the kind its gate asks for.
AllTold(s, p, voices, kind) ==
    /\ \A j \in 1 .. Len(s) :
         /\ s[j].at = mixed.begun /\ s[j].gate = Gate(p, s[j].voice) /\ (s[j].kind = "GateOff" => ~s[j].gate)
         /\ \E i \in 1 .. Len(voices) : s[j].voice = voices[i]
    /\ \A i \in 1 .. Len(voices) : \E j \in 1 .. Len(s) :
         s[j].voice = voices[i] /\ s[j].kind = WriteKind(p, voices[i], kind)

\* What recordWrite tells of some voices: events of those voices, with the gate of each.
LEMMA EventsAreTold ==
    ASSUME MixedRight(mixed), NEW p, NEW voices \in Seq(PsgVoices), NEW kind \in Kinds,
           NEW s, s = EventsOf(p, voices, kind)
    PROVE  s \in Seq(Told(PsgVoices)) /\ AllTold(s, p, voices, kind)
<1>1. PICK n \in Nat : n = Len(voices)
  OBVIOUS
<1>2. PICK begun \in Nat : begun = mixed.begun
  BY DEF MixedRight, Chunks
<1>3. ASSUME NEW i \in 1 .. n
      PROVE  /\ PsgEvent(voices[i], WriteKind(p, voices[i], kind), Gate(p, voices[i]), begun) \in Told(PsgVoices)
             /\ PsgEvent(voices[i], "RawWrite", Gate(p, voices[i]), begun) \in Told(PsgVoices)
             /\ WriteKind(p, voices[i], kind) = "GateOff" => ~Gate(p, voices[i])
  <2>1. voices[i] \in PsgVoices /\ WriteKind(p, voices[i], kind) \in KindNames
    BY <1>1 DEF WriteKind, Kinds, KindNames
  <2>3. PICK gate \in BOOLEAN : gate = Gate(p, voices[i])
    BY DEF Gate
  <2>2. WriteKind(p, voices[i], kind) = "GateOff" => ~Gate(p, voices[i])
    BY DEF WriteKind, Kinds
  <2>4. \A k \in KindNames : PsgEvent(voices[i], k, gate, begun) \in Told(PsgVoices)
    BY <2>1 DEF PsgEvent, Told
  <2>5. "RawWrite" \in KindNames
    BY DEF KindNames
  <2>6. PICK w \in KindNames : w = WriteKind(p, voices[i], kind)
    BY <2>1
  <2> QED BY <2>2, <2>3, <2>4, <2>5, <2>6
<1>5. s = [j \in 1 .. 2 * n |-> PsgWriteEvents(p, voices[(j + 1) \div 2], kind)[1 + ((j + 1) % 2)]]
  BY <1>1 DEF EventsOf
<1>6. ASSUME NEW j \in 1 .. 2 * n
      PROVE  \E i \in 1 .. n :
                \/ s[j] = PsgEvent(voices[i], WriteKind(p, voices[i], kind), Gate(p, voices[i]), begun)
                \/ s[j] = PsgEvent(voices[i], "RawWrite", Gate(p, voices[i]), begun)
  <2>1. PICK i \in 1 .. n : i = (j + 1) \div 2
    OBVIOUS
  <2>2. PICK k \in {1, 2} : k = 1 + ((j + 1) % 2)
    OBVIOUS
  <2>3. s[j] = PsgWriteEvents(p, voices[i], kind)[k]
    BY <1>5, <2>1, <2>2
  <2> QED BY <1>2, <2>2, <2>3 DEF PsgWriteEvents
<1>7. s \in Seq(Told(PsgVoices)) /\ Len(s) = 2 * n
  <2>1. \A j \in 1 .. 2 * n : s[j] \in Told(PsgVoices)
    BY <1>3, <1>6
  <2>2. s \in [1 .. 2 * n -> Told(PsgVoices)]
    BY <1>5, <2>1
  <2>3. 2 * n \in Nat
    OBVIOUS
  <2> QED BY <2>2, <2>3, IsASeq
<1>8. ASSUME NEW j \in 1 .. Len(s)
      PROVE  /\ s[j].at = mixed.begun /\ s[j].gate = Gate(p, s[j].voice) /\ (s[j].kind = "GateOff" => ~s[j].gate)
             /\ \E i \in 1 .. Len(voices) : s[j].voice = voices[i]
  <2>1. PICK i \in 1 .. n :
                \/ s[j] = PsgEvent(voices[i], WriteKind(p, voices[i], kind), Gate(p, voices[i]), begun)
                \/ s[j] = PsgEvent(voices[i], "RawWrite", Gate(p, voices[i]), begun)
    BY <1>6, <1>7
  <2>2. s[j].voice = voices[i] /\ s[j].gate = Gate(p, voices[i]) /\ s[j].at = begun
    BY <2>1 DEF PsgEvent
  <2>3. s[j].kind = WriteKind(p, voices[i], kind) \/ s[j].kind = "RawWrite"
    BY <2>1 DEF PsgEvent
  <2> QED BY <1>1, <1>2, <1>3, <2>2, <2>3
<1>9. ASSUME NEW i \in 1 .. Len(voices)
      PROVE  \E j \in 1 .. Len(s) : s[j].voice = voices[i] /\ s[j].kind = WriteKind(p, voices[i], kind)
  <2>1. PICK j \in 1 .. 2 * n : j = 2 * i - 1
    BY <1>1
  <2>2. (j + 1) \div 2 = i /\ (j + 1) % 2 = 0
    BY <1>1, <2>1
  <2>3. s[j] = PsgWriteEvents(p, voices[i], kind)[1]
    BY <1>5, <2>2
  <2>4. s[j].voice = voices[i] /\ s[j].kind = WriteKind(p, voices[i], kind)
    BY <2>3 DEF PsgWriteEvents, PsgEvent
  <2> QED BY <1>7, <2>4
<1> QED BY <1>7, <1>8, <1>9 DEF AllTold

\* A write that changes the gates of its voices only keeps the invariant.
LEMMA ToVoicesKeeps ==
    ASSUME GgInv, NEW p \in Psgs, NEW voices \in Seq(PsgVoices), NEW kind \in Kinds,
           ToVoices(p, voices, kind), keys' = keys, psgState' = psgState,
           \A v \in PsgVoices :
               (\A i \in 1 .. Len(voices) : voices[i] # v) => Gate(p, v) = Gate(psg, v)
    PROVE  GgInv'
<1>0. /\ MixedRight(mixed) /\ keys \in Notes(PsgVoices) /\ psgPast \in PsgPasts
      /\ psgPast.next = mixed.total - mixed.begun /\ PsgStateRight(psgState)
      /\ \A v \in PsgVoices \ psgPast.unannounced : Announced(v)
  BY DEF GgInv
<1>1. PICK s \in Seq(Told(PsgVoices)) : s = EventsOf(p, voices, kind)
  BY <1>0, EventsAreTold
<1>2. /\ \A j \in 1 .. Len(s) :
            /\ s[j].at = mixed.begun /\ s[j].gate = Gate(p, s[j].voice) /\ (s[j].kind = "GateOff" => ~s[j].gate)
            /\ \E i \in 1 .. Len(voices) : s[j].voice = voices[i]
      /\ \A i \in 1 .. Len(voices) : \E j \in 1 .. Len(s) :
            s[j].voice = voices[i] /\ s[j].kind = WriteKind(p, voices[i], kind)
  <2>1. AllTold(s, p, voices, kind)
    BY <1>0, <1>1, EventsAreTold
  <2> QED BY <2>1 DEF AllTold
<1>3. PICK heard : heard = {voices[i] : i \in 1 .. Len(voices)}
  OBVIOUS
<1>4. PICK settled : settled = {s[i].voice : i \in {j \in 1 .. Len(s) : Settles(s[j])}}
  OBVIOUS
<1>5. /\ psg' = p
      /\ mixed' = [mixed EXCEPT !.events = mixed.events \o s,
                                !.observed = [v \in PsgVoices |-> IF v \in heard THEN Gate(p, v)
                                                                  ELSE mixed.observed[v]]]
      /\ psgPast' = [psgPast EXCEPT !.writes = psgPast.writes + 1,
                                    !.unannounced = psgPast.unannounced \ settled]
  BY <1>1, <1>3, <1>4 DEF ToVoices
<1>6. PICK observed : observed = [v \in PsgVoices |-> IF v \in heard THEN Gate(p, v) ELSE mixed.observed[v]]
  OBVIOUS
<1>7. observed \in Notes(PsgVoices)
  <2>1. mixed.observed \in Notes(PsgVoices)
    BY <1>0 DEF MixedRight, Chunks
  <2>2. \A v \in PsgVoices : Gate(p, v) \in BOOLEAN
    BY DEF Gate
  <2> QED BY <2>1, <2>2, <1>6 DEF Notes
<1>8. PICK events \in Seq(Told(PsgVoices)) : events = mixed.events
  BY <1>0 DEF MixedRight, Chunks
<1>9. events \o s \in Seq(Told(PsgVoices))
  OBVIOUS
<1>10. /\ mixed'.events = events \o s /\ mixed'.observed = observed
       /\ mixed'.total = mixed.total /\ mixed'.begun = mixed.begun /\ mixed' \in Chunks
  BY <1>0, <1>5, <1>6, <1>7, <1>8, <1>9 DEF MixedRight, Chunks
<1>11. MixedRight(mixed')
  <2>1. \A i \in 1 .. Len(events \o s) : (events \o s)[i].at <= mixed.begun
    <3>1. ASSUME NEW i \in 1 .. Len(events \o s) PROVE (events \o s)[i].at <= mixed.begun
      <4>0. mixed.begun \in Nat
        BY <1>0 DEF MixedRight, Chunks
      <4>1. CASE i \in 1 .. Len(events)
        <5>1. (events \o s)[i] = events[i]
          BY <4>1
        <5> QED BY <5>1, <4>1, <1>0, <1>8 DEF MixedRight
      <4>2. CASE i \notin 1 .. Len(events)
        <5>1. PICK j \in 1 .. Len(s) : i = Len(events) + j
          <6>1. i - Len(events) \in 1 .. Len(s) /\ i = Len(events) + (i - Len(events))
            BY <3>1, <4>2
          <6> QED BY <6>1
        <5>2. (events \o s)[i] = s[j]
          BY <5>1
        <5>3. s[j].at = mixed.begun
          BY <1>2
        <5> QED BY <5>2, <5>3, <4>0
      <4> QED BY <4>1, <4>2
    <3> QED BY <3>1
  <2> QED BY <2>1, <1>0, <1>10 DEF MixedRight
<1>12. psgPast' \in PsgPasts /\ psgPast'.next = psgPast.next
       /\ psgPast'.unannounced = psgPast.unannounced \ settled
  <2>1. PICK n \in Nat : n = psgPast.writes + 1
    BY <1>0 DEF PsgPasts
  <2>2. PICK u \in SUBSET PsgVoices : u = psgPast.unannounced \ settled
    BY <1>0 DEF PsgPasts
  <2> QED BY <1>0, <1>5, <2>1, <2>2 DEF PsgPasts
<1>13. ASSUME NEW v \in PsgVoices \ psgPast'.unannounced PROVE Announced(v)'
  <2>0. PICK gate \in BOOLEAN : gate = Gate(p, v)
    BY DEF Gate
  <2>1. PICK notes \in Notes(PsgVoices) : notes = HeldAfterAll(keys, events)
    <3>1. Len(events) \in 0 .. Len(events)
      OBVIOUS
    <3>2. HeldAfterEach(keys, events)[Len(events)] \in Notes(PsgVoices)
      BY <1>0, <3>1, NotesThroughout
    <3> QED BY <3>2 DEF HeldAfterAll
  <2>2. HeldAfterAll(keys, events \o s) = HeldAfterAll(notes, s)
    BY <1>0, <2>1, NotesJoin
  <2>3. \A i \in 1 .. Len(s) : s[i].voice = v => s[i].gate = gate /\ (s[i].kind = "GateOff" => ~gate)
    BY <1>2, <2>0
  <2>4. HeldAfterAll(notes, s)[v] =
            IF \E i \in 1 .. Len(s) : s[i].voice = v /\ Settles(s[i]) THEN gate ELSE notes[v]
    BY <2>3, OneGate
  <2>5. (\E i \in 1 .. Len(s) : s[i].voice = v /\ Settles(s[i])) <=> v \in settled
    BY <1>4
  <2>6. v \notin settled => notes[v] = Gate(psg, v) /\ mixed.observed[v] = Gate(psg, v)
    <3>1. v \notin settled => v \in PsgVoices \ psgPast.unannounced
      BY <1>12
    <3> QED BY <3>1, <1>0, <1>8, <2>1 DEF Announced
  <2>7. v \in heard \ settled => gate = mixed.observed[v]
    <3> SUFFICES ASSUME v \in heard \ settled PROVE gate = mixed.observed[v]
      OBVIOUS
    <3>0. PICK i \in 1 .. Len(voices) : voices[i] = v
      BY <1>3
    <3>1. PICK j \in 1 .. Len(s) : s[j].voice = v /\ s[j].kind = WriteKind(p, v, kind)
      BY <1>2, <3>0
    <3>2. ~Settles(s[j])
      BY <3>1, <2>5
    <3>3. s[j].kind \notin {"GateOn", "GateOff"}
      BY <3>2 DEF Settles, Starts, Ends
    <3> QED BY <2>0, <3>1, <3>3 DEF WriteKind
  <2>8. v \notin heard => gate = Gate(psg, v) /\ v \notin settled
    <3> SUFFICES ASSUME v \notin heard PROVE gate = Gate(psg, v) /\ v \notin settled
      OBVIOUS
    <3>1. \A i \in 1 .. Len(voices) : voices[i] # v
      BY <1>3
    <3>2. \A j \in 1 .. Len(s) : s[j].voice # v
      BY <1>2, <3>1
    <3> QED BY <2>0, <3>1, <3>2, <1>4
  <2>9. observed[v] = gate
    <3>1. CASE v \in heard
      BY <1>6, <2>0, <3>1
    <3>2. CASE v \notin heard
      BY <1>6, <2>6, <2>8, <3>2
    <3> QED BY <3>1, <3>2
  <2>10. HeldAfterAll(notes, s)[v] = gate
    <3>1. CASE v \in settled
      BY <2>4, <2>5, <3>1
    <3>2. CASE v \notin settled
      <4>1. HeldAfterAll(notes, s)[v] = notes[v]
        BY <2>4, <2>5, <3>2
      <4>2. gate = Gate(psg, v)
        BY <2>6, <2>7, <2>8, <3>2
      <4> QED BY <4>1, <4>2, <2>6, <3>2
    <3> QED BY <3>1, <3>2
  <2>11. (HeldAfterAll(keys, mixed.events)[v])' = gate /\ (Gate(psg, v))' = gate /\ (mixed.observed[v])' = gate
    <3>1. (Gate(psg, v))' = Gate(p, v)
      BY <1>5 DEF Gate
    <3> QED BY <3>1, <1>10, <2>0, <2>2, <2>9, <2>10
  <2> QED BY <2>11 DEF Announced
<1>14. MixedRight(mixed)' /\ PsgStateRight(psgState)'
  BY <1>0, <1>11 DEF MixedRight, PsgStateRight
<1>15. psgPast'.next = mixed'.total - mixed'.begun
  BY <1>0, <1>10, <1>12
<1> QED BY <1>0, <1>5, <1>12, <1>13, <1>14, <1>15 DEF GgInv

\* What of a tone's switch a write to voice v leaves alone.
OthersOn(on, v) == \A t \in Tones : t # v => on[t] = psg.on[t]

\* A write of a volume or of a tone that moves one voice, or none.
LEMMA LatchesKeep ==
    ASSUME GgInv, NEW v \in PsgVoices, NEW att \in Nat, NEW on \in [Tones -> BOOLEAN],
           NEW latch \in [voice : PsgVoices, volume : BOOLEAN], NEW kind \in Kinds, NEW p,
           p = [psg EXCEPT !.att = [psg.att EXCEPT ![v] = att], !.latch = latch, !.on = on],
           OthersOn(on, v),
           ToVoices(p, <<v>>, kind), keys' = keys, psgState' = psgState
    PROVE  GgInv'
<1>1. psg \in Psgs
  BY DEF GgInv
<1>2. PICK atts \in [PsgVoices -> Nat] : atts = [psg.att EXCEPT ![v] = att]
  BY <1>1 DEF Psgs
<1>3. p \in Psgs /\ p.att = atts /\ p.on = on
  BY <1>1, <1>2 DEF Psgs
<1>4. PICK voices \in Seq(PsgVoices) : voices = <<v>>
  <2>1. <<v>> \in Seq(PsgVoices)
    OBVIOUS
  <2> QED BY ONLY <2>1
<1>5. ASSUME NEW w \in PsgVoices, \A i \in 1 .. Len(voices) : voices[i] # w
      PROVE  Gate(p, w) = Gate(psg, w)
  <2>1. w # v
    BY <1>4, <1>5
  <2>2. atts[w] = psg.att[w]
    BY <1>1, <1>2, <2>1 DEF Psgs
  <2> QED BY <1>3, <2>1, <2>2 DEF Gate, OthersOn
<1>6. ToVoices(p, voices, kind)
  BY <1>4
<1> QED BY <1>3, <1>5, <1>6, ToVoicesKeeps

\* writeData with a volume.
LEMMA LatchVolumeKeeps ==
    ASSUME GgInv, NEW v \in PsgVoices, NEW att \in {0, Silence}, LatchVolume(v, att)
    PROVE  GgInv'
<1>1. PICK on \in [Tones -> BOOLEAN] : on = [t \in Tones |-> IF t = v THEN att < Silence ELSE psg.on[t]]
  <2>1. PICK b \in BOOLEAN : b = (att < Silence)
    <3>1. att \in Nat /\ Silence \in Nat
      BY DEF Silence
    <3>2. CASE att < Silence
      <4>1. (att < Silence) = TRUE
        BY <3>1, <3>2
      <4> QED BY <4>1
    <3>3. CASE ~(att < Silence)
      <4>1. (att < Silence) = FALSE
        BY <3>1, <3>3
      <4> QED BY <4>1
    <3> QED BY <3>2, <3>3
  <2>2. psg.on \in [Tones -> BOOLEAN]
    BY DEF GgInv, Psgs
  <2>3. [t \in Tones |-> IF t = v THEN b ELSE psg.on[t]] \in [Tones -> BOOLEAN]
    BY <2>2
  <2> QED BY <2>1, <2>3
<1>2. PICK latch \in [voice : PsgVoices, volume : BOOLEAN] : latch = [voice |-> v, volume |-> TRUE]
  OBVIOUS
<1>3. PICK p : p = [psg EXCEPT !.att = [psg.att EXCEPT ![v] = att], !.latch = latch, !.on = on]
  OBVIOUS
<1>4. ToVoices(p, <<v>>, "LevelChange") /\ keys' = keys /\ psgState' = psgState
  BY <1>1, <1>2, <1>3 DEF LatchVolume
<1>5. att \in Nat /\ "LevelChange" \in Kinds
  BY DEF Silence, Kinds
<1>6. OthersOn(on, v)
  BY <1>1 DEF OthersOn
<1> QED BY <1>3, <1>4, <1>5, <1>6, LatchesKeep

\* writeData with a tone or the noise.
LEMMA LatchToneKeeps ==
    ASSUME GgInv, NEW v \in PsgVoices, LatchTone(v)
    PROVE  GgInv'
<1>0. psg \in Psgs
  BY DEF GgInv
<1>1. PICK on \in [Tones -> BOOLEAN] : on = [t \in Tones |-> t = v \/ psg.on[t]]
  BY <1>0 DEF Psgs
<1>2. PICK latch \in [voice : PsgVoices, volume : BOOLEAN] : latch = [voice |-> v, volume |-> FALSE]
  OBVIOUS
<1>3. PICK att \in Nat : att = psg.att[v]
  BY <1>0 DEF Psgs
<1>4. PICK p : p = [psg EXCEPT !.att = [psg.att EXCEPT ![v] = att], !.latch = latch, !.on = on]
  OBVIOUS
<1>5. p = [psg EXCEPT !.latch = latch, !.on = on]
  <2>1. [psg.att EXCEPT ![v] = att] = psg.att
    BY <1>0, <1>3 DEF Psgs
  <2> QED BY <1>0, <1>4, <2>1 DEF Psgs
<1>6. PICK kind \in Kinds : kind = IF v = Noise THEN "TimbreChange" ELSE "PitchChange"
  BY DEF Kinds
<1>7. ToVoices(p, <<v>>, kind) /\ keys' = keys /\ psgState' = psgState
  BY <1>1, <1>2, <1>5, <1>6 DEF LatchTone
<1>8. OthersOn(on, v)
  <2>1. ASSUME NEW t \in Tones, t # v PROVE on[t] = psg.on[t]
    <3>1. on[t] = (t = v \/ psg.on[t]) /\ psg.on[t] \in BOOLEAN
      BY <1>0, <1>1 DEF Psgs
    <3> QED BY <3>1, <2>1
  <2> QED BY <2>1 DEF OthersOn
<1> QED BY <1>4, <1>7, <1>8, LatchesKeep

\* writeData with a data byte, for the voice latched.
LEMMA WriteDataByteKeeps == GgInv /\ WriteDataByte => GgInv'
<1> SUFFICES ASSUME GgInv, WriteDataByte PROVE GgInv'
  OBVIOUS
<1>0. psg \in Psgs
  BY DEF GgInv
<1>1. PICK v \in PsgVoices : v = psg.latch.voice
  BY <1>0 DEF Psgs
<1>2. PICK latch \in [voice : PsgVoices, volume : BOOLEAN] : latch = psg.latch
  BY <1>0 DEF Psgs
<1>3. PICK att \in Nat : att = psg.att[v]
  BY <1>0 DEF Psgs
<1>4. PICK kind \in Kinds : kind = IF psg.latch.volume THEN "LevelChange"
                                   ELSE IF v = Noise THEN "TimbreChange" ELSE "PitchChange"
  BY DEF Kinds
<1>5. PICK on \in [Tones -> BOOLEAN] :
          on = IF v \in Tones /\ ~psg.latch.volume THEN [psg.on EXCEPT ![v] = TRUE] ELSE psg.on
  BY <1>0 DEF Psgs
<1>6. PICK p : p = [psg EXCEPT !.att = [psg.att EXCEPT ![v] = att], !.latch = latch, !.on = on]
  OBVIOUS
<1>7. p = IF v \in Tones /\ ~psg.latch.volume THEN [psg EXCEPT !.on = [psg.on EXCEPT ![v] = TRUE]] ELSE psg
  <2>1. [psg.att EXCEPT ![v] = att] = psg.att
    BY <1>0, <1>3 DEF Psgs
  <2> QED BY <1>0, <1>2, <1>5, <1>6, <2>1 DEF Psgs
<1>8. ToVoices(p, <<v>>, kind) /\ keys' = keys /\ psgState' = psgState
  BY <1>1, <1>4, <1>7 DEF WriteDataByte
<1>9. OthersOn(on, v)
  BY <1>0, <1>5 DEF Psgs, OthersOn
<1> QED BY <1>6, <1>8, <1>9, LatchesKeep

\* writeStereoControl moves no gate.
LEMMA WriteStereoKeeps == GgInv /\ WriteStereo => GgInv'
<1> SUFFICES ASSUME GgInv, WriteStereo PROVE GgInv'
  OBVIOUS
<1>1. psg \in Psgs
  BY DEF GgInv
<1>2. ToVoices(psg, PsgOrder, "RoutingChange") /\ keys' = keys /\ psgState' = psgState
  BY DEF WriteStereo
<1>3. "RoutingChange" \in Kinds
  BY DEF Kinds
<1> QED BY <1>1, <1>2, <1>3, PsgOrderRight, ToVoicesKeeps

\* A write to a compatible register: voices whose gate it moves are no longer announced.
LEMMA CompatKeeps ==
    ASSUME GgInv, NEW p \in Psgs, Compat(p)
    PROVE  GgInv'
<1>1. /\ psg' = p /\ mixed' = mixed /\ keys' = keys /\ psgState' = psgState
      /\ psgPast' = [psgPast EXCEPT !.writes = @ + 1,
                                    !.unannounced = @ \cup {v \in PsgVoices : Gate(p, v) # Gate(psg, v)}]
  BY DEF Compat
<1>2. psgPast' \in PsgPasts /\ psgPast'.next = psgPast.next
      /\ psgPast'.unannounced = psgPast.unannounced \cup {v \in PsgVoices : Gate(p, v) # Gate(psg, v)}
  <2>1. PICK n \in Nat : n = psgPast.writes + 1
    BY DEF GgInv, PsgPasts
  <2>2. PICK u \in SUBSET PsgVoices :
            u = psgPast.unannounced \cup {v \in PsgVoices : Gate(p, v) # Gate(psg, v)}
    BY DEF GgInv, PsgPasts
  <2>3. psgPast' = [psgPast EXCEPT !.writes = n, !.unannounced = u]
    BY <1>1, <2>1, <2>2
  <2> QED BY <2>2, <2>3 DEF GgInv, PsgPasts
<1>3. ASSUME NEW v \in PsgVoices \ psgPast'.unannounced PROVE Announced(v)'
  <2>1. v \in PsgVoices \ psgPast.unannounced /\ Gate(p, v) = Gate(psg, v)
    BY <1>2
  <2>2. (Gate(psg, v))' = Gate(p, v)
    BY <1>1 DEF Gate
  <2>3. Announced(v)
    BY <2>1 DEF GgInv
  <2> QED BY <1>1, <2>1, <2>2, <2>3 DEF Announced
<1> QED BY <1>1, <1>2, <1>3 DEF GgInv, MixedRight, PsgStateRight

\* The registers for compatibility, which announce nothing: the change is recorded as unannounced.
LEMMA CompatWritesKeep ==
    ASSUME GgInv, (\E att \in {0, Silence} : CompatVolume(att)) \/ CompatTrigger \/ CompatPowerOn
    PROVE  GgInv'
<1>0. psg \in Psgs /\ 0 \in Tones /\ 0 \in PsgVoices
  BY PsgAssumption DEF GgInv, PsgVoices
<1>1. ASSUME NEW att \in {0, Silence}, CompatVolume(att) PROVE GgInv'
  <2>1. att \in Nat /\ Silence \in Nat
    BY DEF Silence
  <2>2. PICK b \in BOOLEAN : b = (att < Silence /\ psg.power)
    OBVIOUS
  <2>3. PICK atts \in [PsgVoices -> Nat] : atts = [psg.att EXCEPT ![0] = att]
    BY <1>0, <2>1 DEF Psgs
  <2>4. PICK on \in [Tones -> BOOLEAN] : on = [psg.on EXCEPT ![0] = b]
    BY <1>0 DEF Psgs
  <2>5. PICK p : p = [psg EXCEPT !.att = atts, !.on = on]
    OBVIOUS
  <2>6. p \in Psgs
    BY <1>0, <2>5 DEF Psgs
  <2>7. Compat(p)
    BY <1>1, <2>2, <2>3, <2>4, <2>5 DEF CompatVolume
  <2> QED BY <2>6, <2>7, CompatKeeps
<1>2. ASSUME CompatTrigger PROVE GgInv'
  <2>2. PICK b \in BOOLEAN : b = (psg.on[0] \/ psg.power)
    OBVIOUS
  <2>4. PICK on \in [Tones -> BOOLEAN] : on = [psg.on EXCEPT ![0] = b]
    BY <1>0 DEF Psgs
  <2>5. PICK p : p = [psg EXCEPT !.on = on]
    OBVIOUS
  <2>6. p \in Psgs
    BY <1>0, <2>5 DEF Psgs
  <2>7. Compat(p)
    BY <1>2, <2>2, <2>4, <2>5 DEF CompatTrigger
  <2> QED BY <2>6, <2>7, CompatKeeps
<1>3. ASSUME CompatPowerOn PROVE GgInv'
  <2>1. PICK p : p = [psg EXCEPT !.power = TRUE]
    OBVIOUS
  <2>2. p \in Psgs
    BY <1>0, <2>1 DEF Psgs
  <2>3. Compat(p)
    BY <1>3, <2>1 DEF CompatPowerOn
  <2> QED BY <2>2, <2>3, CompatKeeps
<1> QED BY <1>1, <1>2, <1>3

\* Power off silences every voice and announces nothing.
LEMMA CompatPowerOffKeeps == GgInv /\ CompatPowerOff => GgInv'
<1> SUFFICES ASSUME GgInv, CompatPowerOff PROVE GgInv'
  OBVIOUS
<1>1. /\ psg' = [psg EXCEPT !.power = FALSE, !.on = [t \in Tones |-> FALSE]]
      /\ mixed' = [mixed EXCEPT !.begun = 0, !.events = << >>]
      /\ psgPast' = [psgPast EXCEPT !.writes = @ + 1, !.unannounced = PsgVoices, !.next = mixed.total]
      /\ keys' = keys /\ psgState' = psgState
  BY DEF CompatPowerOff
<1>2. psg' \in Psgs
  BY <1>1 DEF GgInv, Psgs
<1>3. mixed' \in Chunks /\ mixed'.begun = 0 /\ mixed'.events = << >> /\ mixed'.total = mixed.total
  <2>1. << >> \in Seq(Told(PsgVoices))
    OBVIOUS
  <2>2. PICK none \in Seq(Told(PsgVoices)) : none = << >>
    BY ONLY <2>1
  <2>3. mixed \in Chunks
    BY DEF GgInv, MixedRight
  <2>4. mixed' = [mixed EXCEPT !.begun = 0, !.events = none]
    BY <1>1, <2>2
  <2> QED BY ONLY <2>2, <2>3, <2>4 DEF Chunks
<1>4. MixedRight(mixed')
  <2>1. mixed'.total \in Nat /\ 0 < PsgChunk
    BY <1>3, PsgAssumption DEF Chunks
  <2>2. \A i \in 1 .. Len(<< >>) : FALSE
    OBVIOUS
  <2> QED BY <1>3, <2>1, <2>2 DEF MixedRight
<1>5. psgPast' \in PsgPasts /\ psgPast'.next = mixed.total /\ psgPast'.unannounced = PsgVoices
  <2>1. PICK n \in Nat : n = psgPast.writes + 1
    BY DEF GgInv, PsgPasts
  <2>2. mixed.total \in Nat
    BY DEF GgInv, MixedRight, Chunks
  <2>3. psgPast' = [psgPast EXCEPT !.writes = n, !.unannounced = PsgVoices, !.next = mixed.total]
    BY <1>1, <2>1
  <2> QED BY <2>2, <2>3 DEF GgInv, PsgPasts
<1>6. psgPast'.next = mixed'.total - mixed'.begun
  BY <1>3, <1>5 DEF GgInv, MixedRight, Chunks
<1> QED BY <1>1, <1>2, <1>4, <1>5, <1>6 DEF GgInv, MixedRight, PsgStateRight

\* With nothing on its way the notes stay.
LEMMA NotesAtRest == ASSUME NEW h PROVE HeldAfterAll(h, << >>) = h
<1>1. << >> \in Seq(Told({}))
  OBVIOUS
<1>2. PICK s \in Seq(Told({})) : s = << >>
  BY ONLY <1>1
<1>3. HeldAfterEach(h, s)[0] = h
  BY NoteByNote
<1>4. Len(s) = 0
  BY <1>2
<1> QED BY <1>2, <1>3, <1>4 DEF HeldAfterAll

\* All events together make notes of notes.
LEMMA NotesAreNotes ==
    ASSUME NEW V, NEW h \in Notes(V), NEW s \in Seq(Told(V))
    PROVE  HeldAfterAll(h, s) \in Notes(V)
<1>1. Len(s) \in 0 .. Len(s)
  OBVIOUS
<1>2. HeldAfterEach(h, s)[Len(s)] \in Notes(V)
  BY <1>1, NotesThroughout
<1> QED BY <1>2 DEF HeldAfterAll

\* produceFrame: the plugins hear the chunk's events.
LEMMA ProduceFrameKeeps == GgInv /\ ProduceFrame => GgInv'
<1> SUFFICES ASSUME GgInv, ProduceFrame PROVE GgInv'
  OBVIOUS
<1>0. mixed \in Chunks /\ mixed.begun < PsgChunk /\ mixed.begun <= mixed.total /\ PsgChunk \in Nat
  BY PsgAssumption DEF GgInv, MixedRight
<1>1. PICK total \in Nat, begun \in Nat : total = mixed.total + 1 /\ begun = mixed.begun + 1
  BY <1>0 DEF Chunks
<1>2. PICK next : next = [mixed EXCEPT !.total = total, !.begun = begun]
  OBVIOUS
<1>3. /\ next \in Chunks /\ next.total = total /\ next.begun = begun
      /\ next.observed = mixed.observed /\ next.events = mixed.events
  BY <1>0, <1>2 DEF Chunks
<1>4. /\ mixed' = IF begun >= PsgChunk THEN Taken(next) ELSE next
      /\ keys' = IF begun >= PsgChunk THEN HeldAfterAll(keys, next.events) ELSE keys
      /\ psgPast' = IF begun >= PsgChunk THEN [psgPast EXCEPT !.next = total] ELSE psgPast
      /\ psg' = psg /\ psgState' = psgState
  BY <1>1, <1>2, <1>3 DEF ProduceFrame
<1>5. CASE begun >= PsgChunk
  <2>1. << >> \in Seq(Told(PsgVoices))
    OBVIOUS
  <2>2. PICK none \in Seq(Told(PsgVoices)) : none = << >>
    BY ONLY <2>1
  <2>3. mixed' = [next EXCEPT !.begun = 0, !.events = none]
    BY <1>4, <1>5, <2>2 DEF Taken
  <2>4. mixed' \in Chunks /\ mixed'.begun = 0 /\ mixed'.events = none /\ mixed'.total = total
        /\ mixed'.observed = mixed.observed
    BY ONLY <2>2, <2>3, <1>3 DEF Chunks
  <2>5. MixedRight(mixed')
    <3>1. \A i \in 1 .. Len(none) : FALSE
      BY <2>2
    <3> QED BY <1>0, <2>4, <3>1, PsgAssumption DEF MixedRight
  <2>6. keys' = HeldAfterAll(keys, mixed.events)
    BY <1>3, <1>4, <1>5
  <2>7. keys' \in Notes(PsgVoices)
    <3>1. PICK s \in Seq(Told(PsgVoices)) : s = mixed.events
      BY <1>0 DEF Chunks
    <3>2. PICK h \in Notes(PsgVoices) : h = keys
      BY DEF GgInv
    <3> QED BY <2>6, <3>1, <3>2, NotesAreNotes
  <2>8. psgPast' \in PsgPasts /\ psgPast'.next = total /\ psgPast'.unannounced = psgPast.unannounced
    BY <1>4, <1>5 DEF GgInv, PsgPasts
  <2>9. psgPast'.next = mixed'.total - mixed'.begun
    BY <2>4, <2>8
  <2>10. ASSUME NEW v \in PsgVoices \ psgPast'.unannounced PROVE Announced(v)'
    <3>1. Announced(v)
      BY <2>8 DEF GgInv
    <3>2. (HeldAfterAll(keys, mixed.events))' = keys'
      BY <2>2, <2>4, NotesAtRest
    <3>3. (Gate(psg, v))' = Gate(psg, v)
      BY <1>4 DEF Gate
    <3> QED BY <3>1, <3>2, <3>3, <2>4, <2>6 DEF Announced
  <2> QED BY <1>4, <2>5, <2>7, <2>8, <2>9, <2>10 DEF GgInv, MixedRight, PsgStateRight
<1>6. CASE ~(begun >= PsgChunk)
  <2>1. mixed' = next /\ keys' = keys /\ psgPast' = psgPast
    BY <1>4, <1>6
  <2>2. MixedRight(mixed')
    <3>1. \A i \in 1 .. Len(mixed.events) : mixed.events[i].at <= mixed.begun /\ mixed.events[i].at \in Nat
      <4>1. ASSUME NEW i \in 1 .. Len(mixed.events) PROVE mixed.events[i].at \in Nat
        <5>1. mixed.events[i] \in Told(PsgVoices)
          BY <1>0 DEF Chunks
        <5> QED BY <5>1 DEF Told
      <4> QED BY <4>1 DEF GgInv, MixedRight
    <3>2. mixed.begun \in Nat /\ mixed.total \in Nat
      BY <1>0 DEF Chunks
    <3>3. \A i \in 1 .. Len(mixed.events) : mixed.events[i].at <= begun
      BY <3>1, <3>2, <1>1
    <3>4. begun < PsgChunk /\ begun <= total
      BY <1>0, <1>1, <1>6, <3>2
    <3> QED BY <2>1, <1>3, <3>3, <3>4 DEF MixedRight
  <2>3. psgPast'.next = mixed'.total - mixed'.begun
    <3>1. psgPast.next = mixed.total - mixed.begun
      BY DEF GgInv
    <3> QED BY <3>1, <2>1, <1>0, <1>1, <1>3 DEF Chunks
  <2>4. ASSUME NEW v \in PsgVoices \ psgPast'.unannounced PROVE Announced(v)'
    <3>1. Announced(v)
      BY <2>1 DEF GgInv
    <3>2. (Gate(psg, v))' = Gate(psg, v)
      BY <1>4 DEF Gate
    <3> QED BY <3>1, <3>2, <2>1, <1>3 DEF Announced
  <2> QED BY <1>4, <2>1, <2>2, <2>3, <2>4 DEF GgInv, MixedRight, PsgStateRight
<1> QED BY <1>5, <1>6

\* What a chip that begins tells of its voices.
Snapped(order, gates, at) ==
    [i \in 1 .. Len(order) |-> PsgEvent(order[i], "StateSnapshot", gates[order[i]], at)]

\* One snapshot per voice leaves every note as the voice's gate.
LEMMA SnapshotsTell ==
    ASSUME NEW V, NEW order \in Seq(V), \A v \in V : \E k \in 1 .. Len(order) : order[k] = v,
           NEW gates \in Notes(V), NEW at \in Nat, NEW h \in Notes(V), NEW s,
           s = Snapped(order, gates, at)
    PROVE  /\ s \in Seq(Told(V)) /\ \A i \in 1 .. Len(s) : s[i].at = at
           /\ HeldAfterAll(h, s) = gates
<1>0. s = [i \in 1 .. Len(order) |-> PsgEvent(order[i], "StateSnapshot", gates[order[i]], at)]
  BY DEF Snapped
<1>1. PICK n \in Nat : n = Len(order)
  OBVIOUS
<1>2. ASSUME NEW i \in 1 .. n
      PROVE  /\ s[i] \in Told(V) /\ s[i].at = at /\ s[i].kind = "StateSnapshot"
             /\ s[i].voice = order[i] /\ s[i].gate = gates[order[i]]
  <2>1. order[i] \in V /\ gates[order[i]] \in BOOLEAN /\ "StateSnapshot" \in KindNames
    BY <1>1 DEF Notes, KindNames
  <2>2. s[i] = [voice |-> order[i], kind |-> "StateSnapshot", gate |-> gates[order[i]], at |-> at]
    BY <1>0, <1>1 DEF PsgEvent
  <2> QED BY <2>1, <2>2 DEF Told
<1>3. s \in [1 .. n -> Told(V)]
  BY <1>0, <1>1, <1>2
<1>4. s \in Seq(Told(V)) /\ Len(s) = n
  BY <1>3, IsASeq
<1>5. PICK t \in Seq(Told(V)) : t = s
  BY <1>4
<1>6. HeldAfterAll(h, t) \in Notes(V)
  BY NotesAreNotes
<1>7. ASSUME NEW v \in V PROVE HeldAfterAll(h, t)[v] = gates[v]
  <2>1. PICK gate \in BOOLEAN : gate = gates[v]
    BY DEF Notes
  <2>2. \A i \in 1 .. Len(t) : t[i].voice = v => t[i].gate = gate /\ (t[i].kind = "GateOff" => ~gate)
    <3>1. ASSUME NEW i \in 1 .. Len(t), t[i].voice = v
          PROVE  t[i].gate = gate /\ (t[i].kind = "GateOff" => ~gate)
      <4>1. i \in 1 .. n /\ order[i] = v /\ t[i].kind # "GateOff"
        BY <1>2, <1>4, <1>5, <3>1
      <4>2. t[i].gate = gates[order[i]]
        BY <1>2, <1>5, <4>1
      <4> QED BY <4>1, <4>2, <2>1
    <3> QED BY <3>1
  <2>3. HeldAfterAll(h, t)[v] =
            IF \E i \in 1 .. Len(t) : t[i].voice = v /\ Settles(t[i]) THEN gate ELSE h[v]
    <3>1. h \in Notes(V) /\ t \in Seq(Told(V)) /\ v \in V /\ gate \in BOOLEAN
      OBVIOUS
    <3> QED BY ONLY <2>2, <3>1, OneGate
  <2>4. \E i \in 1 .. Len(t) : t[i].voice = v /\ Settles(t[i])
    <3>1. PICK k \in 1 .. Len(order) : order[k] = v
      OBVIOUS
    <3> QED BY <3>1, <1>1, <1>2, <1>4, <1>5 DEF Settles, Starts
  <2> QED BY <2>1, <2>3, <2>4
<1>8. HeldAfterAll(h, t) = gates
  BY <1>6, <1>7 DEF Notes
<1> QED BY <1>2, <1>4, <1>5, <1>8

\* A chip that starts anew or from a state begins with snapshots.
LEMMA BeginKeeps ==
    ASSUME keys \in Notes(PsgVoices), psgPast \in PsgPasts, NEW p \in Psgs, NEW total \in Nat, NEW begun \in Nat,
           begun < PsgChunk, begun <= total, Begin(p, total, begun), PsgStateRight(psgState)'
    PROVE  GgInv'
<1>1. PICK gates \in Notes(PsgVoices) : gates = [v \in PsgVoices |-> Gate(p, v)]
  <2>1. \A v \in PsgVoices : Gate(p, v) \in BOOLEAN
    BY DEF Gate
  <2> QED BY <2>1 DEF Notes
<1>2. PICK order \in Seq(PsgVoices) : order = PsgOrder
  BY PsgOrderRight
<1>3. PICK s : s = Snapped(order, gates, begun)
  OBVIOUS
<1>4. /\ s \in Seq(Told(PsgVoices)) /\ \A i \in 1 .. Len(s) : s[i].at = begun
      /\ HeldAfterAll(keys, s) = gates
  <2>1. \A v \in PsgVoices : \E k \in 1 .. Len(order) : order[k] = v
    BY <1>2, PsgOrderRight
  <2>2. /\ order \in Seq(PsgVoices) /\ gates \in Notes(PsgVoices) /\ keys \in Notes(PsgVoices)
        /\ begun \in Nat
    OBVIOUS
  <2> QED BY ONLY <1>3, <2>1, <2>2, SnapshotsTell
<1>5. s = [i \in 1 .. Len(PsgOrder) |-> PsgEvent(PsgOrder[i], "StateSnapshot", Gate(p, PsgOrder[i]), begun)]
  <2>1. \A i \in 1 .. Len(order) : gates[order[i]] = Gate(p, order[i])
    BY <1>1
  <2> QED BY <1>2, <1>3, <2>1 DEF Snapped
<1>6. /\ psg' = p /\ keys' = keys
      /\ mixed' = [total |-> total, begun |-> begun, observed |-> gates, events |-> s]
      /\ psgPast' = [psgPast EXCEPT !.writes = @ + 1, !.unannounced = {}, !.next = total - begun]
  BY <1>1, <1>5 DEF Begin
<1>7. MixedRight(mixed')
  <2>1. mixed' \in Chunks
    BY <1>4, <1>6 DEF Chunks
  <2> QED BY <2>1, <1>4, <1>6 DEF MixedRight
<1>8. psgPast' \in PsgPasts /\ psgPast'.next = mixed'.total - mixed'.begun
  <2>1. PICK n \in Nat : n = psgPast.writes + 1
    BY DEF PsgPasts
  <2>2. PICK next \in Nat : next = total - begun
    OBVIOUS
  <2>3. psgPast' = [psgPast EXCEPT !.writes = n, !.unannounced = {}, !.next = next]
    BY <1>6, <2>1, <2>2
  <2>4. psgPast' \in PsgPasts /\ psgPast'.next = next
    BY <2>3 DEF PsgPasts
  <2> QED BY <2>2, <2>4, <1>6
<1>9. ASSUME NEW v \in PsgVoices PROVE Announced(v)'
  <2>1. (Gate(psg, v))' = gates[v]
    <3>1. (Gate(psg, v))' = Gate(p, v)
      BY <1>6 DEF Gate
    <3> QED BY <3>1, <1>1
  <2>2. (HeldAfterAll(keys, mixed.events))' = gates /\ mixed'.observed = gates
    BY <1>4, <1>6
  <2> QED BY <2>1, <2>2 DEF Announced
<1> QED BY <1>6, <1>7, <1>8, <1>9 DEF GgInv, MixedRight

\* A reset chip is silent.
LEMMA NewPsgRight == NewPsg \in Psgs /\ \A v \in PsgVoices : Gate(NewPsg, v) = FALSE
<1>1. Silence \in Nat /\ ~(Silence < Silence) /\ 0 \in PsgVoices
  BY PsgAssumption DEF Silence, PsgVoices
<1> QED BY <1>1 DEF NewPsg, Psgs, Gate

\* A ROM loaded, a state saved or restored.
LEMMA PsgStatesKeep == GgInv /\ (LoadPsgRom \/ SavePsg \/ LoadPsg) => GgInv'
<1>1. ASSUME GgInv, LoadPsgRom PROVE GgInv'
  <2>1. Begin(NewPsg, 0, 0) /\ psgState' = psgState
    BY <1>1 DEF LoadPsgRom
  <2>2. PsgStateRight(psgState)'
    BY <1>1, <2>1 DEF GgInv, PsgStateRight
  <2>3. keys \in Notes(PsgVoices) /\ psgPast \in PsgPasts /\ 0 < PsgChunk /\ 0 <= 0 /\ 0 \in Nat
    BY <1>1, PsgAssumption DEF GgInv
  <2> QED BY <2>1, <2>2, <2>3, NewPsgRight, BeginKeeps
<1>2. ASSUME GgInv, SavePsg PROVE GgInv'
  <2>1. /\ psgState' = [psg |-> psg, total |-> mixed.total, begun |-> mixed.begun]
        /\ psgPast' = [psgPast EXCEPT !.writes = @ + 1]
        /\ psg' = psg /\ mixed' = mixed /\ keys' = keys
    BY <1>2 DEF SavePsg
  <2>2. PsgStateRight(psgState)'
    BY <1>2, <2>1 DEF GgInv, PsgStateRight, MixedRight, Chunks
  <2>3. psgPast' \in PsgPasts /\ psgPast'.next = psgPast.next /\ psgPast'.unannounced = psgPast.unannounced
    BY <1>2, <2>1 DEF GgInv, PsgPasts
  <2>4. ASSUME NEW v \in PsgVoices \ psgPast'.unannounced PROVE Announced(v)'
    <3>1. Announced(v)
      BY <1>2, <2>3 DEF GgInv
    <3>2. (Gate(psg, v))' = Gate(psg, v)
      BY <2>1 DEF Gate
    <3> QED BY <3>1, <3>2, <2>1 DEF Announced
  <2> QED BY <1>2, <2>1, <2>2, <2>3, <2>4 DEF GgInv, MixedRight
<1>3. ASSUME GgInv, LoadPsg PROVE GgInv'
  <2>1. Begin(psgState.psg, psgState.total, psgState.begun) /\ psgState' = psgState /\ psgState # NoPsgState
    BY <1>3 DEF LoadPsg
  <2>2. PsgStateRight(psgState)'
    BY <1>3, <2>1 DEF GgInv, PsgStateRight
  <2>3. /\ psgState.psg \in Psgs /\ psgState.total \in Nat /\ psgState.begun \in Nat
        /\ psgState.begun < PsgChunk /\ psgState.begun <= psgState.total
    BY <1>3, <2>1 DEF GgInv, PsgStateRight
  <2>4. keys \in Notes(PsgVoices) /\ psgPast \in PsgPasts
    BY <1>3 DEF GgInv
  <2> QED BY <2>1, <2>2, <2>3, <2>4, BeginKeeps
<1> QED BY <1>1, <1>2, <1>3

\* Each step of the Game Gear's chip keeps GgInv.
LEMMA GgNextKeeps == GgInv /\ GgSoundNext => GgInv'
<1> SUFFICES ASSUME GgInv, GgSoundNext PROVE GgInv'
  OBVIOUS
<1>1. CASE \E v \in PsgVoices : (\E att \in {0, Silence} : LatchVolume(v, att)) \/ LatchTone(v)
  BY <1>1, LatchVolumeKeeps, LatchToneKeeps
<1>2. CASE (\E att \in {0, Silence} : CompatVolume(att)) \/ CompatTrigger \/ CompatPowerOn
  BY <1>2, CompatWritesKeep
<1>3. CASE WriteDataByte \/ WriteStereo \/ CompatPowerOff \/ ProduceFrame
  BY <1>3, WriteDataByteKeeps, WriteStereoKeeps, CompatPowerOffKeeps, ProduceFrameKeeps
<1>4. CASE LoadPsgRom \/ SavePsg \/ LoadPsg
  BY <1>4, PsgStatesKeep
<1> QED BY <1>1, <1>2, <1>3, <1>4 DEF GgSoundNext

\* GgInv holds of a chip as reset.
LEMMA GgStarts == GgSoundInit => GgInv
<1> SUFFICES ASSUME GgSoundInit PROVE GgInv
  OBVIOUS
<1>1. /\ psg = NewPsg /\ keys = [v \in PsgVoices |-> FALSE] /\ psgState = NoPsgState
      /\ psgPast = [writes |-> 0, unannounced |-> {}, next |-> 0]
  BY DEF GgSoundInit
<1>2. PICK gates \in Notes(PsgVoices) : gates = [v \in PsgVoices |-> FALSE]
  BY DEF Notes
<1>3. PICK order \in Seq(PsgVoices) : order = PsgOrder
  BY PsgOrderRight
<1>4. PICK s : s = Snapped(order, gates, 0)
  OBVIOUS
<1>5. s \in Seq(Told(PsgVoices)) /\ (\A i \in 1 .. Len(s) : s[i].at = 0) /\ HeldAfterAll(gates, s) = gates
  <2>1. \A v \in PsgVoices : \E k \in 1 .. Len(order) : order[k] = v
    BY <1>3, PsgOrderRight
  <2>2. 0 \in Nat
    OBVIOUS
  <2>3. order \in Seq(PsgVoices) /\ gates \in Notes(PsgVoices)
    OBVIOUS
  <2> QED BY ONLY <1>4, <2>1, <2>2, <2>3, SnapshotsTell
<1>6. s = [i \in 1 .. Len(PsgOrder) |-> PsgEvent(PsgOrder[i], "StateSnapshot", FALSE, 0)]
  <2>1. \A i \in 1 .. Len(order) : gates[order[i]] = FALSE
    BY <1>2
  <2> QED BY <1>3, <1>4, <2>1 DEF Snapped
<1>7. mixed = [total |-> 0, begun |-> 0, observed |-> gates, events |-> s]
  BY <1>2, <1>6 DEF GgSoundInit
<1>8. MixedRight(mixed)
  <2>1. mixed \in Chunks
    BY <1>5, <1>7 DEF Chunks
  <2> QED BY <2>1, <1>5, <1>7, PsgAssumption DEF MixedRight
<1>9. ASSUME NEW v \in PsgVoices PROVE Announced(v)
  <2>1. HeldAfterAll(keys, mixed.events) = gates /\ mixed.observed = gates
    BY <1>1, <1>2, <1>5, <1>7
  <2>2. Gate(psg, v) = FALSE /\ gates[v] = FALSE
    BY <1>1, <1>2, NewPsgRight
  <2> QED BY <2>1, <2>2 DEF Announced
<1>10. psgPast \in PsgPasts /\ psgPast.next = mixed.total - mixed.begun
  BY <1>1, <1>7 DEF PsgPasts
<1> QED BY <1>1, <1>2, <1>8, <1>9, <1>10, NewPsgRight DEF GgInv, PsgStateRight

\* GgInv says what KeysFollowVoices asks.
LEMMA GgKeysFollow == GgInv => KeysFollowVoices
  BY DEF GgInv, Announced, KeysFollowVoices

\* A chunk that is handed over follows on the one before it.
ChunkFollows ==
    chunk' # chunk =>
        /\ chunk'.first = psgPast.next
        /\ \A i \in DOMAIN chunk'.offsets : chunk'.offsets[i] \in 0 .. PsgChunk - 1

\* A chunk begins where the one before it ended, and its events lie within.
LEMMA ChunksInOrder == GgInv /\ GgSoundNext => ChunkFollows
<1> SUFFICES ASSUME GgInv, GgSoundNext, chunk' # chunk
             PROVE  /\ chunk'.first = psgPast.next
                    /\ \A i \in DOMAIN chunk'.offsets : chunk'.offsets[i] \in 0 .. PsgChunk - 1
  BY DEF ChunkFollows
<1>0. /\ mixed \in Chunks /\ mixed.begun < PsgChunk /\ mixed.begun <= mixed.total /\ PsgChunk \in Nat
      /\ psgPast.next = mixed.total - mixed.begun
      /\ \A i \in 1 .. Len(mixed.events) : mixed.events[i].at <= mixed.begun
  BY PsgAssumption DEF GgInv, MixedRight
<1>1. PICK total \in Nat, begun \in Nat : total = mixed.total + 1 /\ begun = mixed.begun + 1
  BY <1>0 DEF Chunks
<1>2. ProduceFrame
  <2>1. chunk' = chunk \/ ProduceFrame
    BY DEF GgSoundNext, LatchVolume, LatchTone, WriteDataByte, WriteStereo, CompatVolume, CompatTrigger,
           CompatPowerOn, Compat, CompatPowerOff, LoadPsgRom, SavePsg, LoadPsg, Begin
  <2> QED BY <2>1
<1>3. PICK next : next = [mixed EXCEPT !.total = total, !.begun = begun]
  OBVIOUS
<1>4. next.total = total /\ next.begun = begun /\ next.events = mixed.events
  BY <1>0, <1>3 DEF Chunks
<1>5. /\ begun >= PsgChunk
      /\ chunk' = [first |-> IF total >= PsgChunk THEN total - PsgChunk ELSE 0,
                   offsets |-> [i \in DOMAIN mixed.events |-> mixed.events[i].at]]
  BY <1>1, <1>2, <1>3, <1>4 DEF ProduceFrame
<1>6. mixed.begun \in Nat /\ mixed.total \in Nat
  BY <1>0 DEF Chunks
<1>7. begun = PsgChunk /\ total >= PsgChunk /\ total - PsgChunk = psgPast.next
  BY <1>0, <1>1, <1>5, <1>6
<1>8. ASSUME NEW i \in DOMAIN mixed.events PROVE mixed.events[i].at \in 0 .. PsgChunk - 1
  <2>1. i \in 1 .. Len(mixed.events) /\ mixed.events[i] \in Told(PsgVoices)
    BY <1>0 DEF Chunks
  <2>2. mixed.events[i].at \in Nat /\ mixed.events[i].at <= mixed.begun
    BY <1>0, <2>1 DEF Told
  <2> QED BY <2>2, <1>0, <1>6
<1> QED BY <1>5, <1>7, <1>8

-----------------------------------------------------------------------------
(* The Game Boy's chip.                                                    *)

VoiceFields == {"on", "dac", "lengthOn", "length", "period", "timer", "up", "initial", "volume", "frequency"}

\* A voice that sounds has its converter, and will run out.
VoiceRight(voice) ==
    /\ voice = [f \in VoiceFields |-> voice[f]]
    /\ voice.on \in BOOLEAN /\ voice.dac \in BOOLEAN /\ voice.length \in Nat
    /\ voice.on => voice.dac /\ voice.length > 0

ApuRight(a) ==
    /\ a = [f \in {"power", "step", "voices", "sweep"} |-> a[f]]
    /\ a.voices = [v \in SoundVoices |-> a.voices[v]]
    /\ \A v \in SoundVoices : VoiceRight(a.voices[v])

SamplesRight(s) == s \in [counter : Nat, pending : Nat, seen : Nat]

Gates(voices) == [v \in SoundVoices |-> voices[v].on]

Tellings == [queue : Seq(Told(SoundVoices)), observed : Notes(SoundVoices)]
SoundPasts == [voice : SoundVoices, writes : Nat, silent : SUBSET SoundVoices, dropped : BOOLEAN, next : Int]

\* A voice that sounds has its note; a note is a voice that sounds or one that fell
\* silent unannounced, and was last observed to sound.
NotesRight(notes, a, observed, silent) ==
    \A v \in SoundVoices :
        /\ a.voices[v].on => notes[v]
        /\ notes[v] => (a.voices[v].on \/ v \in silent) /\ observed[v]

GbInv ==
    /\ ApuRight(apu) /\ SamplesRight(samples) /\ chipEvents \in Tellings /\ held \in Notes(SoundVoices)
    /\ soundPast \in SoundPasts
    /\ apuState # NoApuState => ApuRight(apuState.apu) /\ SamplesRight(apuState.samples)
    /\ soundPast.next = samples.counter - samples.pending
    /\ \A i \in 1 .. Len(chipEvents.queue) : chipEvents.queue[i].at <= samples.counter
    /\ ~soundPast.dropped =>
           NotesRight(HeldAfterAll(held, chipEvents.queue), apu, chipEvents.observed, soundPast.silent)

\* GbInv says what is asked of the Game Boy's voices and notes.
LEMMA GbNotesFollow == GbInv => VoicesRunOut /\ NotesFollowVoices
<1> SUFFICES ASSUME GbInv PROVE VoicesRunOut /\ NotesFollowVoices
  OBVIOUS
<1>1. VoicesRunOut
  BY DEF GbInv, ApuRight, VoiceRight, VoicesRunOut
<1>2. NotesFollowVoices
  BY DEF GbInv, NotesRight, NotesFollowVoices
<1> QED BY <1>1, <1>2

\* VoiceOrder lists every voice of the Game Boy's chip (GameBoyAPU.cpp reset).
LEMMA VoiceOrderRight ==
    /\ VoiceOrder \in Seq(SoundVoices) /\ FirstVoice \in SoundVoices
    /\ \A v \in SoundVoices : \E k \in 1 .. Len(VoiceOrder) : VoiceOrder[k] = v
<1>0. <<"pulse1", "pulse2", "wave", "noise">> \in Seq({"pulse1", "pulse2", "wave", "noise"})
  OBVIOUS
<1>1. PICK order \in Seq({"pulse1", "pulse2", "wave", "noise"}) : order = <<"pulse1", "pulse2", "wave", "noise">>
  BY ONLY <1>0
<1>2. Kept(order, SoundVoices) \in Seq(SoundVoices)
  BY KeptIsOrdered
<1>3. ASSUME NEW v \in SoundVoices
      PROVE  \E k \in 1 .. Len(Kept(order, SoundVoices)) : Kept(order, SoundVoices)[k] = v
  <2>1. v \in {"pulse1", "pulse2", "wave", "noise"}
    BY SoundAssumption
  <2>2. \E i \in 1 .. Len(order) : order[i] = v
    <3>1. Len(order) = 4 /\ order[1] = "pulse1" /\ order[2] = "pulse2" /\ order[3] = "wave" /\ order[4] = "noise"
      BY <1>1
    <3> QED BY <2>1, <3>1
  <2>3. PICK i \in 1 .. Len(order) : order[i] = v
    BY <2>2
  <2>4. \E k \in 1 .. Len(Kept(order, SoundVoices)) : Kept(order, SoundVoices)[k] = order[i]
    BY <1>3, <2>3, KeptIsOrdered
  <2> QED BY ONLY <2>3, <2>4
<1>4. VoiceOrder = Kept(order, SoundVoices)
  BY <1>1 DEF VoiceOrder
<1>5. VoiceOrder \in Seq(SoundVoices) /\ \A v \in SoundVoices : \E k \in 1 .. Len(VoiceOrder) : VoiceOrder[k] = v
  BY ONLY <1>2, <1>3, <1>4
<1>6. FirstVoice \in SoundVoices
  <2>1. PICK v \in SoundVoices : TRUE
    BY SoundAssumption
  <2>2. 1 \in 1 .. Len(VoiceOrder)
    BY <1>5, <2>1
  <2> QED BY <1>5, <2>2 DEF FirstVoice
<1> QED BY <1>5, <1>6

\* The events kept are the last ones, all of them unless some are dropped.
LEMMA RecordedTells ==
    ASSUME NEW ce \in Tellings, NEW s \in Seq(Told(SoundVoices)), NEW bound \in Nat,
           \A i \in 1 .. Len(ce.queue) : ce.queue[i].at <= bound,
           \A i \in 1 .. Len(s) : s[i].at <= bound
    PROVE  /\ Recorded(ce, s) \in Tellings /\ Recorded(ce, s).observed = ce.observed
           /\ \A i \in 1 .. Len(Recorded(ce, s).queue) : Recorded(ce, s).queue[i].at <= bound
           /\ ~Drops(ce, s) => Recorded(ce, s).queue = ce.queue \o s
<1>1. PICK q \in Seq(Told(SoundVoices)) : q = ce.queue
  BY DEF Tellings
<1>2. q \o s \in Seq(Told(SoundVoices)) /\ Len(q \o s) = Len(q) + Len(s)
  OBVIOUS
<1>3. PICK all \in Seq(Told(SoundVoices)) : all = q \o s
  BY <1>2
<1>4. \A i \in 1 .. Len(all) : all[i].at <= bound
  <2>1. ASSUME NEW i \in 1 .. Len(q \o s) PROVE (q \o s)[i].at <= bound
    <3>1. CASE i \in 1 .. Len(q)
      <4>1. (q \o s)[i] = q[i]
        BY <3>1
      <4> QED BY <4>1, <3>1, <1>1
    <3>2. CASE i \notin 1 .. Len(q)
      <4>1. PICK j \in 1 .. Len(s) : i = Len(q) + j
        <5>1. i - Len(q) \in 1 .. Len(s) /\ i = Len(q) + (i - Len(q))
          BY <2>1, <1>2, <3>2
        <5> QED BY <5>1
      <4>2. (q \o s)[i] = s[j]
        BY <4>1
      <4> QED BY <4>2
    <3> QED BY <3>1, <3>2
  <2> QED BY <2>1, <1>3
<1>5. EventSlots \in Nat \ {0}
  BY SoundAssumption
<1>6. PICK excess \in Int : excess = Len(all) - EventSlots
  <2>1. Len(all) \in Nat
    OBVIOUS
  <2>2. Len(all) - EventSlots \in Int
    BY <1>5, <2>1
  <2> QED BY <2>2, Zenon
<1>7. PICK kept : kept = IF excess > 0 THEN SubSeq(all, excess + 1, Len(all)) ELSE all
  OBVIOUS
<1>8. Recorded(ce, s) = [ce EXCEPT !.queue = kept]
  BY <1>1, <1>3, <1>6, <1>7 DEF Recorded
<1>9. Drops(ce, s) <=> excess > 0
  BY <1>1, <1>3, <1>5, <1>6 DEF Drops
<1>10. kept \in Seq(Told(SoundVoices)) /\ \A i \in 1 .. Len(kept) : kept[i].at <= bound
  <2>1. CASE excess > 0
    <3>1. kept = SubSeq(all, excess + 1, Len(all)) /\ excess + 1 \in 1 .. Len(all) + 1 /\ Len(all) \in Nat
      BY <1>5, <1>6, <1>7, <2>1
    <3>2. kept \in Seq(Told(SoundVoices)) /\ Len(kept) = Len(all) - excess
      BY <3>1, <1>6, <2>1
    <3>3. ASSUME NEW i \in 1 .. Len(kept) PROVE kept[i].at <= bound
      <4>1. kept[i] = all[excess + i] /\ excess + i \in 1 .. Len(all)
        BY <3>1, <3>2, <1>6, <2>1
      <4> QED BY <4>1, <1>4
    <3> QED BY <3>2, <3>3
  <2>2. CASE ~(excess > 0)
    BY <1>4, <1>7, <2>2
  <2> QED BY <2>1, <2>2
<1>11. Recorded(ce, s) \in Tellings /\ Recorded(ce, s).observed = ce.observed /\ Recorded(ce, s).queue = kept
  BY <1>8, <1>10 DEF Tellings
<1>12. ~Drops(ce, s) => Recorded(ce, s).queue = ce.queue \o s
  BY <1>1, <1>3, <1>7, <1>9, <1>11
<1> QED BY <1>10, <1>11, <1>12

\* Events that tell of a's voices as they are.
TellsOf(a, s) ==
    \A i \in 1 .. Len(s) :
        /\ s[i].gate = a.voices[s[i].voice].on /\ (s[i].kind = "GateOff" => ~s[i].gate)
        /\ s[i].at = samples.counter

SettledBy(s, v) == \E i \in 1 .. Len(s) : s[i].voice = v /\ Settles(s[i])

\* What keeps the notes right: a voice whose note the events leave alone does not begin
\* to sound, and one that falls silent was not observed to sound, or falls silent unannounced.
Carried(a, s, observed, silent) ==
    \A v \in SoundVoices :
        IF SettledBy(s, v) THEN a.voices[v].on => observed[v]
        ELSE /\ a.voices[v].on => apu.voices[v].on
             /\ (apu.voices[v].on \/ v \in soundPast.silent) /\ chipEvents.observed[v]
                  => (a.voices[v].on \/ v \in silent) /\ observed[v]

\* Events with the gates of the voices, however many, keep what GbInv says of notes.
LEMMA TellingFollows ==
    ASSUME GbInv, NEW a, ApuRight(a), NEW s \in Seq(Told(SoundVoices)), TellsOf(a, s),
           NEW observed, NEW silent, Carried(a, s, observed, silent), ~soundPast.dropped
    PROVE  NotesRight(HeldAfterAll(held, chipEvents.queue \o s), a, observed, silent)
<1>1. /\ held \in Notes(SoundVoices) /\ chipEvents.queue \in Seq(Told(SoundVoices))
      /\ NotesRight(HeldAfterAll(held, chipEvents.queue), apu, chipEvents.observed, soundPast.silent)
  BY DEF GbInv, Tellings
<1>2. PICK h \in Notes(SoundVoices), q \in Seq(Told(SoundVoices)) : h = held /\ q = chipEvents.queue
  BY <1>1
<1>3. PICK notes \in Notes(SoundVoices) : notes = HeldAfterAll(h, q)
  BY NotesAreNotes
<1>4. HeldAfterAll(h, q \o s) = HeldAfterAll(notes, s)
  BY <1>3, NotesJoin
<1>5. PICK after : after = HeldAfterAll(notes, s)
  OBVIOUS
<1>6. ASSUME NEW v \in SoundVoices
      PROVE  /\ a.voices[v].on => after[v]
             /\ after[v] => (a.voices[v].on \/ v \in silent) /\ observed[v]
  <2>1. PICK gate \in BOOLEAN : gate = a.voices[v].on
    BY DEF ApuRight, VoiceRight
  <2>2. ASSUME NEW i \in 1 .. Len(s), s[i].voice = v
        PROVE  s[i].gate = gate /\ (s[i].kind = "GateOff" => ~gate)
    <3>1. s[i].gate = a.voices[s[i].voice].on /\ (s[i].kind = "GateOff" => ~s[i].gate)
      BY DEF TellsOf
    <3>2. s[i].gate = gate
      BY <3>1, <2>1, <2>2
    <3> QED BY <3>1, <3>2
  <2>3. notes[v] \in BOOLEAN
    BY DEF Notes
  <2>4. after[v] = IF \E i \in 1 .. Len(s) : s[i].voice = v /\ Settles(s[i]) THEN gate ELSE notes[v]
    <3>1. notes \in Notes(SoundVoices) /\ s \in Seq(Told(SoundVoices)) /\ v \in SoundVoices /\ gate \in BOOLEAN
      OBVIOUS
    <3>2. \A i \in 1 .. Len(s) : s[i].voice = v => s[i].gate = gate /\ (s[i].kind = "GateOff" => ~gate)
      BY <2>2
    <3> QED BY ONLY <3>1, <3>2, <1>5, OneGate
  <2>5. /\ apu.voices[v].on => notes[v]
        /\ notes[v] => (apu.voices[v].on \/ v \in soundPast.silent) /\ chipEvents.observed[v]
    BY <1>1, <1>2, <1>3 DEF NotesRight
  <2>6. CASE SettledBy(s, v)
    <3>1. after[v] = gate
      BY <2>4, <2>6 DEF SettledBy
    <3>2. gate => observed[v]
      BY <2>1, <2>6 DEF Carried
    <3> QED BY <3>1, <3>2, <2>1
  <2>7. CASE ~SettledBy(s, v)
    <3>1. after[v] = notes[v]
      BY <2>4, <2>7 DEF SettledBy
    <3>2. /\ a.voices[v].on => apu.voices[v].on
          /\ (apu.voices[v].on \/ v \in soundPast.silent) /\ chipEvents.observed[v]
               => (a.voices[v].on \/ v \in silent) /\ observed[v]
      BY <2>7 DEF Carried
    <3> QED BY <3>1, <3>2, <2>5
  <2> QED BY <2>6, <2>7
<1> QED BY <1>2, <1>4, <1>5, <1>6 DEF NotesRight

\* A step that announces s, whatever registers it is about.
LEMMA AnnouncedKeeps ==
    ASSUME GbInv, ApuRight(apu'), NEW s \in Seq(Told(SoundVoices)), TellsOf(apu', s),
           NEW observed \in Notes(SoundVoices), NEW silent \in SUBSET SoundVoices,
           Carried(apu', s, observed, silent),
           chipEvents' = Recorded([chipEvents EXCEPT !.observed = observed], s),
           soundPast' = [soundPast EXCEPT !.writes = soundPast.writes + 1,
                                          !.dropped = soundPast.dropped \/ Drops(chipEvents, s),
                                          !.silent = silent],
           samples' = samples, held' = held, apuState' = apuState
    PROVE  GbInv'
<1>0. /\ SamplesRight(samples) /\ chipEvents \in Tellings /\ soundPast \in SoundPasts
      /\ \A i \in 1 .. Len(chipEvents.queue) : chipEvents.queue[i].at <= samples.counter
  BY DEF GbInv
<1>1. PICK ce \in Tellings : ce = [chipEvents EXCEPT !.observed = observed]
  BY <1>0 DEF Tellings
<1>2. ce.queue = chipEvents.queue /\ ce.observed = observed
  BY <1>0, <1>1 DEF Tellings
<1>3. PICK bound \in Nat : bound = samples.counter
  BY <1>0 DEF SamplesRight
<1>4. /\ Recorded(ce, s) \in Tellings /\ Recorded(ce, s).observed = ce.observed
      /\ \A i \in 1 .. Len(Recorded(ce, s).queue) : Recorded(ce, s).queue[i].at <= bound
      /\ ~Drops(ce, s) => Recorded(ce, s).queue = ce.queue \o s
  <2>1. \A i \in 1 .. Len(ce.queue) : ce.queue[i].at <= bound
    BY <1>0, <1>2, <1>3
  <2>2. \A i \in 1 .. Len(s) : s[i].at <= bound
    BY <1>3 DEF TellsOf
  <2> QED BY <2>1, <2>2, RecordedTells
<1>5. chipEvents' = Recorded(ce, s) /\ (Drops(ce, s) <=> Drops(chipEvents, s))
  BY <1>1, <1>2 DEF Drops
<1>6. /\ soundPast' \in SoundPasts /\ soundPast'.next = soundPast.next /\ soundPast'.silent = silent
      /\ soundPast'.dropped = (soundPast.dropped \/ Drops(chipEvents, s))
  <2>1. PICK n \in Nat : n = soundPast.writes + 1
    BY <1>0 DEF SoundPasts
  <2>2. PICK d \in BOOLEAN : d = (soundPast.dropped \/ Drops(chipEvents, s))
    OBVIOUS
  <2>3. soundPast' = [soundPast EXCEPT !.writes = n, !.dropped = d, !.silent = silent]
    BY <2>1, <2>2
  <2>4. /\ soundPast' \in SoundPasts /\ soundPast'.next = soundPast.next /\ soundPast'.silent = silent
        /\ soundPast'.dropped = d
    BY <1>0, <2>3 DEF SoundPasts
  <2> QED BY <2>2, <2>4
<1>7. ASSUME ~soundPast'.dropped
      PROVE  NotesRight(HeldAfterAll(held', chipEvents'.queue), apu', chipEvents'.observed, soundPast'.silent)
  <2>1. ~soundPast.dropped /\ ~Drops(chipEvents, s)
    BY <1>6, <1>7
  <2>2. chipEvents'.queue = chipEvents.queue \o s /\ chipEvents'.observed = observed
    BY <1>2, <1>4, <1>5, <2>1
  <2>3. NotesRight(HeldAfterAll(held, chipEvents.queue \o s), apu', observed, silent)
    BY <2>1, TellingFollows
  <2> QED BY <2>2, <2>3, <1>6
<1>8. /\ chipEvents' \in Tellings
      /\ \A i \in 1 .. Len(chipEvents'.queue) : chipEvents'.queue[i].at <= samples'.counter
  BY <1>3, <1>4, <1>5
<1>9. (~soundPast.dropped =>
         NotesRight(HeldAfterAll(held, chipEvents.queue), apu, chipEvents.observed, soundPast.silent))'
  BY <1>7 DEF NotesRight
<1>10. /\ ApuRight(apu)' /\ SamplesRight(samples)' /\ (held \in Notes(SoundVoices))'
       /\ (apuState # NoApuState => ApuRight(apuState.apu) /\ SamplesRight(apuState.samples))'
       /\ (soundPast.next = samples.counter - samples.pending)'
  BY <1>6 DEF GbInv, ApuRight, SamplesRight
<1> QED BY <1>6, <1>8, <1>9, <1>10 DEF GbInv

WriteKinds == {"LevelChange", "PitchChange", "TimbreChange", "Retrigger"}

\* The events of a write tell of its voice; where they leave the note alone the gate
\* has not moved.
LEMMA WriteEventsTell ==
    ASSUME GbInv, NEW a, ApuRight(a), NEW v \in SoundVoices, NEW kind \in WriteKinds,
           NEW s, s = WriteEvents(a.voices, v, kind)
    PROVE  /\ s \in Seq(Told(SoundVoices)) /\ TellsOf(a, s)
           /\ \A i \in 1 .. Len(s) : s[i].voice = v
           /\ ~SettledBy(s, v) => kind # "Retrigger" /\ (a.voices[v].on <=> chipEvents.observed[v])
<1>1. PICK gate \in BOOLEAN : gate = a.voices[v].on
  BY DEF ApuRight, VoiceRight
<1>2. PICK at \in Nat : at = samples.counter
  BY DEF GbInv, SamplesRight
<1>3. PICK k : k = IF kind # "Retrigger" /\ gate # chipEvents.observed[v]
                   THEN IF gate THEN "GateOn" ELSE "GateOff" ELSE kind
  OBVIOUS
<1>4. PICK first, raw : first = PsgEvent(v, k, gate, at) /\ raw = PsgEvent(v, "RawWrite", gate, at)
  OBVIOUS
<1>5. s = <<first, raw>>
  BY <1>1, <1>2, <1>3, <1>4 DEF WriteEvents, EventOf
<1>6. k \in KindNames /\ "RawWrite" \in KindNames /\ (k = "GateOff" => ~gate)
  BY <1>3 DEF KindNames, WriteKinds
<1>7. /\ first \in Told(SoundVoices) /\ first.voice = v /\ first.gate = gate /\ first.at = at /\ first.kind = k
      /\ raw \in Told(SoundVoices) /\ raw.voice = v /\ raw.gate = gate /\ raw.at = at /\ raw.kind = "RawWrite"
  BY <1>4, <1>6 DEF PsgEvent, Told
<1>8. s \in Seq(Told(SoundVoices)) /\ Len(s) = 2 /\ s[1] = first /\ s[2] = raw
  BY <1>5, <1>7
<1>9. \A i \in 1 .. Len(s) : s[i] = first \/ s[i] = raw
  BY <1>8
<1>10. TellsOf(a, s)
  <2>1. ASSUME NEW i \in 1 .. Len(s)
        PROVE  /\ s[i].gate = a.voices[s[i].voice].on /\ (s[i].kind = "GateOff" => ~s[i].gate)
               /\ s[i].at = samples.counter
    <3>1. s[i].voice = v /\ s[i].gate = gate /\ s[i].at = at
      BY <1>7, <1>9
    <3>2. s[i].kind = "GateOff" => ~gate
      BY <1>6, <1>7, <1>9
    <3> QED BY <3>1, <3>2, <1>1, <1>2
  <2> QED BY <2>1 DEF TellsOf
<1>11. \A i \in 1 .. Len(s) : s[i].voice = v
  BY <1>7, <1>9
<1>12. ASSUME ~SettledBy(s, v) PROVE kind # "Retrigger" /\ (a.voices[v].on <=> chipEvents.observed[v])
  <2>1. ~Settles(first)
    BY <1>7, <1>8, <1>12 DEF SettledBy
  <2>2. k \notin {"GateOn", "GateOff", "Retrigger"}
    BY <2>1, <1>7 DEF Settles, Starts, Ends
  <2>3. chipEvents.observed[v] \in BOOLEAN
    BY DEF GbInv, Tellings, Notes
  <2> QED BY <2>2, <2>3, <1>1, <1>3
<1> QED BY <1>8, <1>10, <1>11, <1>12

\* A write that is announced with its voice; other voices may fall silent, not begin.
LEMMA WriteKeeps ==
    ASSUME GbInv, ApuRight(apu'), NEW v \in SoundVoices, NEW kind \in WriteKinds,
           NEW silent \in SUBSET SoundVoices,
           chipEvents' = Recorded([chipEvents EXCEPT !.observed[v] = apu'.voices[v].on],
                                  WriteEvents(apu'.voices, v, kind)),
           soundPast' = [soundPast EXCEPT !.writes = soundPast.writes + 1,
                             !.dropped = soundPast.dropped \/ Drops(chipEvents, WriteEvents(apu'.voices, v, kind)),
                             !.silent = silent],
           samples' = samples, held' = held, apuState' = apuState,
           kind # "Retrigger" => (apu'.voices[v].on => apu.voices[v].on),
           \A w \in SoundVoices \ {v} :
               /\ apu'.voices[w].on => apu.voices[w].on
               /\ apu.voices[w].on => apu'.voices[w].on \/ w \in silent
               /\ w \in soundPast.silent => w \in silent
    PROVE  GbInv'
<1>1. PICK s \in Seq(Told(SoundVoices)) : s = WriteEvents(apu'.voices, v, kind)
  BY WriteEventsTell
<1>2. PICK gate \in BOOLEAN : gate = apu'.voices[v].on
  BY DEF ApuRight, VoiceRight
<1>3. chipEvents.observed \in Notes(SoundVoices)
  BY DEF GbInv, Tellings
<1>4. PICK observed \in Notes(SoundVoices) : observed = [chipEvents.observed EXCEPT ![v] = gate]
  BY <1>3 DEF Notes
<1>5. observed[v] = gate /\ \A w \in SoundVoices \ {v} : observed[w] = chipEvents.observed[w]
  BY <1>3, <1>4 DEF Notes
<1>6. /\ TellsOf(apu', s) /\ \A i \in 1 .. Len(s) : s[i].voice = v
      /\ ~SettledBy(s, v) => kind # "Retrigger" /\ (apu'.voices[v].on <=> chipEvents.observed[v])
  BY <1>1, WriteEventsTell
<1>7. Carried(apu', s, observed, silent)
  <2>1. ASSUME NEW w \in SoundVoices
        PROVE  IF SettledBy(s, w) THEN apu'.voices[w].on => observed[w]
               ELSE /\ apu'.voices[w].on => apu.voices[w].on
                    /\ (apu.voices[w].on \/ w \in soundPast.silent) /\ chipEvents.observed[w]
                         => (apu'.voices[w].on \/ w \in silent) /\ observed[w]
    <3>1. CASE w = v
      <4>1. CASE SettledBy(s, v)
        BY <3>1, <4>1, <1>2, <1>5
      <4>2. CASE ~SettledBy(s, v)
        BY <3>1, <4>2, <1>2, <1>5, <1>6
      <4> QED BY <3>1, <4>1, <4>2
    <3>2. CASE w # v
      <4>1. ~SettledBy(s, w)
        BY <3>2, <1>6 DEF SettledBy
      <4>2. observed[w] = chipEvents.observed[w]
        BY <3>2, <1>5
      <4> QED BY <3>2, <4>1, <4>2
    <3> QED BY <3>1, <3>2
  <2> QED BY <2>1 DEF Carried
<1>8. chipEvents' = Recorded([chipEvents EXCEPT !.observed = observed], s)
  BY <1>1, <1>2, <1>4
<1>9. soundPast' = [soundPast EXCEPT !.writes = soundPast.writes + 1,
                                     !.dropped = soundPast.dropped \/ Drops(chipEvents, s), !.silent = silent]
  BY <1>1
<1> QED BY <1>6, <1>7, <1>8, <1>9, AnnouncedKeeps

\* The same, as Announce says it: no voice but its own is heard of.
LEMMA AnnounceKeeps ==
    ASSUME GbInv, NEW v \in SoundVoices, NEW kind \in WriteKinds, ApuRight(apu'),
           Announce(apu'.voices, v, kind), UNCHANGED <<samples, held, apuState>>,
           kind # "Retrigger" => (apu'.voices[v].on => apu.voices[v].on),
           \A w \in SoundVoices \ {v} : apu'.voices[w] = apu.voices[w]
    PROVE  GbInv'
<1>1. PICK silent \in SUBSET SoundVoices : silent = soundPast.silent \ {v}
  BY DEF GbInv, SoundPasts
<1>2. PICK s : s = WriteEvents(apu'.voices, v, kind)
  OBVIOUS
<1>3. /\ chipEvents' = Recorded([chipEvents EXCEPT !.observed[v] = apu'.voices[v].on], s)
      /\ soundPast' = [soundPast EXCEPT !.writes = soundPast.writes + 1,
                           !.dropped = soundPast.dropped \/ Drops(chipEvents, s), !.silent = silent]
  BY <1>1, <1>2 DEF Announce
<1>4. /\ chipEvents' = Recorded([chipEvents EXCEPT !.observed[v] = apu'.voices[v].on],
                                WriteEvents(apu'.voices, v, kind))
      /\ soundPast' = [soundPast EXCEPT !.writes = soundPast.writes + 1,
                           !.dropped = soundPast.dropped \/ Drops(chipEvents, WriteEvents(apu'.voices, v, kind)),
                           !.silent = silent]
  BY <1>2, <1>3
<1>5. \A w \in SoundVoices \ {v} :
         /\ apu'.voices[w].on => apu.voices[w].on
         /\ apu.voices[w].on => apu'.voices[w].on \/ w \in silent
         /\ w \in soundPast.silent => w \in silent
  BY <1>1
<1> QED BY <1>4, <1>5, WriteKeeps

Given(a, v, voice) == [a EXCEPT !.voices = [a.voices EXCEPT ![v] = voice]]

\* A chip with one voice exchanged.
LEMMA WithVoice ==
    ASSUME NEW a, ApuRight(a), NEW v \in SoundVoices, NEW voice, VoiceRight(voice),
           NEW b, b = Given(a, v, voice)
    PROVE  /\ ApuRight(b) /\ b.voices[v] = voice
           /\ \A w \in SoundVoices \ {v} : b.voices[w] = a.voices[w]
<1>1. PICK voices : voices = [a.voices EXCEPT ![v] = voice]
  OBVIOUS
<1>2. a.voices = [w \in SoundVoices |-> a.voices[w]] /\ \A w \in SoundVoices : VoiceRight(a.voices[w])
  BY DEF ApuRight
<1>3. /\ voices = [w \in SoundVoices |-> voices[w]] /\ voices[v] = voice
      /\ \A w \in SoundVoices \ {v} : voices[w] = a.voices[w]
  BY ONLY <1>1, <1>2, v \in SoundVoices
<1>4. \A w \in SoundVoices : VoiceRight(voices[w])
  BY <1>2, <1>3
<1>5. b = [f \in {"power", "step", "voices", "sweep"} |-> b[f]] /\ b.voices = voices
  BY <1>1 DEF ApuRight, Given
<1> QED BY <1>3, <1>4, <1>5 DEF ApuRight

\* A register that starts no voice.
LEMMA RegisterKeeps ==
    ASSUME GbInv, NEW v \in SoundVoices, NEW voice, VoiceRight(voice), voice.on => apu.voices[v].on,
           NEW kind \in WriteKinds, kind # "Retrigger", Write(v, voice, kind)
    PROVE  GbInv'
<1>1. ApuRight(apu)
  BY DEF GbInv
<1>2. PICK next : next = IF apu.power THEN voice ELSE apu.voices[v]
  OBVIOUS
<1>3. VoiceRight(next) /\ (next.on => apu.voices[v].on)
  BY <1>1, <1>2 DEF ApuRight
<1>4. /\ apu' = Given(apu, v, next)
      /\ Announce(apu'.voices, v, kind) /\ UNCHANGED <<samples, held, apuState>>
  BY <1>2 DEF Write, Given
<1>5. /\ ApuRight(apu') /\ apu'.voices[v] = next
      /\ \A w \in SoundVoices \ {v} : apu'.voices[w] = apu.voices[w]
  BY <1>1, <1>3, <1>4, WithVoice
<1>6. apu'.voices[v].on => apu.voices[v].on
  BY <1>3, <1>5
<1> QED BY <1>4, <1>5, <1>6, AnnounceKeeps

\* The registers that trigger nothing: NR11, NR12, NR13, NR30 and their like.
LEMMA RegistersKeep ==
    ASSUME GbInv, NEW v \in SoundVoices,
           \/ WriteLength(v, 1)
           \/ \E e \in {<<0, FALSE, 0>>, <<1, FALSE, 1>>} : WriteEnvelope(v, e[1], e[2], e[3])
           \/ \E dac \in BOOLEAN : WriteWaveDac(v, dac)
           \/ WriteFrequency(v, MaxFrequency)
    PROVE  GbInv'
<1>1. PICK old : old = apu.voices[v] /\ VoiceRight(old)
  BY DEF GbInv, ApuRight
<1>2. old = [f \in VoiceFields |-> old[f]] /\ old.on \in BOOLEAN /\ old.dac \in BOOLEAN /\ old.length \in Nat
      /\ (old.on => old.dac /\ old.length > 0)
  BY <1>1 DEF VoiceRight
<1>3. {"LevelChange", "PitchChange", "TimbreChange"} \subseteq WriteKinds \ {"Retrigger"}
  BY DEF WriteKinds
<1>4. ASSUME WriteLength(v, 1) PROVE GbInv'
  <2>1. PICK voice : voice = [old EXCEPT !.length = 1]
    OBVIOUS
  <2>2. VoiceRight(voice) /\ voice.on = old.on
    BY <1>2, <2>1 DEF VoiceRight, VoiceFields
  <2>3. Write(v, voice, "TimbreChange")
    BY <1>1, <1>4, <2>1 DEF WriteLength
  <2>4. voice.on => apu.voices[v].on
    BY <1>1, <2>2
  <2> QED BY <1>3, <2>2, <2>3, <2>4, RegisterKeeps
<1>5. ASSUME NEW initial, NEW up \in BOOLEAN, NEW period, WriteEnvelope(v, initial, up, period) PROVE GbInv'
  <2>1. PICK dac \in BOOLEAN : dac = (initial > 0 \/ up)
    OBVIOUS
  <2>2. PICK on \in BOOLEAN : on = (old.on /\ dac)
    OBVIOUS
  <2>3. PICK voice : voice = [old EXCEPT !.dac = dac, !.on = on, !.up = up, !.period = period,
                                         !.initial = initial, !.volume = initial, !.timer = period]
    OBVIOUS
  <2>4. voice = [f \in VoiceFields |-> voice[f]] /\ voice.on = on /\ voice.dac = dac /\ voice.length = old.length
    BY <1>2, <2>3 DEF VoiceFields
  <2>5. VoiceRight(voice) /\ (voice.on => old.on)
    BY <1>2, <2>2, <2>4 DEF VoiceRight
  <2>6. Write(v, voice, "LevelChange")
    BY <1>1, <1>5, <2>1, <2>2, <2>3 DEF WriteEnvelope
  <2>7. voice.on => apu.voices[v].on
    BY <1>1, <2>5
  <2> QED BY <1>3, <2>5, <2>6, <2>7, RegisterKeeps
<1>6. ASSUME NEW dac \in BOOLEAN, WriteWaveDac(v, dac) PROVE GbInv'
  <2>2. PICK on \in BOOLEAN : on = (old.on /\ dac)
    OBVIOUS
  <2>3. PICK voice : voice = [old EXCEPT !.dac = dac, !.on = on]
    OBVIOUS
  <2>4. voice = [f \in VoiceFields |-> voice[f]] /\ voice.on = on /\ voice.dac = dac /\ voice.length = old.length
    BY <1>2, <2>3 DEF VoiceFields
  <2>5. VoiceRight(voice) /\ (voice.on => old.on)
    BY <1>2, <2>2, <2>4 DEF VoiceRight
  <2>6. Write(v, voice, "TimbreChange")
    BY <1>1, <1>6, <2>2, <2>3 DEF WriteWaveDac
  <2>7. voice.on => apu.voices[v].on
    BY <1>1, <2>5
  <2> QED BY <1>3, <2>5, <2>6, <2>7, RegisterKeeps
<1>7. ASSUME WriteFrequency(v, MaxFrequency) PROVE GbInv'
  <2>1. PICK voice : voice = [old EXCEPT !.frequency = MaxFrequency]
    OBVIOUS
  <2>2. VoiceRight(voice) /\ voice.on = old.on
    BY <1>2, <2>1 DEF VoiceRight, VoiceFields
  <2>3. Write(v, voice, "PitchChange")
    BY <1>1, <1>7, <2>1 DEF WriteFrequency
  <2>4. voice.on => apu.voices[v].on
    BY <1>1, <2>2
  <2> QED BY <1>3, <2>2, <2>3, <2>4, RegisterKeeps
<1>8. ASSUME NEW e \in {<<0, FALSE, 0>>, <<1, FALSE, 1>>}, WriteEnvelope(v, e[1], e[2], e[3]) PROVE GbInv'
  <2>1. CASE e = <<0, FALSE, 0>>
    <3>1. WriteEnvelope(v, 0, FALSE, 0)
      BY <1>8, <2>1
    <3> QED BY <3>1, <1>5
  <2>2. CASE e = <<1, FALSE, 1>>
    <3>1. WriteEnvelope(v, 1, FALSE, 1)
      BY <1>8, <2>2
    <3> QED BY <3>1, <1>5
  <2> QED BY <2>1, <2>2, <1>8
<1> QED BY <1>4, <1>6, <1>7, <1>8

\* NR14 and its like, with a trigger or without.
LEMMA WriteControlKeeps ==
    ASSUME GbInv, NEW v \in SoundVoices, NEW lengthOn, NEW trigger \in BOOLEAN, WriteControl(v, lengthOn, trigger)
    PROVE  GbInv'
<1>0. ApuRight(apu)
  BY DEF GbInv
<1>1. PICK old : old = apu.voices[v] /\ VoiceRight(old)
  BY <1>0 DEF ApuRight
<1>2. old = [f \in VoiceFields |-> old[f]] /\ old.on \in BOOLEAN /\ old.dac \in BOOLEAN /\ old.length \in Nat
      /\ (old.on => old.dac /\ old.length > 0)
  BY <1>1 DEF VoiceRight
<1>3. PICK voice : voice = [old EXCEPT !.lengthOn = lengthOn]
  OBVIOUS
<1>4. /\ voice = [f \in VoiceFields |-> voice[f]] /\ voice.on = old.on /\ voice.dac = old.dac
      /\ voice.length = old.length
  BY <1>2, <1>3 DEF VoiceFields
<1>5. VoiceRight(voice)
  BY <1>2, <1>4 DEF VoiceRight
<1>6. VoiceRight(Triggered(voice))
  <2>1. PICK length \in Nat : length = IF voice.length = 0 THEN FullLength ELSE voice.length
    BY <1>2, <1>4, SoundAssumption
  <2>2. length > 0
    BY <2>1, <1>2, <1>4, SoundAssumption
  <2>3. PICK next : next = [voice EXCEPT !.length = length, !.on = voice.dac,
                                         !.volume = voice.initial, !.timer = voice.period]
    OBVIOUS
  <2>4. next = [f \in VoiceFields |-> next[f]] /\ next.on = voice.dac /\ next.dac = voice.dac
        /\ next.length = length
    BY <1>4, <2>3 DEF VoiceFields
  <2>5. VoiceRight(next)
    BY <1>2, <1>4, <2>2, <2>4 DEF VoiceRight
  <2>6. Triggered(voice) = next
    BY <2>1, <2>3 DEF Triggered
  <2> QED BY <2>5, <2>6
<1>7. PICK next : next = IF trigger THEN Triggered(voice) ELSE voice
  OBVIOUS
<1>8. PICK kind \in WriteKinds : kind = IF trigger THEN "Retrigger"
                                        ELSE IF v = "noise" THEN "TimbreChange" ELSE "PitchChange"
  BY DEF WriteKinds
<1>9. /\ apu' = IF ~apu.power THEN apu
                ELSE [apu EXCEPT !.voices[v] = next,
                                 !.sweep = IF v = "pulse1" THEN SweepArmed(@, voice.frequency) ELSE @]
      /\ Announce(apu'.voices, v, kind) /\ UNCHANGED <<samples, held, apuState>>
  BY <1>1, <1>3, <1>7, <1>8 DEF WriteControl
<1>10. CASE ~apu.power
  <2>1. apu' = apu
    BY <1>9, <1>10
  <2> QED BY <2>1, <1>0, <1>9, AnnounceKeeps
<1>11. CASE apu.power
  <2>1. PICK b : b = Given(apu, v, next)
    OBVIOUS
  <2>2. VoiceRight(next)
    BY <1>5, <1>6, <1>7
  <2>3. /\ ApuRight(b) /\ b.voices[v] = next
        /\ \A w \in SoundVoices \ {v} : b.voices[w] = apu.voices[w]
    BY <1>0, <2>1, <2>2, WithVoice
  <2>4. PICK sweep : sweep = IF v = "pulse1" THEN SweepArmed(apu.sweep, voice.frequency) ELSE apu.sweep
    OBVIOUS
  <2>5. apu' = [apu EXCEPT !.voices[v] = next, !.sweep = sweep]
    BY <1>9, <1>11, <2>4
  <2>6. apu' = [b EXCEPT !.sweep = sweep]
    BY <2>1, <2>5 DEF Given
  <2>7. ApuRight(apu') /\ apu'.voices = b.voices
    BY <2>3, <2>6 DEF ApuRight
  <2>8. ~trigger => next.on = apu.voices[v].on
    BY <1>1, <1>4, <1>7
  <2>9. kind # "Retrigger" => ~trigger
    BY <1>8
  <2>10. kind # "Retrigger" => (apu'.voices[v].on => apu.voices[v].on)
    BY <2>3, <2>7, <2>8, <2>9
  <2> QED BY <1>9, <2>3, <2>7, <2>10, AnnounceKeeps
<1> QED BY <1>10, <1>11

\* NR10.
LEMMA WriteSweepKeeps == GbInv /\ WriteSweep(1, 1, FALSE) => GbInv'
<1> SUFFICES ASSUME GbInv, WriteSweep(1, 1, FALSE) PROVE GbInv'
  OBVIOUS
<1>1. PICK v \in SoundVoices : v = "pulse1"
  BY DEF WriteSweep
<1>2. Announce(apu'.voices, v, "TimbreChange") /\ UNCHANGED <<samples, held, apuState>>
  BY <1>1 DEF WriteSweep
<1>3. PICK sweep : apu' = IF ~apu.power THEN apu ELSE [apu EXCEPT !.sweep = sweep]
  BY DEF WriteSweep
<1>4. ApuRight(apu)
  BY DEF GbInv
<1>5. ApuRight(apu') /\ apu'.voices = apu.voices
  BY <1>3, <1>4 DEF ApuRight
<1>6. "TimbreChange" \in WriteKinds /\ "TimbreChange" # "Retrigger"
  BY DEF WriteKinds
<1>7. apu'.voices[v].on => apu.voices[v].on
  BY <1>5
<1>8. \A w \in SoundVoices \ {v} : apu'.voices[w] = apu.voices[w]
  BY <1>5
<1> QED BY <1>2, <1>5, <1>6, <1>7, <1>8, AnnounceKeeps

\* One event for each voice of a sequence.
Telling(voices, order, kind) == [i \in 1 .. Len(order) |-> EventOf(voices, order[i], kind)]

\* Events of one kind about voices in some order carry their gates.
LEMMA TellingTells ==
    ASSUME GbInv, NEW a, ApuRight(a), NEW order \in Seq(SoundVoices),
           NEW kind \in {"LevelChange", "RoutingChange", "RawWrite"},
           NEW s, s = Telling(a.voices, order, kind)
    PROVE  /\ s \in Seq(Told(SoundVoices)) /\ Len(s) = Len(order) /\ TellsOf(a, s)
           /\ \A i \in 1 .. Len(s) : s[i].voice = order[i] /\ s[i].kind = kind
<1>1. PICK n \in Nat : n = Len(order)
  OBVIOUS
<1>2. PICK at \in Nat : at = samples.counter
  BY DEF GbInv, SamplesRight
<1>3. ASSUME NEW i \in 1 .. n
      PROVE  /\ s[i] \in Told(SoundVoices) /\ s[i].voice = order[i] /\ s[i].kind = kind /\ s[i].at = at
             /\ s[i].gate = a.voices[order[i]].on
  <2>1. PICK v \in SoundVoices : v = order[i]
    BY <1>1
  <2>2. PICK gate \in BOOLEAN : gate = a.voices[v].on
    BY DEF ApuRight, VoiceRight
  <2>3. s[i] = [voice |-> v, kind |-> kind, gate |-> gate, at |-> at]
    BY <1>1, <1>2, <2>1, <2>2 DEF Telling, EventOf, PsgEvent
  <2>4. kind \in KindNames
    BY DEF KindNames
  <2> QED BY <2>1, <2>2, <2>3, <2>4 DEF Told
<1>4. s \in [1 .. n -> Told(SoundVoices)]
  BY <1>1, <1>3 DEF Telling
<1>5. s \in Seq(Told(SoundVoices)) /\ Len(s) = n
  BY <1>4, IsASeq
<1>6. TellsOf(a, s)
  <2>1. ASSUME NEW i \in 1 .. Len(s)
        PROVE  /\ s[i].gate = a.voices[s[i].voice].on /\ (s[i].kind = "GateOff" => ~s[i].gate)
               /\ s[i].at = samples.counter
    <3>1. s[i].voice = order[i] /\ s[i].kind # "GateOff" /\ s[i].at = at
      BY <1>3, <1>5
    <3>2. s[i].gate = a.voices[order[i]].on
      BY <1>3, <1>5
    <3> QED BY <3>1, <3>2, <1>2
  <2> QED BY <2>1 DEF TellsOf
<1> QED BY <1>1, <1>3, <1>5, <1>6

\* Events that carry the gates, followed by others that do, carry the gates.
LEMMA TellsBoth ==
    ASSUME NEW a, NEW s \in Seq(Told(SoundVoices)), NEW t \in Seq(Told(SoundVoices)), TellsOf(a, s), TellsOf(a, t)
    PROVE  TellsOf(a, s \o t)
<1>1. ASSUME NEW i \in 1 .. Len(s \o t)
      PROVE  (\E j \in 1 .. Len(s) : (s \o t)[i] = s[j]) \/ (\E j \in 1 .. Len(t) : (s \o t)[i] = t[j])
  <2>1. CASE i \in 1 .. Len(s)
    <3>1. (s \o t)[i] = s[i]
      BY <2>1
    <3> QED BY <2>1, <3>1
  <2>2. CASE i \notin 1 .. Len(s)
    <3>1. PICK j \in 1 .. Len(t) : i = Len(s) + j
      <4>1. i - Len(s) \in 1 .. Len(t) /\ i = Len(s) + (i - Len(s))
        BY <1>1, <2>2
      <4> QED BY <4>1
    <3>2. (s \o t)[i] = t[j]
      BY <3>1
    <3> QED BY <3>2
  <2> QED BY <2>1, <2>2
<1>2. PICK u : u = s \o t
  OBVIOUS
<1> QED BY <1>1, <1>2 DEF TellsOf

\* NR50 and NR51, which change no voice.
LEMMA WriteMixerKeeps ==
    ASSUME GbInv, NEW kind \in {"LevelChange", "RoutingChange"}, WriteMixer(kind)
    PROVE  GbInv'
<1>0. ApuRight(apu) /\ chipEvents \in Tellings /\ soundPast \in SoundPasts
  BY DEF GbInv
<1>1. PICK s \in Seq(Told(SoundVoices)) : s = Telling(apu.voices, VoiceOrder, kind)
  BY <1>0, VoiceOrderRight, TellingTells
<1>2. /\ TellsOf(apu, s) /\ Len(s) = Len(VoiceOrder)
      /\ \A i \in 1 .. Len(s) : s[i].voice = VoiceOrder[i] /\ s[i].kind = kind
  <2>1. VoiceOrder \in Seq(SoundVoices)
    BY VoiceOrderRight
  <2>2. kind \in {"LevelChange", "RoutingChange", "RawWrite"}
    OBVIOUS
  <2> QED BY <1>0, <1>1, <2>1, <2>2, TellingTells, SMTT(30)
<1>3. PICK order \in Seq(SoundVoices) : order = <<FirstVoice>>
  <2>1. <<FirstVoice>> \in Seq(SoundVoices)
    BY VoiceOrderRight
  <2> QED BY ONLY <2>1
<1>4. PICK t \in Seq(Told(SoundVoices)) : t = Telling(apu.voices, order, "RawWrite")
  BY <1>0, TellingTells
<1>5. TellsOf(apu, t) /\ Len(t) = Len(order) /\ \A i \in 1 .. Len(t) : t[i].kind = "RawWrite"
  BY <1>0, <1>4, TellingTells
<1>6. t = <<EventOf(apu.voices, FirstVoice, "RawWrite")>>
  <2>1. Len(order) = 1 /\ order[1] = FirstVoice
    BY <1>3
  <2>2. t = [i \in 1 .. 1 |-> EventOf(apu.voices, order[i], "RawWrite")]
    BY <1>4, <2>1 DEF Telling
  <2>3. Len(t) = 1 /\ t[1] = EventOf(apu.voices, FirstVoice, "RawWrite")
    BY <1>5, <2>1, <2>2
  <2> QED BY <2>3
<1>7. s \o t \in Seq(Told(SoundVoices)) /\ TellsOf(apu, s \o t)
  BY <1>2, <1>5, TellsBoth
<1>8. PICK all \in Seq(Told(SoundVoices)) : all = s \o t
  BY <1>7
<1>9. ASSUME NEW v \in SoundVoices
      PROVE  SettledBy(all, v) <=> kind = "LevelChange" /\ ~apu.voices[v].on
  <2>1. ASSUME kind = "LevelChange", ~apu.voices[v].on PROVE SettledBy(all, v)
    <3>1. PICK i \in 1 .. Len(s) : s[i].voice = v /\ s[i].kind = kind
      BY <1>2, VoiceOrderRight
    <3>2. ~s[i].gate
      BY <3>1, <2>1, <1>2 DEF TellsOf
    <3>3. i \in 1 .. Len(all) /\ all[i] = s[i]
      BY <1>8, <3>1
    <3> QED BY <3>1, <3>2, <3>3, <2>1 DEF SettledBy, Settles
  <2>2. ASSUME SettledBy(all, v) PROVE kind = "LevelChange" /\ ~apu.voices[v].on
    <3>1. PICK i \in 1 .. Len(all) : all[i].voice = v /\ Settles(all[i])
      BY <2>2 DEF SettledBy
    <3>2. CASE i \in 1 .. Len(s)
      <4>1. all[i] = s[i]
        BY <1>8, <3>2
      <4>2. kind = "LevelChange" /\ ~s[i].gate /\ s[i].voice = v
        BY <1>2, <3>1, <3>2, <4>1 DEF Settles, Starts, Ends
      <4> QED BY <4>2, <3>2, <1>2 DEF TellsOf
    <3>3. CASE i \notin 1 .. Len(s)
      <4>1. PICK j \in 1 .. Len(t) : i = Len(s) + j
        <5>1. i - Len(s) \in 1 .. Len(t) /\ i = Len(s) + (i - Len(s))
          BY <1>8, <3>1, <3>3
        <5> QED BY <5>1
      <4>2. all[i] = t[j]
        BY <1>8, <4>1
      <4> QED BY <4>1, <4>2, <1>5, <3>1 DEF Settles, Starts, Ends
    <3> QED BY <3>2, <3>3
  <2> QED BY <2>1, <2>2
<1>10. PICK observed \in Notes(SoundVoices) : observed = chipEvents.observed
  BY <1>0 DEF Tellings
<1>11. PICK silent \in SUBSET SoundVoices : silent = IF kind = "LevelChange" THEN {} ELSE soundPast.silent
  BY <1>0 DEF SoundPasts
<1>12. /\ chipEvents' = Recorded(chipEvents, all)
       /\ soundPast' = [soundPast EXCEPT !.writes = soundPast.writes + 1,
                                         !.dropped = soundPast.dropped \/ Drops(chipEvents, all),
                                         !.silent = silent]
       /\ apu' = apu /\ samples' = samples /\ held' = held /\ apuState' = apuState
  BY <1>1, <1>6, <1>8, <1>11 DEF WriteMixer, Telling
<1>13. chipEvents = [chipEvents EXCEPT !.observed = observed]
  BY <1>0, <1>10 DEF Tellings
<1>14. Carried(apu', all, observed, silent)
  <2>1. ASSUME NEW v \in SoundVoices
        PROVE  IF SettledBy(all, v) THEN apu'.voices[v].on => observed[v]
               ELSE /\ apu'.voices[v].on => apu.voices[v].on
                    /\ (apu.voices[v].on \/ v \in soundPast.silent) /\ chipEvents.observed[v]
                         => (apu'.voices[v].on \/ v \in silent) /\ observed[v]
    <3>1. CASE SettledBy(all, v)
      BY <3>1, <1>9, <1>12
    <3>2. CASE ~SettledBy(all, v)
      BY <3>2, <1>9, <1>10, <1>11, <1>12
    <3> QED BY <3>1, <3>2
  <2> QED BY <2>1 DEF Carried
<1>15. ApuRight(apu') /\ TellsOf(apu', all)
  BY <1>0, <1>7, <1>8, <1>12
<1>16. chipEvents' = Recorded([chipEvents EXCEPT !.observed = observed], all)
  BY <1>12, <1>13
<1> QED BY <1>12, <1>14, <1>15, <1>16, AnnouncedKeeps

\* A reset chip is silent.
LEMMA NewApuRight == ApuRight(NewApu) /\ \A v \in SoundVoices : NewApu.voices[v] = QuietVoice
<1>1. VoiceRight(QuietVoice)
  BY DEF VoiceRight, VoiceFields, QuietVoice
<1> QED BY <1>1 DEF NewApu, ApuRight

\* NR52: power off silences the voices and is not announced, power on starts anew.
LEMMA WritePowerKeeps ==
    ASSUME GbInv, NEW power \in BOOLEAN, WritePower(power)
    PROVE  GbInv'
<1>0. ApuRight(apu) /\ chipEvents \in Tellings /\ soundPast \in SoundPasts
  BY DEF GbInv
<1>1. PICK v \in SoundVoices : v = FirstVoice
  BY VoiceOrderRight
<1>2. apu' = IF power THEN [apu EXCEPT !.power = TRUE]
             ELSE [apu EXCEPT !.power = FALSE, !.voices = NewApu.voices, !.sweep = NoSweep]
  BY DEF WritePower
<1>3. /\ ApuRight(apu')
      /\ \A w \in SoundVoices : apu'.voices[w].on => apu.voices[w].on
      /\ power => apu'.voices = apu.voices
  <2>1. CASE power
    BY <1>0, <1>2, <2>1 DEF ApuRight
  <2>2. CASE ~power
    <3>1. PICK voices : voices = NewApu.voices
      OBVIOUS
    <3>2. voices = [w \in SoundVoices |-> voices[w]] /\ \A w \in SoundVoices : VoiceRight(voices[w])
      BY <3>1, NewApuRight DEF ApuRight
    <3>3. apu' = [apu EXCEPT !.power = FALSE, !.voices = voices, !.sweep = NoSweep]
      BY <1>2, <2>2, <3>1
    <3>4. apu'.voices = voices /\ apu' = [f \in {"power", "step", "voices", "sweep"} |-> apu'[f]]
      BY <1>0, <3>3 DEF ApuRight
    <3>5. \A w \in SoundVoices : ~voices[w].on
      BY <3>1, NewApuRight DEF QuietVoice
    <3> QED BY <2>2, <3>2, <3>4, <3>5 DEF ApuRight
  <2> QED BY <2>1, <2>2
<1>4. PICK silent \in SUBSET SoundVoices :
          silent = (soundPast.silent \cup {w \in SoundVoices : apu.voices[w].on /\ ~power}) \ {v}
  BY <1>0 DEF SoundPasts
<1>5. PICK s : s = WriteEvents(apu'.voices, v, "TimbreChange")
  OBVIOUS
<1>6. /\ chipEvents' = Recorded([chipEvents EXCEPT !.observed[v] = apu'.voices[v].on], s)
      /\ soundPast' = [soundPast EXCEPT !.writes = soundPast.writes + 1,
                           !.dropped = soundPast.dropped \/ Drops(chipEvents, s), !.silent = silent]
      /\ samples' = samples /\ held' = held /\ apuState' = apuState
  BY <1>1, <1>4, <1>5 DEF WritePower
<1>7. /\ chipEvents' = Recorded([chipEvents EXCEPT !.observed[v] = apu'.voices[v].on],
                                WriteEvents(apu'.voices, v, "TimbreChange"))
      /\ soundPast' = [soundPast EXCEPT !.writes = soundPast.writes + 1,
                           !.dropped = soundPast.dropped
                                         \/ Drops(chipEvents, WriteEvents(apu'.voices, v, "TimbreChange")),
                           !.silent = silent]
  BY <1>5, <1>6
<1>8. \A w \in SoundVoices \ {v} :
         /\ apu'.voices[w].on => apu.voices[w].on
         /\ apu.voices[w].on => apu'.voices[w].on \/ w \in silent
         /\ w \in soundPast.silent => w \in silent
  BY <1>3, <1>4
<1>9. "TimbreChange" \in WriteKinds /\ (apu'.voices[v].on => apu.voices[v].on)
  BY <1>3 DEF WriteKinds
<1> QED BY <1>3, <1>6, <1>7, <1>8, <1>9, WriteKeeps

\* Time starts no voice.
Quieter(a, b) == ApuRight(b) /\ \A v \in SoundVoices : b.voices[v].on => a.voices[v].on

\* Voices that only fall silent leave a chip that is quieter.
LEMMA AllQuieter ==
    ASSUME NEW a, ApuRight(a), NEW voices, voices = [v \in SoundVoices |-> voices[v]],
           \A v \in SoundVoices : VoiceRight(voices[v]) /\ (voices[v].on => a.voices[v].on)
    PROVE  Quieter(a, [a EXCEPT !.voices = voices])
<1>1. PICK b : b = [a EXCEPT !.voices = voices]
  OBVIOUS
<1>2. b = [f \in {"power", "step", "voices", "sweep"} |-> b[f]] /\ b.voices = voices
  BY <1>1 DEF ApuRight
<1> QED BY <1>1, <1>2 DEF ApuRight, Quieter

\* A length that expires ends a voice and starts none.
LEMMA LengthTickKeeps ==
    ASSUME NEW voice, VoiceRight(voice)
    PROVE  VoiceRight(LengthTick(voice)) /\ (LengthTick(voice).on => voice.on)
<1>1. voice = [f \in VoiceFields |-> voice[f]] /\ voice.on \in BOOLEAN /\ voice.dac \in BOOLEAN
      /\ voice.length \in Nat /\ (voice.on => voice.dac /\ voice.length > 0)
  BY DEF VoiceRight
<1>2. CASE voice.lengthOn /\ voice.length > 0
  <2>1. PICK on \in BOOLEAN : on = (voice.on /\ voice.length > 1)
    OBVIOUS
  <2>2. PICK length \in Nat : length = voice.length - 1
    <3>1. voice.length - 1 \in Nat
      BY <1>1, <1>2
    <3> QED BY <3>1
  <2>3. PICK next : next = [voice EXCEPT !.length = length, !.on = on]
    OBVIOUS
  <2>4. next = [f \in VoiceFields |-> next[f]] /\ next.on = on /\ next.dac = voice.dac /\ next.length = length
    BY <1>1, <2>3 DEF VoiceFields
  <2>5. LengthTick(voice) = next
    BY <1>2, <2>1, <2>2, <2>3 DEF LengthTick
  <2>6. on => voice.on /\ length > 0
    <3>1. voice.length > 1 => length > 0
      BY <1>1, <2>2
    <3>2. on => voice.on /\ voice.length > 1
      BY <1>1, <2>1
    <3> QED BY <3>1, <3>2
  <2>7. VoiceRight(next) /\ (next.on => voice.on)
    BY <1>1, <2>4, <2>6 DEF VoiceRight
  <2> QED BY <2>5, <2>7
<1>3. CASE ~(voice.lengthOn /\ voice.length > 0)
  BY <1>3 DEF LengthTick
<1> QED BY <1>2, <1>3

\* An envelope changes a volume and no gate.
LEMMA EnvelopeTickKeeps ==
    ASSUME NEW voice, VoiceRight(voice)
    PROVE  VoiceRight(EnvelopeTick(voice)) /\ (EnvelopeTick(voice).on => voice.on)
<1>1. voice = [f \in VoiceFields |-> voice[f]] /\ voice.on \in BOOLEAN /\ voice.dac \in BOOLEAN
      /\ voice.length \in Nat /\ (voice.on => voice.dac /\ voice.length > 0)
  BY DEF VoiceRight
<1>2. ASSUME NEW timer, NEW volume
      PROVE  /\ VoiceRight([voice EXCEPT !.timer = timer, !.volume = volume])
             /\ [voice EXCEPT !.timer = timer, !.volume = volume].on = voice.on
  <2>1. PICK next : next = [voice EXCEPT !.timer = timer, !.volume = volume]
    OBVIOUS
  <2>2. /\ next = [f \in VoiceFields |-> next[f]] /\ next.on = voice.on /\ next.dac = voice.dac
        /\ next.length = voice.length
    BY <1>1, <2>1 DEF VoiceFields
  <2>3. VoiceRight(next) /\ next.on = voice.on
    BY <1>1, <2>2 DEF VoiceRight
  <2> QED BY <2>1, <2>3
<1>3. PICK next : next = EnvelopeTick(voice)
  OBVIOUS
<1>4. \/ next = voice
      \/ \E timer, volume : next = [voice EXCEPT !.timer = timer, !.volume = volume]
  <2>1. CASE voice.period = 0
    BY <2>1, <1>3 DEF EnvelopeTick
  <2>2. CASE voice.period # 0 /\ (voice.timer - 1) % TimerSize > 0
    <3>1. PICK timer : timer = (voice.timer - 1) % TimerSize
      OBVIOUS
    <3>2. next = [voice EXCEPT !.timer = timer]
      BY <2>2, <3>1, <1>3 DEF EnvelopeTick
    <3>3. [voice EXCEPT !.timer = timer] = [voice EXCEPT !.timer = timer, !.volume = voice.volume]
      BY <1>1
    <3> QED BY <3>2, <3>3
  <2>3. CASE voice.period # 0 /\ ~((voice.timer - 1) % TimerSize > 0)
    <3>1. PICK volume : volume = IF voice.up THEN IF voice.volume < MaxVolume THEN voice.volume + 1 ELSE voice.volume
                                 ELSE IF voice.volume > 0 THEN voice.volume - 1 ELSE voice.volume
      OBVIOUS
    <3>2. next = [voice EXCEPT !.timer = voice.period, !.volume = volume]
      BY <2>3, <3>1, <1>3 DEF EnvelopeTick
    <3> QED BY <3>2
  <2> QED BY <2>1, <2>2, <2>3
<1>5. CASE next = voice
  BY <1>3, <1>5
<1>6. CASE \E timer, volume : next = [voice EXCEPT !.timer = timer, !.volume = volume]
  <2>1. PICK timer, volume : next = [voice EXCEPT !.timer = timer, !.volume = volume]
    BY <1>6
  <2>2. VoiceRight(next) /\ next.on = voice.on
    BY <2>1, <1>2
  <2> QED BY <2>2, <1>3
<1> QED BY <1>4, <1>5, <1>6

\* A sweep that overflows ends pulse 1 and starts nothing.
LEMMA SweepTickKeeps ==
    ASSUME NEW a, ApuRight(a), "pulse1" \in SoundVoices
    PROVE  Quieter(a, SweepTick(a))
<1>1. PICK v \in SoundVoices : v = "pulse1"
  OBVIOUS
<1>2. PICK old : old = a.voices[v] /\ VoiceRight(old)
  BY DEF ApuRight
<1>3. old = [f \in VoiceFields |-> old[f]] /\ old.on \in BOOLEAN /\ old.dac \in BOOLEAN
      /\ old.length \in Nat /\ (old.on => old.dac /\ old.length > 0)
  BY <1>2 DEF VoiceRight
<1>4. a.voices = [w \in SoundVoices |-> a.voices[w]] /\ a = [f \in {"power", "step", "voices", "sweep"} |-> a[f]]
  BY DEF ApuRight
<1>5. ASSUME NEW sweep PROVE Quieter(a, [a EXCEPT !.sweep = sweep])
  BY DEF ApuRight, Quieter
<1>6. ASSUME NEW sweep, NEW voice, VoiceRight(voice), voice.on => old.on
      PROVE  Quieter(a, [Given(a, v, voice) EXCEPT !.sweep = sweep])
  <2>1. PICK b : b = Given(a, v, voice)
    OBVIOUS
  <2>2. /\ ApuRight(b) /\ b.voices[v] = voice
        /\ \A w \in SoundVoices \ {v} : b.voices[w] = a.voices[w]
    BY <2>1, <1>6, WithVoice
  <2>3. ApuRight([b EXCEPT !.sweep = sweep]) /\ [b EXCEPT !.sweep = sweep].voices = b.voices
    BY <2>2 DEF ApuRight
  <2>4. \A w \in SoundVoices : b.voices[w].on => a.voices[w].on
    BY <2>2, <1>2, <1>6
  <2> QED BY <2>1, <2>3, <2>4 DEF Quieter
<1>7. PICK next : next = IF a.sweep.negate THEN a.sweep.shadow - a.sweep.shadow \div (2 ^ a.sweep.shift)
                         ELSE a.sweep.shadow + a.sweep.shadow \div (2 ^ a.sweep.shift)
  OBVIOUS
<1>8. PICK after : after = SweepTick(a)
  OBVIOUS
<1>9. PICK timer : timer = (a.sweep.timer - 1) % TimerSize
  OBVIOUS
<1>10. after = CASE ~a.sweep.on \/ a.sweep.period = 0 \/ a.sweep.shift = 0 -> a
                 [] a.sweep.on /\ a.sweep.period # 0 /\ a.sweep.shift # 0 /\ timer > 0 ->
                      [a EXCEPT !.sweep.timer = timer]
                 [] a.sweep.on /\ a.sweep.period # 0 /\ a.sweep.shift # 0 /\ timer = 0 /\ next > MaxFrequency ->
                      [a EXCEPT !.sweep.timer = a.sweep.period, !.voices["pulse1"].on = FALSE]
                 [] OTHER -> [a EXCEPT !.sweep.timer = a.sweep.period, !.sweep.shadow = next,
                                       !.voices["pulse1"].frequency = next]
  BY <1>7, <1>8, <1>9 DEF SweepTick
<1>11. \/ after = a
       \/ after = [a EXCEPT !.sweep.timer = timer]
       \/ after = [a EXCEPT !.sweep.timer = a.sweep.period, !.voices["pulse1"].on = FALSE]
       \/ after = [a EXCEPT !.sweep.timer = a.sweep.period, !.sweep.shadow = next,
                            !.voices["pulse1"].frequency = next]
  BY <1>10
<1>12. Quieter(a, a)
  BY DEF Quieter
<1>13. CASE after = [a EXCEPT !.sweep.timer = timer]
  <2>1. PICK sweep : sweep = [a.sweep EXCEPT !.timer = timer]
    OBVIOUS
  <2>2. after = [a EXCEPT !.sweep = sweep]
    BY <1>13, <2>1
  <2> QED BY <1>5, <1>8, <2>2
<1>14. CASE after = [a EXCEPT !.sweep.timer = a.sweep.period, !.voices["pulse1"].on = FALSE]
  <2>1. PICK sweep : sweep = [a.sweep EXCEPT !.timer = a.sweep.period]
    OBVIOUS
  <2>2. PICK voice : voice = [old EXCEPT !.on = FALSE]
    OBVIOUS
  <2>3. after = [Given(a, v, voice) EXCEPT !.sweep = sweep]
    BY <1>1, <1>2, <1>4, <1>14, <2>1, <2>2 DEF Given
  <2>4. VoiceRight(voice) /\ (voice.on => old.on)
    BY <1>3, <2>2 DEF VoiceRight, VoiceFields
  <2> QED BY <1>6, <1>8, <2>3, <2>4
<1>15. CASE after = [a EXCEPT !.sweep.timer = a.sweep.period, !.sweep.shadow = next,
                              !.voices["pulse1"].frequency = next]
  <2>1. PICK sweep : sweep = [[a.sweep EXCEPT !.timer = a.sweep.period] EXCEPT !.shadow = next]
    OBVIOUS
  <2>2. PICK voice : voice = [old EXCEPT !.frequency = next]
    OBVIOUS
  <2>3. after = [Given(a, v, voice) EXCEPT !.sweep = sweep]
    BY <1>1, <1>2, <1>4, <1>15, <2>1, <2>2 DEF Given
  <2>4. VoiceRight(voice) /\ (voice.on => old.on)
    BY <1>3, <2>2 DEF VoiceRight, VoiceFields
  <2> QED BY <1>6, <1>8, <2>3, <2>4
<1> QED BY <1>8, <1>11, <1>12, <1>13, <1>14, <1>15

\* A step of the frame sequencer starts no voice.
LEMMA SequencerStepKeeps ==
    ASSUME NEW a, ApuRight(a)
    PROVE  Quieter(a, SequencerStep(a))
<1>1. PICK lengths : lengths = IF a.step \in {0, 2, 4, 6}
                               THEN [a EXCEPT !.voices = [v \in SoundVoices |-> LengthTick(a.voices[v])]] ELSE a
  OBVIOUS
<1>2. Quieter(a, lengths)
  <2>1. PICK voices : voices = [v \in SoundVoices |-> LengthTick(a.voices[v])]
    OBVIOUS
  <2>2. \A v \in SoundVoices : VoiceRight(voices[v]) /\ (voices[v].on => a.voices[v].on)
    BY <2>1, LengthTickKeeps DEF ApuRight
  <2>3. Quieter(a, [a EXCEPT !.voices = voices])
    <3>1. voices = [v \in SoundVoices |-> voices[v]]
      BY <2>1
    <3> QED BY <2>2, <3>1, AllQuieter
  <2>4. Quieter(a, a)
    BY DEF Quieter
  <2> QED BY <1>1, <2>1, <2>3, <2>4
<1>3. PICK swept : swept = IF a.step \in {2, 6} /\ "pulse1" \in SoundVoices THEN SweepTick(lengths) ELSE lengths
  OBVIOUS
<1>4. Quieter(lengths, swept)
  <2>1. ApuRight(lengths) /\ Quieter(lengths, lengths)
    BY <1>2 DEF Quieter
  <2> QED BY <1>3, <2>1, SweepTickKeeps
<1>5. PICK shaped : shaped = IF a.step = 7
                             THEN [swept EXCEPT !.voices = [v \in SoundVoices |->
                                     IF HasEnvelope(v) THEN EnvelopeTick(swept.voices[v]) ELSE swept.voices[v]]]
                             ELSE swept
  OBVIOUS
<1>6. Quieter(swept, shaped)
  <2>0. ApuRight(swept) /\ Quieter(swept, swept)
    BY <1>4 DEF Quieter
  <2>1. PICK voices : voices = [v \in SoundVoices |-> IF HasEnvelope(v) THEN EnvelopeTick(swept.voices[v])
                                                      ELSE swept.voices[v]]
    OBVIOUS
  <2>2. ASSUME NEW v \in SoundVoices PROVE VoiceRight(voices[v]) /\ (voices[v].on => swept.voices[v].on)
    <3>1. voices[v] = EnvelopeTick(swept.voices[v]) \/ voices[v] = swept.voices[v]
      BY <2>1
    <3>2. VoiceRight(swept.voices[v])
      BY <2>0 DEF ApuRight
    <3> QED BY <3>1, <3>2, EnvelopeTickKeeps
  <2>3. Quieter(swept, [swept EXCEPT !.voices = voices])
    <3>1. voices = [v \in SoundVoices |-> voices[v]]
      BY <2>1
    <3> QED BY <2>0, <2>2, <3>1, AllQuieter
  <2> QED BY <1>5, <2>0, <2>1, <2>3
<1>7. PICK step : step = (shaped.step + 1) % 8
  OBVIOUS
<1>8. SequencerStep(a) = [shaped EXCEPT !.step = step]
  BY <1>1, <1>3, <1>5, <1>7 DEF SequencerStep
<1>9. ApuRight([shaped EXCEPT !.step = step]) /\ [shaped EXCEPT !.step = step].voices = shaped.voices
  BY <1>6 DEF Quieter, ApuRight
<1> QED BY <1>2, <1>4, <1>6, <1>8, <1>9 DEF Quieter

\* What an instruction's time comes to, with or without a packet: told is what is on
\* its way afterwards, silent the voices that fell silent unannounced.
Retired(next, events, told, silent) ==
    /\ Quieter(apu, next) /\ apu' = next
    /\ events \in Seq(Told(SoundVoices)) /\ TellsOf(next, events)
    /\ told = Recorded(chipEvents, events)
    /\ silent = soundPast.silent \cup {v \in SoundVoices : apu.voices[v].on /\ ~next.voices[v].on}
    /\ LET after == [samples EXCEPT !.counter = @ + 1, !.pending = @ + 1]
           whole == Frames(after.counter) # samples.seen
       IN  /\ samples' = IF whole THEN [after EXCEPT !.seen = Frames(after.counter), !.pending = 0] ELSE after
           /\ packet' = IF whole THEN PacketOf(after, told.queue) ELSE packet
           /\ held' = IF whole THEN HeldAfterAll(held, told.queue) ELSE held
           /\ chipEvents' = IF whole THEN [told EXCEPT !.queue = << >>] ELSE told
           /\ soundPast' = [soundPast EXCEPT !.dropped = soundPast.dropped \/ Drops(chipEvents, events),
                                             !.silent = silent,
                                             !.next = IF whole THEN after.counter ELSE soundPast.next]
    /\ apuState' = apuState

\* An instruction that retires: the chip is quieter, and what is announced carries its gates.
LEMMA RetireIsRetired ==
    ASSUME GbInv, Retire
    PROVE  \E next, events, told, silent :
               /\ Retired(next, events, told, silent)
               /\ \A v \in SoundVoices : SettledBy(events, v) => ~next.voices[v].on
<1>0. ApuRight(apu)
  BY DEF GbInv
<1>1. PICK next : next = IF apu.power THEN SequencerStep(apu) ELSE apu
  OBVIOUS
<1>2. Quieter(apu, next)
  <2>1. Quieter(apu, apu)
    BY <1>0 DEF Quieter
  <2> QED BY <2>1, <1>0, <1>1, SequencerStepKeeps
<1>3. PICK S \in SUBSET SoundVoices : S = {v \in SoundVoices : next.voices[v].volume # apu.voices[v].volume}
  OBVIOUS
<1>4. PICK louder \in Seq(SoundVoices) : louder = Kept(VoiceOrder, S)
  <2>1. Kept(VoiceOrder, S) \in Seq(S)
    BY VoiceOrderRight, KeptIsOrdered
  <2>2. Kept(VoiceOrder, S) \in Seq(SoundVoices)
    BY <2>1
  <2> QED BY ONLY <2>2
<1>5. ApuRight(next)
  BY <1>2 DEF Quieter
<1>6. PICK events \in Seq(Told(SoundVoices)) : events = Telling(next.voices, louder, "LevelChange")
  BY <1>5, TellingTells
<1>7. /\ TellsOf(next, events) /\ Len(events) = Len(louder)
      /\ \A i \in 1 .. Len(events) : events[i].voice = louder[i] /\ events[i].kind = "LevelChange"
  BY <1>5, <1>6, TellingTells
<1>8. PICK told : told = Recorded(chipEvents, events)
  OBVIOUS
<1>9. PICK silent : silent = soundPast.silent \cup {v \in SoundVoices : apu.voices[v].on /\ ~next.voices[v].on}
  OBVIOUS
<1>10. Retired(next, events, told, silent)
  BY <1>1, <1>2, <1>3, <1>4, <1>6, <1>7, <1>8, <1>9 DEF Retire, Retired, Telling
<1>11. ASSUME NEW v \in SoundVoices, SettledBy(events, v) PROVE ~next.voices[v].on
  <2>1. PICK i \in 1 .. Len(events) : events[i].voice = v /\ Settles(events[i])
    BY <1>11 DEF SettledBy
  <2>2. ~events[i].gate
    BY <2>1, <1>7 DEF Settles, Starts, Ends
  <2> QED BY <2>1, <2>2, <1>7 DEF TellsOf
<1> QED BY <1>10, <1>11

\* An instruction that retires, with its sample, events and packet.
LEMMA RetireKeeps == GbInv /\ Retire => GbInv'
<1> SUFFICES ASSUME GbInv, Retire PROVE GbInv'
  OBVIOUS
<1>0. /\ samples \in [counter : Nat, pending : Nat, seen : Nat] /\ chipEvents \in Tellings
      /\ soundPast \in SoundPasts /\ held \in Notes(SoundVoices)
      /\ soundPast.next = samples.counter - samples.pending
      /\ \A i \in 1 .. Len(chipEvents.queue) : chipEvents.queue[i].at <= samples.counter
  BY DEF GbInv, SamplesRight
<1>1. PICK next, events, told, silent :
          /\ Retired(next, events, told, silent)
          /\ \A v \in SoundVoices : SettledBy(events, v) => ~next.voices[v].on
  BY RetireIsRetired
<1>2. /\ Quieter(apu, next) /\ ApuRight(next) /\ apu' = next /\ apuState' = apuState
      /\ events \in Seq(Told(SoundVoices)) /\ TellsOf(next, events) /\ told = Recorded(chipEvents, events)
      /\ silent = soundPast.silent \cup {v \in SoundVoices : apu.voices[v].on /\ ~next.voices[v].on}
  BY <1>1 DEF Retired, Quieter
<1>3. PICK counter \in Nat, pending \in Nat : counter = samples.counter + 1 /\ pending = samples.pending + 1
  BY <1>0
<1>4. PICK after : after = [samples EXCEPT !.counter = counter, !.pending = pending]
  OBVIOUS
<1>5. after \in [counter : Nat, pending : Nat, seen : Nat] /\ after.counter = counter /\ after.pending = pending
  BY <1>0, <1>4
<1>6. PICK whole : whole = (Frames(counter) # samples.seen)
  OBVIOUS
<1>7. /\ samples' = IF whole THEN [after EXCEPT !.seen = Frames(counter), !.pending = 0] ELSE after
      /\ held' = IF whole THEN HeldAfterAll(held, told.queue) ELSE held
      /\ chipEvents' = IF whole THEN [told EXCEPT !.queue = << >>] ELSE told
      /\ soundPast' = [soundPast EXCEPT !.dropped = soundPast.dropped \/ Drops(chipEvents, events),
                                        !.silent = silent,
                                        !.next = IF whole THEN counter ELSE soundPast.next]
  BY <1>1, <1>3, <1>4, <1>5, <1>6 DEF Retired
<1>8. PICK bound \in Nat : bound = samples.counter
  BY <1>0
<1>9. /\ told \in Tellings /\ told.observed = chipEvents.observed
      /\ \A i \in 1 .. Len(told.queue) : told.queue[i].at <= bound
      /\ ~Drops(chipEvents, events) => told.queue = chipEvents.queue \o events
  <2>1. \A i \in 1 .. Len(chipEvents.queue) : chipEvents.queue[i].at <= bound
    BY <1>0, <1>8
  <2>2. \A i \in 1 .. Len(events) : events[i].at <= bound
    BY <1>2, <1>8 DEF TellsOf
  <2> QED BY <1>0, <1>2, <2>1, <2>2, RecordedTells
<1>10. PICK gone \in BOOLEAN : gone = (soundPast.dropped \/ Drops(chipEvents, events))
  OBVIOUS
<1>11. silent \in SUBSET SoundVoices
  BY <1>0, <1>2 DEF SoundPasts
<1>12. Carried(next, events, chipEvents.observed, silent)
  <2>1. ASSUME NEW v \in SoundVoices
        PROVE  IF SettledBy(events, v) THEN next.voices[v].on => chipEvents.observed[v]
               ELSE /\ next.voices[v].on => apu.voices[v].on
                    /\ (apu.voices[v].on \/ v \in soundPast.silent) /\ chipEvents.observed[v]
                         => (next.voices[v].on \/ v \in silent) /\ chipEvents.observed[v]
    <3>1. CASE SettledBy(events, v)
      BY <3>1, <1>1
    <3>2. CASE ~SettledBy(events, v)
      BY <3>2, <1>2 DEF Quieter
    <3> QED BY <3>1, <3>2
  <2> QED BY <2>1 DEF Carried
<1>13. ASSUME ~gone
       PROVE  NotesRight(HeldAfterAll(held, told.queue), next, chipEvents.observed, silent)
  <2>1. ~soundPast.dropped /\ ~Drops(chipEvents, events)
    BY <1>10, <1>13
  <2>2. NotesRight(HeldAfterAll(held, chipEvents.queue \o events), next, chipEvents.observed, silent)
    BY <2>1, <1>2, <1>12, TellingFollows
  <2> QED BY <2>1, <2>2, <1>9
<1>14. (apuState # NoApuState => ApuRight(apuState.apu) /\ SamplesRight(apuState.samples))' /\ ApuRight(apu)'
  BY <1>2 DEF GbInv, ApuRight, SamplesRight
<1>15. CASE whole
  <2>1. << >> \in Seq(Told(SoundVoices))
    OBVIOUS
  <2>2. PICK none \in Seq(Told(SoundVoices)) : none = << >>
    BY ONLY <2>1
  <2>3. /\ chipEvents' = [told EXCEPT !.queue = none] /\ held' = HeldAfterAll(held, told.queue)
        /\ soundPast' = [soundPast EXCEPT !.dropped = gone, !.silent = silent, !.next = counter]
        /\ samples' = [after EXCEPT !.seen = Frames(counter), !.pending = 0]
    BY <1>7, <1>10, <1>15, <2>2
  <2>4. chipEvents' \in Tellings /\ chipEvents'.queue = none /\ chipEvents'.observed = chipEvents.observed
    BY <1>9, <2>3 DEF Tellings
  <2>5. soundPast' \in SoundPasts /\ soundPast'.next = counter /\ soundPast'.silent = silent /\ soundPast'.dropped = gone
    <3>1. counter \in Int
      OBVIOUS
    <3>2. soundPast \in [voice : SoundVoices, writes : Nat, silent : SUBSET SoundVoices, dropped : BOOLEAN, next : Int]
      BY <1>0 DEF SoundPasts
    <3> QED BY ONLY <3>1, <3>2, <1>10, <1>11, <2>3, gone \in BOOLEAN DEF SoundPasts
  <2>6. SamplesRight(samples') /\ samples'.counter = counter /\ samples'.pending = 0
    <3>1. Frames(counter) \in Nat
      BY SoundAssumption DEF Frames
    <3> QED BY <3>1, <1>5, <2>3 DEF SamplesRight
  <2>7. held' \in Notes(SoundVoices)
    <3>1. PICK q \in Seq(Told(SoundVoices)) : q = told.queue
      BY <1>9 DEF Tellings
    <3>2. PICK h \in Notes(SoundVoices) : h = held
      BY <1>0
    <3> QED BY <2>3, <3>1, <3>2, NotesAreNotes
  <2>8. (~soundPast.dropped =>
           NotesRight(HeldAfterAll(held, chipEvents.queue), apu, chipEvents.observed, soundPast.silent))'
    <3>1. (HeldAfterAll(held, chipEvents.queue))' = HeldAfterAll(held, told.queue)
      BY <2>2, <2>3, <2>4, NotesAtRest
    <3> QED BY <3>1, <2>4, <2>5, <1>2, <1>13 DEF NotesRight
  <2>9. \A i \in 1 .. Len(chipEvents'.queue) : FALSE
    BY <2>2, <2>4
  <2>10. soundPast'.next = samples'.counter - samples'.pending
    BY <2>5, <2>6
  <2> QED BY <2>4, <2>5, <2>6, <2>7, <2>8, <2>9, <2>10, <1>14 DEF GbInv, SamplesRight
<1>16. CASE ~whole
  <2>1. /\ chipEvents' = told /\ held' = held /\ samples' = after
        /\ soundPast' = [soundPast EXCEPT !.dropped = gone, !.silent = silent, !.next = soundPast.next]
    BY <1>7, <1>10, <1>16
  <2>2. /\ soundPast' \in SoundPasts /\ soundPast'.next = soundPast.next /\ soundPast'.silent = silent
        /\ soundPast'.dropped = gone
    BY <1>0, <1>11, <2>1 DEF SoundPasts
  <2>3. soundPast'.next = samples'.counter - samples'.pending
    BY <1>0, <1>3, <1>5, <2>1, <2>2
  <2>4. (~soundPast.dropped =>
           NotesRight(HeldAfterAll(held, chipEvents.queue), apu, chipEvents.observed, soundPast.silent))'
    BY <1>2, <1>9, <1>13, <2>1, <2>2 DEF NotesRight
  <2>5. \A i \in 1 .. Len(chipEvents'.queue) : chipEvents'.queue[i].at <= samples'.counter
    <3>1. ASSUME NEW i \in 1 .. Len(told.queue) PROVE told.queue[i].at <= counter
      <4>1. told.queue[i] \in Told(SoundVoices)
        BY <1>9 DEF Tellings
      <4>2. told.queue[i].at \in Nat /\ told.queue[i].at <= bound
        BY <1>9, <4>1 DEF Told
      <4> QED BY <4>2, <1>3, <1>8
    <3> QED BY <3>1, <2>1, <1>5
  <2> QED BY <2>1, <2>2, <2>3, <2>4, <2>5, <1>0, <1>5, <1>9, <1>14 DEF GbInv, SamplesRight
<1> QED BY <1>15, <1>16

\* A chip that starts anew or from a state tells each voice's gate.
LEMMA RestartKeeps ==
    ASSUME held \in Notes(SoundVoices), soundPast \in SoundPasts,
           NEW a, ApuRight(a), NEW s, SamplesRight(s), Restart(a, s), held' = held,
           apuState' = apuState, apuState # NoApuState => ApuRight(apuState.apu) /\ SamplesRight(apuState.samples)
    PROVE  GbInv'
<1>1. PICK gates \in Notes(SoundVoices) : gates = [v \in SoundVoices |-> a.voices[v].on]
  <2>1. \A v \in SoundVoices : a.voices[v].on \in BOOLEAN
    BY DEF ApuRight, VoiceRight
  <2> QED BY <2>1 DEF Notes
<1>2. PICK order \in Seq(SoundVoices) : order = VoiceOrder
  BY VoiceOrderRight
<1>3. PICK counter \in Nat, pending \in Nat : counter = s.counter /\ pending = s.pending
  BY DEF SamplesRight
<1>4. PICK t : t = Snapped(order, gates, counter)
  OBVIOUS
<1>5. /\ t \in Seq(Told(SoundVoices)) /\ \A i \in 1 .. Len(t) : t[i].at = counter
      /\ HeldAfterAll(held, t) = gates
  <2>1. \A v \in SoundVoices : \E k \in 1 .. Len(order) : order[k] = v
    BY <1>2, VoiceOrderRight
  <2> QED BY <1>4, <2>1, SnapshotsTell
<1>6. t = Snapshots(a.voices, counter)
  <2>1. \A i \in 1 .. Len(order) : gates[order[i]] = a.voices[order[i]].on
    BY <1>1
  <2> QED BY <1>2, <1>4, <2>1 DEF Snapped, Snapshots
<1>7. /\ apu' = a /\ samples' = s /\ chipEvents' = [queue |-> t, observed |-> gates]
      /\ soundPast' = [soundPast EXCEPT !.writes = soundPast.writes + 1, !.silent = {}, !.dropped = FALSE,
                                        !.next = s.counter - s.pending]
  BY <1>1, <1>3, <1>6 DEF Restart
<1>8. chipEvents' \in Tellings /\ chipEvents'.queue = t /\ chipEvents'.observed = gates
  BY <1>5, <1>7 DEF Tellings
<1>9. soundPast' \in SoundPasts /\ soundPast'.next = s.counter - s.pending
  <2>1. PICK n \in Nat : n = soundPast.writes + 1
    BY DEF SoundPasts
  <2>2. PICK next \in Int : next = s.counter - s.pending
    BY <1>3
  <2>3. soundPast' = [soundPast EXCEPT !.writes = n, !.silent = {}, !.dropped = FALSE, !.next = next]
    BY <1>7, <2>1, <2>2
  <2>4. soundPast' \in SoundPasts /\ soundPast'.next = next
    BY <2>3 DEF SoundPasts
  <2> QED BY <2>2, <2>4
<1>10. NotesRight(gates, a, gates, soundPast'.silent)
  <2>1. \A v \in SoundVoices : gates[v] = a.voices[v].on
    BY <1>1
  <2> QED BY <2>1 DEF NotesRight
<1>11. (~soundPast.dropped =>
          NotesRight(HeldAfterAll(held, chipEvents.queue), apu, chipEvents.observed, soundPast.silent))'
  <2>1. (HeldAfterAll(held, chipEvents.queue))' = gates
    BY <1>5, <1>8
  <2> QED BY <2>1, <1>7, <1>8, <1>10 DEF NotesRight
<1>12. \A i \in 1 .. Len(chipEvents'.queue) : chipEvents'.queue[i].at <= samples'.counter
  BY <1>3, <1>5, <1>7, <1>8
<1>13. /\ ApuRight(apu)' /\ SamplesRight(samples)'
       /\ (apuState # NoApuState => ApuRight(apuState.apu) /\ SamplesRight(apuState.samples))'
  BY <1>7 DEF ApuRight, SamplesRight
<1> QED BY <1>7, <1>8, <1>9, <1>11, <1>12, <1>13 DEF GbInv

\* The sample counters of a reset chip.
LEMMA NewSamplesRight == SamplesRight(NewSamples)
  BY DEF NewSamples, SamplesRight

\* A ROM loaded, a state saved or restored.
LEMMA ApuStatesKeep == GbInv /\ (LoadSoundRom \/ SaveApu \/ LoadApu) => GbInv'
<1>1. ASSUME GbInv, LoadSoundRom PROVE GbInv'
  <2>1. Restart(NewApu, NewSamples) /\ held' = held /\ apuState' = apuState
    BY <1>1 DEF LoadSoundRom
  <2>2. /\ held \in Notes(SoundVoices) /\ soundPast \in SoundPasts
        /\ apuState # NoApuState => ApuRight(apuState.apu) /\ SamplesRight(apuState.samples)
    BY <1>1 DEF GbInv
  <2> QED BY <2>1, <2>2, NewApuRight, NewSamplesRight, RestartKeeps
<1>2. ASSUME GbInv, SaveApu PROVE GbInv'
  <2>1. /\ apuState' = [apu |-> apu, samples |-> samples]
        /\ soundPast' = [soundPast EXCEPT !.writes = @ + 1]
        /\ apu' = apu /\ samples' = samples /\ chipEvents' = chipEvents /\ held' = held
    BY <1>2 DEF SaveApu
  <2>2. /\ soundPast' \in SoundPasts /\ soundPast'.next = soundPast.next /\ soundPast'.silent = soundPast.silent
        /\ soundPast'.dropped = soundPast.dropped
    BY <1>2, <2>1 DEF GbInv, SoundPasts
  <2>3. (~soundPast.dropped =>
           NotesRight(HeldAfterAll(held, chipEvents.queue), apu, chipEvents.observed, soundPast.silent))'
    BY <1>2, <2>1, <2>2 DEF GbInv, NotesRight
  <2>4. /\ ApuRight(apu)' /\ SamplesRight(samples)'
        /\ (apuState # NoApuState => ApuRight(apuState.apu) /\ SamplesRight(apuState.samples))'
    BY <1>2, <2>1 DEF GbInv, ApuRight, SamplesRight
  <2> QED BY <1>2, <2>1, <2>2, <2>3, <2>4 DEF GbInv
<1>3. ASSUME GbInv, LoadApu PROVE GbInv'
  <2>1. Restart(apuState.apu, apuState.samples) /\ held' = held /\ apuState' = apuState /\ apuState # NoApuState
    BY <1>3 DEF LoadApu
  <2>2. /\ held \in Notes(SoundVoices) /\ soundPast \in SoundPasts
        /\ apuState # NoApuState => ApuRight(apuState.apu) /\ SamplesRight(apuState.samples)
    BY <1>3 DEF GbInv
  <2> QED BY <2>1, <2>2, RestartKeeps
<1> QED BY <1>1, <1>2, <1>3

\* Each step of the Game Boy's chip keeps GbInv.
LEMMA GbNextKeeps == GbInv /\ GbSoundNext => GbInv'
<1> SUFFICES ASSUME GbInv, GbSoundNext PROVE GbInv'
  OBVIOUS
<1>1. PICK v \in SoundVoices : v = soundPast.voice
  BY DEF GbInv, SoundPasts
<1>2. CASE \/ WriteLength(v, 1)
           \/ \E e \in {<<0, FALSE, 0>>, <<1, FALSE, 1>>} : WriteEnvelope(v, e[1], e[2], e[3])
           \/ \E dac \in BOOLEAN : WriteWaveDac(v, dac)
           \/ WriteFrequency(v, MaxFrequency)
  BY <1>2, RegistersKeep
<1>3. CASE \E c \in {<<FALSE, TRUE>>, <<TRUE, TRUE>>, <<TRUE, FALSE>>} : WriteControl(v, c[1], c[2])
  <2>1. PICK c \in {<<FALSE, TRUE>>, <<TRUE, TRUE>>, <<TRUE, FALSE>>} : WriteControl(v, c[1], c[2])
    BY <1>3
  <2>2. CASE c = <<FALSE, TRUE>>
    <3>1. WriteControl(v, FALSE, TRUE)
      BY <2>1, <2>2
    <3> QED BY <3>1, WriteControlKeeps
  <2>3. CASE c = <<TRUE, TRUE>>
    <3>1. WriteControl(v, TRUE, TRUE)
      BY <2>1, <2>3
    <3> QED BY <3>1, WriteControlKeeps
  <2>4. CASE c = <<TRUE, FALSE>>
    <3>1. WriteControl(v, TRUE, FALSE)
      BY <2>1, <2>4
    <3> QED BY <3>1, WriteControlKeeps
  <2> QED BY <2>1, <2>2, <2>3, <2>4
<1>4. CASE WriteSweep(1, 1, FALSE) \/ \E kind \in {"LevelChange", "RoutingChange"} : WriteMixer(kind)
  BY <1>4, WriteSweepKeeps, WriteMixerKeeps
<1>5. CASE (\E power \in BOOLEAN : WritePower(power)) \/ Retire
  BY <1>5, WritePowerKeeps, RetireKeeps
<1>6. CASE LoadSoundRom \/ SaveApu \/ LoadApu
  BY <1>6, ApuStatesKeep
<1> QED BY <1>1, <1>2, <1>3, <1>4, <1>5, <1>6 DEF GbSoundNext

\* GbInv holds of a chip as reset.
LEMMA GbStarts == GbSoundInit => GbInv
<1> SUFFICES ASSUME GbSoundInit PROVE GbInv
  OBVIOUS
<1>1. /\ apu = NewApu /\ samples = NewSamples /\ held = [v \in SoundVoices |-> FALSE] /\ apuState = NoApuState
      /\ chipEvents = [queue |-> Snapshots(NewApu.voices, 0), observed |-> [v \in SoundVoices |-> FALSE]]
  BY DEF GbSoundInit
<1>2. PICK gates \in Notes(SoundVoices) : gates = [v \in SoundVoices |-> FALSE]
  BY DEF Notes
<1>3. PICK order \in Seq(SoundVoices) : order = VoiceOrder
  BY VoiceOrderRight
<1>4. PICK t : t = Snapped(order, gates, 0)
  OBVIOUS
<1>5. t \in Seq(Told(SoundVoices)) /\ (\A i \in 1 .. Len(t) : t[i].at = 0) /\ HeldAfterAll(gates, t) = gates
  <2>1. \A v \in SoundVoices : \E k \in 1 .. Len(order) : order[k] = v
    BY <1>3, VoiceOrderRight
  <2>2. 0 \in Nat
    OBVIOUS
  <2> QED BY <1>4, <2>1, <2>2, SnapshotsTell
<1>6. \A v \in SoundVoices : NewApu.voices[v].on = FALSE
  BY NewApuRight DEF QuietVoice
<1>7. t = Snapshots(NewApu.voices, 0)
  <2>1. ASSUME NEW i \in 1 .. Len(order) PROVE gates[order[i]] = NewApu.voices[order[i]].on
    <3>1. PICK v \in SoundVoices : v = order[i]
      OBVIOUS
    <3>2. gates[v] = FALSE /\ NewApu.voices[v].on = FALSE
      BY <1>2, <1>6
    <3> QED BY <3>1, <3>2
  <2> QED BY <1>3, <1>4, <2>1 DEF Snapped, Snapshots
<1>8. chipEvents \in Tellings /\ chipEvents.queue = t /\ chipEvents.observed = gates
  BY <1>1, <1>2, <1>5, <1>7 DEF Tellings
<1>9. soundPast \in SoundPasts /\ soundPast.next = 0 /\ soundPast.silent = {}
  BY DEF GbSoundInit, SoundPasts
<1>10. NotesRight(HeldAfterAll(held, chipEvents.queue), apu, chipEvents.observed, soundPast.silent)
  <2>1. HeldAfterAll(held, chipEvents.queue) = gates
    BY <1>1, <1>2, <1>5, <1>8
  <2>2. \A v \in SoundVoices : ~gates[v] /\ ~apu.voices[v].on
    BY <1>1, <1>2, <1>6
  <2> QED BY <2>1, <2>2 DEF NotesRight
<1>11. samples.counter = 0 /\ samples.pending = 0
  BY <1>1 DEF NewSamples
<1>12. \A i \in 1 .. Len(chipEvents.queue) : chipEvents.queue[i].at <= samples.counter
  BY <1>5, <1>8, <1>11
<1> QED BY <1>1, <1>2, <1>8, <1>9, <1>10, <1>11, <1>12, NewApuRight, NewSamplesRight DEF GbInv

\* A packet that is handed over follows on the one before it.
PacketFollows ==
    packet' # packet =>
        /\ packet'.first = soundPast.next
        /\ packet'.first + packet'.count = samples'.counter /\ packet'.count > 0
        /\ \A i \in DOMAIN packet'.offsets : packet'.offsets[i] \in 0 .. packet'.count

\* A packet begins where the one before it ended, and its events lie within.
LEMMA PacketsFollowOn == GbInv /\ GbSoundNext => PacketFollows
<1> SUFFICES ASSUME GbInv, GbSoundNext, packet' # packet
             PROVE  /\ packet'.first = soundPast.next
                    /\ packet'.first + packet'.count = samples'.counter /\ packet'.count > 0
                    /\ \A i \in DOMAIN packet'.offsets : packet'.offsets[i] \in 0 .. packet'.count
  BY DEF PacketFollows
<1>0. /\ samples \in [counter : Nat, pending : Nat, seen : Nat] /\ chipEvents \in Tellings
      /\ soundPast.next = samples.counter - samples.pending
      /\ \A i \in 1 .. Len(chipEvents.queue) : chipEvents.queue[i].at <= samples.counter
  BY DEF GbInv, SamplesRight
<1>1. Retire
  <2>1. packet' = packet \/ Retire
    BY DEF GbSoundNext, WriteLength, WriteEnvelope, WriteWaveDac, WriteFrequency, Write, WriteControl,
           WriteSweep, WriteMixer, WritePower, LoadSoundRom, SaveApu, LoadApu
  <2> QED BY <2>1
<1>2. PICK next, events, told, silent : Retired(next, events, told, silent)
  BY <1>1, RetireIsRetired
<1>3. PICK counter \in Nat, pending \in Nat : counter = samples.counter + 1 /\ pending = samples.pending + 1
  BY <1>0
<1>4. PICK after : after = [samples EXCEPT !.counter = counter, !.pending = pending]
  OBVIOUS
<1>5. /\ after \in [counter : Nat, pending : Nat, seen : Nat] /\ after.counter = counter
      /\ after.pending = pending
  BY <1>0, <1>4
<1>6. PICK whole : whole = (Frames(counter) # samples.seen)
  OBVIOUS
<1>7. /\ samples' = IF whole THEN [after EXCEPT !.seen = Frames(counter), !.pending = 0] ELSE after
      /\ packet' = IF whole THEN PacketOf(after, told.queue) ELSE packet
  BY <1>2, <1>3, <1>4, <1>5, <1>6 DEF Retired
<1>8. samples'.counter = counter /\ packet' = PacketOf(after, told.queue)
  BY <1>5, <1>7
<1>9. PICK first \in Int : first = counter - pending
  OBVIOUS
<1>10. /\ packet'.first = first /\ packet'.count = pending
       /\ packet'.offsets = [i \in 1 .. Len(told.queue) |-> Offset(told.queue[i], first)]
  BY <1>5, <1>8, <1>9 DEF PacketOf
<1>11. first = soundPast.next /\ first + pending = counter /\ pending > 0
  BY <1>0, <1>3, <1>9
<1>12. \A i \in 1 .. Len(told.queue) : told.queue[i] \in Told(SoundVoices) /\ told.queue[i].at <= samples.counter
  <2>1. PICK bound \in Nat : bound = samples.counter
    BY <1>0
  <2>2. events \in Seq(Told(SoundVoices)) /\ TellsOf(next, events) /\ told = Recorded(chipEvents, events)
    BY <1>2 DEF Retired
  <2>3. \A i \in 1 .. Len(events) : events[i].at <= bound
    BY <2>1, <2>2 DEF TellsOf
  <2>4. \A i \in 1 .. Len(chipEvents.queue) : chipEvents.queue[i].at <= bound
    BY <1>0, <2>1
  <2>5. told \in Tellings /\ \A i \in 1 .. Len(told.queue) : told.queue[i].at <= bound
    BY <1>0, <2>2, <2>3, <2>4, RecordedTells
  <2> QED BY <2>1, <2>5 DEF Tellings
<1>13. ASSUME NEW i \in 1 .. Len(told.queue) PROVE Offset(told.queue[i], first) \in 0 .. pending
  <2>1. PICK at \in Nat : at = told.queue[i].at /\ at < counter
    <3>1. told.queue[i].at \in Nat /\ told.queue[i].at <= samples.counter
      BY <1>12 DEF Told
    <3> QED BY <3>1, <1>0, <1>3
  <2>2. Offset(told.queue[i], first) = IF at > first THEN at - first ELSE 0
    BY <2>1 DEF Offset
  <2> QED BY <2>1, <2>2, <1>11
<1> QED BY <1>8, <1>10, <1>11, <1>13

-----------------------------------------------------------------------------
(* Both chips.                                                             *)

\* The two chips side by side, each kept by its own steps.
LEMMA ChipsKeep == GbInv /\ GgInv /\ [ChipsNext]_chipVars => GbInv' /\ GgInv' /\ PacketFollows /\ ChunkFollows
<1>1. ASSUME GbInv, UNCHANGED gbSoundVars PROVE GbInv' /\ PacketFollows
  <2>1. /\ apu' = apu /\ samples' = samples /\ chipEvents' = chipEvents /\ packet' = packet /\ held' = held
        /\ apuState' = apuState /\ soundPast' = soundPast
    BY <1>1 DEF gbSoundVars
  <2> QED BY <1>1, <2>1 DEF GbInv, PacketFollows, ApuRight, SamplesRight, NotesRight
<1>2. ASSUME GgInv, UNCHANGED ggSoundVars PROVE GgInv' /\ ChunkFollows
  <2>1. /\ psg' = psg /\ mixed' = mixed /\ chunk' = chunk /\ keys' = keys /\ psgState' = psgState /\ psgPast' = psgPast
    BY <1>2 DEF ggSoundVars
  <2>2. ASSUME NEW v \in PsgVoices \ psgPast.unannounced PROVE Announced(v)'
    <3>1. Announced(v)
      BY <1>2 DEF GgInv
    <3>2. (Gate(psg, v))' = Gate(psg, v)
      BY <2>1 DEF Gate
    <3> QED BY <3>1, <3>2, <2>1 DEF Announced
  <2> QED BY <1>2, <2>1, <2>2 DEF GgInv, ChunkFollows, MixedRight, PsgStateRight
<1>3. [ChipsNext]_chipVars => (GbSoundNext \/ UNCHANGED gbSoundVars) /\ (GgSoundNext \/ UNCHANGED ggSoundVars)
  BY DEF ChipsNext, chipVars
<1> QED BY <1>1, <1>2, <1>3, GbNextKeeps, PacketsFollowOn, GgNextKeeps, ChunksInOrder

\* However the consoles' sound is written to, saved and restored, the notes follow
\* the voices and a voice that sounds will run out.
THEOREM NotesAlwaysFollow == ChipsSpec => []NotesFollow
<1>1. ChipsInit => GbInv /\ GgInv
  BY GbStarts, GgStarts DEF ChipsInit
<1>2. GbInv /\ GgInv /\ [ChipsNext]_chipVars => (GbInv /\ GgInv)'
  BY ChipsKeep
<1>3. GbInv /\ GgInv => NotesFollow
  BY GbNotesFollow, GgKeysFollow DEF NotesFollow
<1> QED BY <1>1, <1>2, <1>3, PTL DEF ChipsSpec

\* However their frames are cut, what the plugins get of either chip follows on what
\* they got before it.
THEOREM PacketsAlwaysInOrder == ChipsSpec => PacketsInOrder
<1>1. ChipsInit => GbInv /\ GgInv
  BY GbStarts, GgStarts DEF ChipsInit
<1>2. GbInv /\ GgInv /\ [ChipsNext]_chipVars => (GbInv /\ GgInv)'
  BY ChipsKeep
<1>3. GbInv /\ GgInv /\ [ChipsNext]_chipVars => [PacketFollows]_gbSoundVars /\ [ChunkFollows]_ggSoundVars
  BY ChipsKeep
<1>4. ChipsSpec => [][PacketFollows]_gbSoundVars /\ [][ChunkFollows]_ggSoundVars
  BY <1>1, <1>2, <1>3, PTL DEF ChipsSpec
<1>5. [][PacketFollows]_gbSoundVars => PacketsFollow
  BY PTL DEF PacketFollows, PacketsFollow
<1>6. [][ChunkFollows]_ggSoundVars => ChunksFollow
  BY PTL DEF ChunkFollows, ChunksFollow
<1> QED BY <1>4, <1>5, <1>6 DEF PacketsInOrder
=============================================================================
