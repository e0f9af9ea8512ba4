# Proto-Time in TLA+

Proto-Time (the code's namespace is `BMMQ`) is an emulation framework with a Game Boy and a
Game Gear core. The hardware emulation is sequential. Around it several threads work at once:
the emulation thread (the machine lane), the host's main (UI and render) thread, an audio worker,
the audio device's own thread, a pool of background workers, controller and MIDI threads and, for
netplay, a second machine. This project specifies those parts and the cores' own logic,
model-checks them with TLC and proves the central facts with TLAPS.

Paths below are relative to the repository (`src/` in `PROJECT.json`).

## Inventory

| Component | State | Operations | Meets others through | What makes it hard, and what makes it correct |
|---|---|---|---|---|
| Background thread pool, `machine/BackgroundThreadPool.hpp`, behind `BackgroundTaskService.hpp` | a deque per worker, slot counter, task counters, running and stop flags | `start`, `shutdown`, `submit`, `cancelAll`, `waitUntilIdle`, `workerLoop` | submitters on any thread; tasks of saves, debug snapshots, image decoding and packs | locks per queue, atomics between them, stealing. No accepted task lost or run twice, exact counters, no lost wakeup, a shutdown that drains and returns |
| Realtime video mailbox, `machine/plugins/video/RealtimeVideoMailbox.hpp` | three slots, one atomic byte, a private index per lane | `publish`, `tryConsumeLatest` | emulation lane to render lane | no lock. Slots never shared, no torn packet, order kept, latest value wins |
| Audio service and engine, `machine/AudioService.hpp`, `plugins/AudioEngine.hpp`, `plugins/audio_output/DummyAudioOutput.cpp` | two rings, epoch, prime flag, drain gate, the engine's ring and deferred reset | emit, produce, drain, epoch changes, `resetStream`, open, close | emulation lane, worker, device thread, coordinator | a lock-free drain against resets, stale PCM, priming races. No torn copy, no old epoch after a reset, transitions return |
| Video service and engine, `machine/VideoService.hpp`, `plugins/video/VideoEngine.hpp` | lifecycle state, presenter, epoch, pending generations, last frames | publish, submit, present, pause, resume, attach, detach, configure | mailbox, presenter plugin, coordinator | epochs read before and checked after; state written without a common lock. No frame of an earlier session, the picture comes back |
| Lifecycle coordinator, `machine/MachineLifecycleCoordinator.cpp` | re-entry depth, policies, statistics | `runTransition` | pauses and resumes audio and video around a mutation | retries, a mutation that throws, a lane that does not resume. Every transition is accounted for |
| Cartridge saves, `cores/gameboy/cartridge/CartridgeSaveManager.hpp`, `GameBoyMachine.cpp`, `cores/gamegear/GameGearSaveManager.hpp` | dirty flag, pending snapshot, `.sav`, `.rtc` and `.tmp` files | flush, extract a snapshot, write it in a pool task | pool, file system | tasks out of order, one temporary file, two files per save, a crash between them. The newest save wins, and survives |
| Netplay, `machine/plugins/input/netplay/*`, `machine/FixedSpscQueue.hpp` | window of frames, history, replay buffer, send and receive queues | accept, ready, complete, replay | two machines over UDP | loss, duplication, reordering. Both peers play the same inputs in each frame, or stop |
| Visual overrides, `machine/VisualOverrideService.cpp` | packs, generation, decode and reload jobs, captures | load, reload, apply, capture, end of capture | pool, file system | a reload finished for packs that changed since; a capture given up on. Only current results are applied |
| Timing service, `machine/TimingService.cpp` | cycle budget, speed, pause, step | tick, consume, step, set speed | UI lane to machine lane | atomics read one by one, clamping, a step while paused. A paused machine does not run |
| Input service and engine, `machine/InputService.hpp`, `input/adapters/LinuxController.cpp` | staged and committed snapshots, generation, connection | stage, commit, poll, sample | controller thread to machine lane | a device that goes away between two checks. No button of an old connection |
| Game Boy core, `cores/gameboy/` | registers, memory, devices, two copies of the banks and of the LCD counters, translated blocks | step, read, write, save and restore | memory map, cartridge, PPU, APU, executors | one instruction has three implementations, one fact two copies. They agree |
| Game Gear core, `cores/gamegear/` | Z80, mapper, memory control, VDP, PSG | step, read, write, save and restore | lowered spans of code, video interrupts | self-modifying code, mapping changes, interrupts at a boundary. As if interpreted |
| IR executors and block cache, `inst_cycle/` | sessions, blocks, pages, generations | translate, execute a prefix, invalidate | both cores | stale code. What runs is what memory holds |
| PSG MIDI export, `machine/plugins/audio/PsgMidiPlugin.cpp` | voices' notes, queue, sink thread | events, flush, attach, detach | sound chips, device | a note left on for ever. Every note ends |
| S.P.A.C.E., `space/` | captured sessions, operand decoders | decode | off line | a dependency left out. Operands are enough |
| Debug service, snapshots, `machine/DebugSnapshotService.cpp`, `plugins/debug/*` | bounded queues, control lease | enqueue, process, lease | pool, host | dropped results, who controls execution |
| Plugin manager and modules, `machine/plugins/PluginManager.hpp`, `DynamicPluginModule.cpp` | attached plugins, loaded modules | attach, detach, unload | every service | order of teardown |
| Modding, `machine/modding/*` | cohorts of mods, prepared state | prepare, commit | save states | all or nothing |
| Memory containers, scripting, save-state coding, the host | | | | sequential code, see "Not modelled" |

## Modules

How definitions correspond to lines is in `PROJECT.json` under `map`. Each `Foo_Bar` operator is
a deliberate defect of `Foo`, there to see that a property notices it; no specification uses it.

### Threads of the host

`BackgroundThreadPool` is the pool with the service in front of it. One section under a queue
mutex or under `idleMutex_` is one action. `lifecycleMutex_`, which `submit` holds over several
such sections, is a variable. Workers, submitters, the owner (start and shutdown), a canceller
and waiters each have a program counter, so every interleaving between two locked sections is
explored. `outcome` and `executions` are history variables that say what became of a task.
`MCBackgroundThreadPool` gives it small sets for safety, `MCHostServices` smaller ones for
liveness; `BackgroundThreadPoolProofs` has its theorems.

`RealtimeVideoMailbox` is the triple buffer. Filling a slot and moving a packet out take two
steps each, with the slot torn in between; the exchange on `shared_` is one. `LatestValue` states
what it promises, a register that is overwritten and emptied. `GearVideoProofs` proves
the one implements the other.

`AudioTransport` has the three threads of the audio path: the control lane (emits PCM, runs
transitions), the worker (`outputTransportWorkerLoop`, `produceReadyOutputBlock`) and the device
(`DummyAudioOutput`'s loop with `drainReadyOutput`). A unit of PCM is one callback's worth and
carries the session it was played in, that is, which ROM or restored state. Frame counters are
reduced to ranges, since the engine only asks whether one went back. `SoundProofs` has its
theorems.

`VideoService` has the two lanes of the video path and `runTransition`. The mailbox is used as
the register it was shown to be: an emptied or a full variable. The UI lane's actions are the
steps of `presentOneFrame`, the emulation lane's those of the coordinator.
`lost` is a history variable with the reasons for which a transition may leave a presenter
closed. `VideoServiceProofs` has its theorems.

`CartridgeSaves` has the machine lane, the workers of the pool, the host's shutdown, a kill at
any step and the next start. A file is an inode with a version in it (the number of the guest
write), so a writer that has a file open goes on writing it after a rename; each call of a save
task (open, write, close, rename) is a step and may fail. `CartridgeSavesProofs` has its
theorems.

`ControllerInput` has the controller's thread, the queue and the machine lane with
`serviceInput`'s checks as separate steps; the device is unplugged and plugged in between.
`VisualOverrides` has the probe, the reload, the decode and the lane, over files that their
author edits; `VisualCapture` the write tasks, their completions and `endCapture`.
`TimingLane` has the UI's stores to the three control atomics and the lane's snapshot, its
budget, and its slices. `MidiExport` has `PsgMidiPlugin` on the machine lane, `AsyncMidiSink` with
its thread, attach, detach and flush; a message is an on, an off or a control of a voice.
`HostServicesProofs` has the theorems of `TimingLane`, `ControllerInput`,
`VisualCapture`, `VisualOverrides` and `MidiExport`.

`LockstepEngine` is the window of frames as operators on a record. `Netplay` runs two of
them, each with the loop of its process, the worker of its transport and two queues, over a
network in which a datagram may be lost, repeated and overtaken. `SharedGame` is what netplay
promises: one game, each frame played with the union of what both entered for it. The machine is
the sequence of the inputs played, and its digest is injective. `MCNetplay` chooses inputs and the
binding of the two sides; `NetplayProofs` has the theorems.

### Inside a machine

`GameBoyClock` counts dots twice, as the program does: the CPU's counter cycle by cycle for
interrupts and reads, the PPU's after each retired instruction for lines and frames; with the
timer, HALT, STOP, and the switches of the LCD.

`InstructionPaths` executes an instruction by the opcode table, by the fast path and by lowered
operations; the three are written separately, each from its own code. `Bytes` has the arithmetic
of bytes and words. `TranslatedBlocks` is the cache of translated blocks with its pages and
counts, over a memory of symbolic bytes into which any instruction may store, with bank switches,
echoes, and HALT: out of it with IME off an instruction is fetched with its operands one address too low (`FetchedTwice`).

`Z80Interpreter` is the Game Gear's processor. `GameGearExecution` runs it with spans of
lowered code that end where the guards of the code end them, while interrupts are raised and the
program writes its own code, next to `alone`, the same program interpreted step by step.
Its memory is flat and writable and its mapping does not change; that is `GameGearBus`.

`GameBoyBus` is a cartridge in its two copies, `GameBoyMapper` with the windows of the memory
map, and `GameBoyCartridge`; with saves, restored states and all the mappers. `GameGearBus` is the
BIOS, the mappers, the memory control port and the generation of the mapping. A clock is saved and restored
only with a cartridge that has one. `CartridgeBuses` puts the two side by side and states what both promise;
`MachineProofs` has its theorems and those of `GameBoyClock` and `TranslatedBlocks`.

`GameBoySound` and `GameGearSound` are the chips' voices and registers, the packet the machine
makes of a frame of sound, and the notes `PsgEvents` says the plugin then holds. `SoundChips` puts
the two side by side and states what both promise; `SoundProofs` has its theorems.

`GameGearVdp` is the Game Gear's video chip as the program sees it: lines, the line counter and
interrupts, status and data reads, the palette, frames, and the polls that `runSlice` sleeps
through in bulk, compared with single polls of the same chip; `GearVideoProofs` has its theorem. `GearPicture` is what that chip
renders of a row: the simple path, the general one with its runs and caches, the TMS9918 mode, and
the sprites, against a pixel computed on its own and the status the program reads of the line.

`SpaceOperands` compares the two operand decoders of S.P.A.C.E. with what the processors' modules
read and write.

### Composition

`MCSound`, `MCGearVideo`, `MCHostServices` and `MCMachines` put parts side by side that share no state: a variable `focus`,
chosen in the initial state, names the part that moves, the others keep one initial state. That
costs the sum of the parts and not their product, and explores what each part can do alone; parts
that do interact are in one module. A fairness condition of a part is guarded by its focus.

## Runs

| Run | Instance | What it shows |
|---|---|---|
| `pool_safety` | 2 workers, queues of 1, 3 slots in all, 4 tasks, 2 submitters, a waiter, a cancellation, two starts | `NoTaskStranded`, `TaskRunsOnce`: no task is lost, stranded by a shutdown, or run twice. `CountersExact`: the slot counter (`QueuedSlotsExact`) and the pending counter (`PendingExact`) agree with the queues and the threads at every step |
| `gear_video` | 6 frames; two images, two register writes, two rows; seven short lines and two accesses | mailbox: `NoTornFrame`, `FrameArrives`, and `ImplementsRegister`, the refinement of `LatestValue`. Picture and chip: `PictureRight` and `ChipHonest`, below |
| `sound` | see its cfg | audio: `HeardRight` (no torn copy, no block of an older epoch), `ResetIsSafe` (only with both threads away), `SessionsInOrder`. Notes: `NotesDelivered` (each is ended, and one thread at a time uses the device). Both: `WaitersReturn` (the control lane's waits for the drain gate, and a flush, come back). Chips: `NotesFollow` (held notes are the voices that sound, and a voice that sounds will run out), `PacketsInOrder` (samples follow on each other and every event lies at one of them) |
| `audio_stale_output`, `audio_deferred_reset`, `audio_prefill` | the smallest rings that show it | findings 1 to 3 |
| `video_service` | one transition with its retry, one rejected call, one ROM loaded beside it | `NoFrameAcrossSessions`; `PictureLostOnlyIf`: a presenter left closed has one of four causes; `PictureComesBack` |
| `video_presenter` | one transition | finding 4 |
| `netplay` | window, queues and session of 2 frames, two inputs against one, equal or different bindings | `ImplementsSharedGame`; `NoFalseFault`: no replayed datagram ends a session; `PassedMeansPeerPlayed`; `Terminates`; `LossIsRepaired` |
| `host_services` | what runs around a machine, see its cfg | one property or more for each part, below |
| `machines` | what is inside the machines, see its cfg | one property or two for each part, below |
| `saves_durability` | two workers, two saves, no crash | finding 5 |

`host_services`, part by part:

- pool, with two workers, one task queued at most, two tasks and two submitters, one start: `AcceptedTaskFinishes` (or is
  cancelled), `ShutdownReturns`, and `IdleWaiterReturns`, a waiter comes back without its timeout.
- saves: `SavesKept`. A save file is never half-written whatever fails, and a save that was not written is still
  dirty, pending or on its way; after an exit it is on the disk, but for the excuses: a call failed, the wait ran out, the
  lane died, two threads wrote at once (`"overlap"`), a worker took a snapshot before an older one (`"overtaken"`).
- controller: `NoStaleButtons`, no button of an earlier connection or generation is pressed;
  `ButtonsArrive`, what the player holds reaches the machine.
- visuals: `NoChangeLost`, when no change of pack or image is on its way the last one is in use; `EditsReachTheScreen`,
  it is what is shown in the end.
- capture: `CaptureComplete`, the manifest lists every image written, unless the wait ran out.
- timing: `PauseHolds`, a paused machine runs only what a step request asked for.

`machines`, part by part:

- blocks: `NoStaleCode`, what is executed from the cache is the instruction at that address as memory holds it, but for
  the four escapes in `Escapes`.
- clock: `LcdsAgree`, CPU and PPU agree on line and dot at every retired instruction;
  `HaltEnds`.
- instructions: `InstructionsAgree`, the three paths give the same registers, flags, cycles and
  memory.
- gamegear: `BoundariesHold`, at each boundary between instructions the machine is where `alone` is,
  given the interrupts taken.
- operands: `OperandsAreEnough`, a part of `InstructionsAgree`: the decoders name every lane the instruction reads or writes,
  but for the gaps named in `SpaceOperands`; on the Game Gear length and targets are compared too, on the Game Boy they are not.
- bus, gearbus: `BusesAgree`, both copies of banks, dirty flags and save data agree, also after a state is
  restored (`GearCleanMeansSaved` is about a ROM whose next start makes a mapper that is saved); `CodeMovesOpenly`, what an address holds changes only with a new generation.

`PictureRight`, part by part, in `GearPicture`: `BackgroundRight` (the general path draws what the name
table says but for a tile that straddles the fixed columns, and where the simple path applies the
two agree), `SpritesAsReported` (without an overflow each column shows the first opaque sprite,
and two drawn at one place are a collision) and `SamplesTrue` (what the debug model says of a
pixel is where its colour comes from).

`ChipHonest`, part by part, in `GameGearVdp`: `IrqFollowsFlags` and `PaletteFresh` (the interrupt line and the
decoded palette are those of the flags and of colour memory), `ReadsInOrder` (the data port's buffer is the byte due),
`FramesWhole` and `LinesCounted` (frames come after all their lines, line interrupts as register 10 says) and
`SleepInvisible` (a sleep is the polls it stands for and hides no event).

Bounds, and why they are enough. Two workers make every pair of owner and thief; queues of one
task with three slots make both kinds of rejection happen (every queue full, no slot left), four
tasks fill them. A second start covers a restart. Six frames go round the three slots twice.
The audio ring has one more slot than it uses, so two usable blocks make the indices wrap, and
reach the prefill target of two. A second open makes what the engine kept over a close audible.
One transition with one retry reaches each path of `runTransition`; a second transition after one
that threw is the rejected call. A window of two frames holds one frame ahead, as far as a peer can
be, and its history one behind; two frames make a replayed packet meet a later frame. Two save
workers and a crash show what files hold and how two snapshots meet; two writes, that a newer save follows. The program starts up
to eight workers where the host has them: the theorem `SavesAreKept` is about any number. Three
resources, two failures: one capture that fails, one that succeeds, one that is late. Pages of two
bytes and blocks of two instructions make a block span pages; one store per behaviour suffices, as a store changes one byte and
invalidation is done by the store. Memory begins with two-byte instructions and one HALT at most; more of them, and what the fast path does not
know, are only stored. Jumps are in the second ROM bank. A line of four dots and instructions of three cycles make
every phase between them happen. The operand bytes of `instructions` are the borders of nibble and byte and the values decimal
adjustment tells apart; every opcode, prefixed ones too, is executed once, from each of them. Programs of
`gamegear` are sequences of three or four instructions around a store into the code, block
instructions and changes of IFF. `bus` and `gearbus` take five steps over every cartridge type,
enough to write, save, change and restore. The two rows of `GearPicture` lie in and out of the area where scrolling is locked, with sprites
that overlap, crowd and end early, and two register writes after the initial registers combine any
two of the switches that choose a path. A line of fourteen cycles holds one access and the interrupt
between two. Writes of a sound behaviour go to one Game Boy voice; a
step of the frame sequencer comes with one sample for about 94, and eight samples are four
packets. Bounds are named `Max...` and guard only calls from outside,
never a step of a call that has begun. Tasks and submitters are symmetric in `pool_safety`, where
only invariants are checked. Deadlock is not checked: every system here may stop once the bounded
calls are used up.

Fairness. A thread that is running goes on (weak fairness of its steps); waits in the code have
deadlines of their own (1 ms in a pool worker, the worker's and the device's sleeps in audio, the
UI loop's and the controller's poll). No call from outside is made by fairness, except that the machine keeps emitting
PCM and reaching VBlank while it runs, the machine lane keeps stepping and sampling, and no `waitUntilIdle` deadline passes by fairness. Strong
fairness is used where a loop meets the chance again and again: `BumpEpoch`, as the audio worker sleeps between its uses of
`outputProductionMutex_`; `MailboxEmpty` and `UseFallback`, as a frame takes milliseconds to
arrive and microseconds to be dropped, so the loops that drop stale frames see an empty mailbox; a
successful `Decode` in `VisualOverrides`, as a file that stays as it is does not fail to be read for ever; and
delivery in `Netplay`: a datagram that is sent again and again arrives (fair loss). Netplay's
timeout passes by fairness only for a peer whose other side has left.

## Findings

1. `audio_stale_output`. A transition empties both rings but not the `AudioEngine`. PCM of the
   previous session is rendered afterwards with the new epoch and heard; `docs/architecture.md`
   says quiescence rules prevent it. What does hold is `SessionsInOrder`.
2. `audio_deferred_reset`. `produceReadyOutputBlock` renders only when the engine's ring holds
   enough, and only rendering observes a deferred reset. A frame counter that goes back while the
   ring is empty leaves the reset pending and the output silent.
3. `audio_prefill`. An underrun clears the primed flag after the worker has set it at the target
   depth. The worker then finds the ring full and never primes it again.
4. `video_presenter`. `VideoService::pause` closes the presenter while the UI lane may be inside
   `present`; nothing both lanes hold prevents it.
5. `saves_durability`. Every save snapshot is a pool task of its own and all write through one
   temporary name. The older may be renamed over the newer, and the flush at shutdown does not
   write again what was submitted; `tests/smoke_gameboy_cartridge_save.cpp` says shutdown enforces durability.

### Met on the way

Covered by properties, named as exceptions in a definition, or only recorded here:

- Host. A transition that is retried forgets that video was active, since the second pause reads
  the state the first one left; a mutation that throws leaves `transitionDepth_` at one and each
  later transition is rejected; `start` resets `cancelled_` and no other counter, so the sum of the
  pool's statistics holds for one start only; pausing without a presenter moves no epoch on; an exception on the
  machine lane drops its pending save snapshot; nothing calls `fsync`; step requests coalesce, and the slice that
  enters the game from the boot ROM loses one; `DebugService`'s pending reply may be overwritten.
- Netplay. The last packet may be lost after its sender has left; the CLI owns the inputs as 255
  and 0; a datagram that does not decode ends the session.
- Game Boy. In the machine the CPU's own memory handlers are bypassed: a write to DIV does not
  reset it, a serial transfer never starts, OAM DMA takes no time, a write to LY does nothing. The HALT bug occurs at
  any wake with IME off; an illegal opcode stops like a STOP nobody ends; loading a ROM into a running
  machine resets the PPU and not the CPU's dots; a jump to the next address is charged as not
  taken, a branch not taken under the HALT bug as taken. What `fetchInto` returns under that bug
  is translated as if it stood at the program counter, so that later visits without HALT execute the shifted bytes from the
  cache, where the baseline policy executes memory (`docs/architecture.md` has fast paths preserve the visible state); an
  instruction that rewrites itself or switches its bank away is translated as it was; blocks in echo RAM are never invalidated, and one that wraps
  round the address space escapes `invalidateRange`. An importing mapper turns MBC5's low bank 0
  into 1; beyond the ROM, mapper and cartridge pick different banks. The APU announces no event
  when a length expires, a sweep overflows or power goes off, until the next write.
- Game Gear. The general background path keeps the pattern row it decoded last by column and does not
  drop it when the column's entry is decoded again for another row, so where fixed columns are not
  scrolled and the others are, a tile that straddles the split is drawn from the wrong pattern; `GearPicture`
  names it `Straddles`. Sprites both tall and zoomed are drawn with their lower half from the
  ninth line on. `setSmsMode` is called by tests only, and sleep through polls happens only with
  `TIME_RESEARCH_HALTED_ADVANCE`. Indexed loads of the Z80 use H and L where other indexed forms use the halves of
  the index register; `loadRom` reads a save before a reset that clears a Codemasters cartridge's
  RAM; a restored state recreates the mapper without its file name; `checkedCodeView`'s type test
  never matches; the registers for compatibility announce nothing.
- MIDI. Sorting a file by frame reorders notes after a state is restored; the semaphore of 1024 can
  be released beyond its maximum.
- S.P.A.C.E. The Game Gear decoder misses AF of PUSH and POP, half-index registers, and the targets of
  repeated block instructions.

## Proofs

The theorems below are proved for every value of the constants, bounds included, that satisfies the
assumption of the module; TLC evaluates the assumptions in the runs. Each invariant was checked
on an instance before it was proved. What the prover needs to know of types is kept weak
(`Shape`, `Domains`, `LcdFields`: which fields a record has, which numbers are natural).

| Theorem | States | Module proved about |
|---|---|---|
| `PoolTypeCorrect`, `ShutdownDrains`, `EachTaskRunsOnce`, `CountersStayExact` | `TypeOK`, `NoTaskStranded`, `TaskRunsOnce`, `CountersExact` | `BackgroundThreadPool` |
| `SlotsNeverShared`, `OnlyCompleteFrames`, `FramesInOrder`, `MailboxRefinesRegister` | `SlotsDisjoint`, `NoTornFrame`, `NeverBackwards`, `ImplementsRegister` | `RealtimeVideoMailbox` |
| `ChipAlwaysHonest` | `ChipHonest` | `GameGearVdp` |
| `WholeBlocksHeard`, `ResetFindsNobody`, `OldPcmNeverReturns` | `HeardRight`, `ResetIsSafe`, `SessionsInOrder` | `AudioTransport` |
| `SessionsNeverMix`, `PictureLostForACause`, `ActiveIsOpen` | `NoFrameAcrossSessions`, `PictureLostOnlyIf`, `ActiveMeansOpen` | `VideoService` |
| `NetworkFaultsNobody`, `PassedTogether`, `TwoPeersOneGame` | `NoFalseFault`, `PassedMeansPeerPlayed`, `ImplementsSharedGame` | `Netplay` with `LockstepEngine` |
| `FilesStayWhole`, `SavesAreKept` | `FileWhole`, `SavesKept` | `CartridgeSaves` |
| `PausesHold`, `ButtonsNeverStale`, `ManifestComplete`, `NothingOverlooked` | `PauseHolds`, `NoStaleButtons`, `CaptureComplete`, `NoChangeLost` | `TimingLane`, `ControllerInput`, `VisualCapture`, `VisualOverrides` |
| `LcdsStayTogether` | `LcdsAgree` | `GameBoyClock` |
| `NotesAlwaysFollow`, `PacketsAlwaysInOrder` | `NotesFollow`, `PacketsInOrder` | `SoundChips` with `GameBoySound` and `GameGearSound` |
| `NotesAlwaysEnd` | `NotesDelivered` | `MidiExport` |
| `CodeNeverStale` | `NoStaleCode` | `TranslatedBlocks` |
| `CartridgesAgree`, `CodeMovesKnown` | `BusesAgree`, `CodeMovesOpenly` | `CartridgeBuses` with `GameBoyBus` and `GameGearBus` |

### Pool

`PoolAssumption`: at least one worker and one place per queue (the constructor raises zero to
one); `Nobody` is neither a task nor a submitter. `PoolTypeCorrect` says that indices
computed modulo the number of workers, and the ones counted up by the scans, name a worker, and
that a thread which runs or submits a task has one.

`ShutdownDrains`: emptiness of queues alone is not inductive, as a submitter could push behind a
scan. `DrainInv` adds why it cannot. A submitter between its check and its push holds
`lifecycleMutex_`; while anyone holds it no stop is requested; workers scan or exit only after a
stop is requested; so nothing is pushed behind a scan, and the queues a scan has passed stay empty.

`EachTaskRunsOnce` and `CountersStayExact` rest on one invariant, `PlacesInv /\ CountInv`. A task is in one place: at one
index of one queue, at one executing worker, or at one submitter; its `outcome` says which. The
counters are then the cardinalities of what is in those places, and each action moves one element
from one set to another. The counts need the places: a steal that left the task behind would be
counted once and run twice.

### Mailbox

`MailboxInvariant` proves `MailboxInv` (from `MailboxAssumption`: the bound is a natural number): the three slots have different owners, and the frames in them
are ordered (consumed, then taken, then shared, then the one being written). `SlotsNeverShared`,
`OnlyCompleteFrames` and `FramesInOrder` follow. `MailboxRefinesRegister` maps the register's
value to the shared slot when it is dirty, and its last taken frame to the consumer's slot between
the exchange and the move; then the exchanges are the register's steps and the rest stutters.
`SlotsDisjoint` and `NeverBackwards` are stated by theorems only.

### Video chip

`VdpAssumption`: no instruction is longer than a line (228 cycles), and the lines with a picture, in each mode, end
before the frame does, with a line to spare (192 to 240 of 262). So at most one line ends in an instruction (`Stepped`), and
`LineEnded` says what that does to line, counter and flags.

`ChipRight` says that the interrupt line and the palette are recomputed wherever something they depend on changes; each port access is
shown to keep it. A saved state need not be right, as a restore recomputes both. The other parts of `ChipHonest` are about a program's past, and
are not inductive. `VdpInv` adds where in the frame the chip is: `FrameRight` gives the lines since the last VBlank from the
current line, `CountRight` also the counter outside the picture, where it is reloaded on each line, and `ReadRight` the address behind the
buffered byte. They hold as long as the program does not move the frame's end or the count, which the history notes. `SleepInvisible` follows
from the bound alone: the polls lie strictly inside a line, so no `LineEnds` falls among them (`SleptRight`).

For this, the lines that end, the bytes of the prologue and the single polls became recursive functions; `HandedOn` carries a fact along
each of them.

### Audio

`TransportAssumption`: rings of at least one block; frame ranges are positive numbers. `AudioInv`
says that the slots from the read index to the write index, round the ring, hold blocks of the
present epoch while the drain gate is not suspended, that the gate is up while the device is in
`drainReadyOutput`, and that the worker's copy is into a free slot. What makes it inductive is
who may move an index while another thread is between reading it and using it: a
reset waits for the gate, and the worker publishes under the production mutex. `OrderInv` adds the
order of sessions along the whole path (source ring, deferred chunk, engine, worker, ready ring,
device); each stage is not later than the one before it, and each is sorted.

### Sound chips

`SoundAssumption` and `PsgAssumption`: the voices modelled are some of the chip's four, a chunk, a length
and a queue are at least one. The notes held are what a sequence of events of any length makes of
them. Of such a sequence one fact is needed, `OneGate`: if the events about a voice all carry one
gate, its note is that gate afterwards when one of them settles it, and as before when none
does. The notes after each event are a recursive function (`EachNote`), and `OneGate` follows by the
first event at which the note moves (`Climbs`, on the least number), which needs no induction over an operator. For this the
models' filters and folds were written as recursive functions.

`GgInv`: a voice that was not changed unannounced sounds as it was last observed, and as its note will be
once the plugins heard the chunk. `GbInv`: unless events were dropped, a voice that sounds will have its note,
and a note belongs to a voice that was last observed to sound and sounds still, or fell silent unannounced. It is
inductive because no voice begins to sound without a write, and a write announces what changed since the gate was
observed; `Carried` is what a step's events and voices must satisfy for that, and each write,
sequencer step, reset and restored state is shown to satisfy it. `PacketsAlwaysInOrder` needs that the next
sample expected is the counter less what is pending, and that queued events lie before the counter.

### Video

`VideoAssumption` is all it needs. `VideoInv` says of a frame, wherever it is, that it is blank, of an earlier
epoch, or of this session, with two exceptions: between a ROM's load and its event, and between a
pause without a presenter and the resume that moves the epoch on, the session is ahead (`Unsettled`). For
the presenter it says that as long as none of the four causes has occurred, the one a
transition closed is one it will open again.

### Netplay

`WindowAssumption` and `CapacityAssumption`: the window and the queues hold two packets or more (128 and
64 in the code; a peer may be one frame ahead, so with one it could not work). `FramesAssumption`,
`InputsAssumption` and `NoPacketAssumption` keep the abstract values apart. `NetInv` says what every packet is,
wherever it is: the one its sender made of the frame it names, and it has left its sender. A peer makes packet n after playing frame
n - 1, for which it needed the other's packet n - 1; so neither is more than one frame ahead,
the window's two slots that are in use differ (`SlotsApart`), a queue never holds two packets of one
frame, and nothing overflows. What the machines played is the same prefix of the union of what
both entered, hence the digests agree, no replayed packet differs from the one it repeats, and
each step is a step of `SharedGame` or invisible to it.

### Saves

`SavesAssumption`: there are finitely many workers, at least one, and the host is not one of them. `DiskInv` says
that names refer to different inodes and that the one writer's temporary file keeps its name
until its content is the snapshot's; so a rename installs a complete file. It holds for any
number of workers until two write at once, which finding 5 shows can happen. `SavesAreKept` is for any number of workers too.
`NewestKept` follows the newest save of a clean cartridge phase by phase; it is
pending, or last in the queue, or being written, or on the disk. Of several workers with a snapshot, one at most has begun to write
(`OneBegun`); whoever opens a file while another still has one meets it, so the last to finish is the one that no other is about to
follow (`Foremost`), and it holds the newest: a worker never takes a snapshot before an older one without the excuse.

### Services

`TimingAssumption`, `ControllerAssumption` and `CaptureAssumption` say that sets are finite and limits
positive. `TimingInv`: a step request is with the service, with the engine, or spent, and what runs after a pause runs in the wake the pause
came in. `ControllerInv`: while a sample is taken, a connection that is up was up when the sample
began or has come up since; the flag is down between two connections. `CaptureInv`: an image on the disk is entered, or its
completion is on its way, and the counter waited for is the number of write tasks.

`EditsAssumption`: the bound is a number, any number. `VisualInv` adds to `NoChangeLost` that no time stamp is ahead of its
file; that an image shown, or decoded for the present packs, is no older than the packs' stamp of it, since a decode that began before
a reload carries an older generation; and that the pack in use, or the one about to replace it, holds the manifest its stamp
names, unless one was saved between the read and the stamp or before the result was taken (`missed`, the case `NoChangeLost` excepts).
So when a reload finds the stamps unchanged there is nothing to do.

### Exported notes

`MidiAssumption`: finitely many voices, at least one, and a queue of two messages or more (1024 in the code). `Sent` is the
stream a message passes along: what the sink has, the message in the thread's hand, the queue, and what the lane has still
to send. No step but an event of the chip or the loss of a message changes it, and `Tells` says of the messages of an event that they
extend a stream that leaves on the voices in one set to one that leaves on those in another; so unless something was lost, `Sent`
leaves on what the plugin takes to sound (`StreamRight`). A file is written, or the device flushed, only after the plugin was detached, when
it has told every voice to stop, and when the lane saw the queue empty and then nothing in flight; as only the lane
fills the queue, all of `Sent` is in the sink. The same fact keeps the thread off the device during a flush. The stable sort is modelled
by where each message goes; without a step back in time it moves none (`SortedStays`).

### Clock

`ClockAssumption`: the modes end one after the other within a line, there are lines after the visible ones, and no instruction is
as long as a line (24 cycles against 456). The CPU counts one cycle after the other and the PPU
adds an instruction's cycles at once. `AfterCycles` says where n cycles lead, by
the least n for which it fails; `PpuOnEffect` what the PPU makes of the same n. Both come to
`LineAfter` and `DotAfter`. `ClockInv` adds to `LcdsAgree` that a counter that was off is at zero, and that exactly the lines before the current one are
rendered, which makes the frame complete when it is announced.

### Translated blocks

`BlocksAssumption`: every size is positive and the program stores opcodes. `invalidateRange` looks at a page's counter before it
looks for blocks, so a counter that has fallen behind would leave an overwritten block in use. `BlocksInv` therefore says that each counter
is exactly the number of live blocks that cover its page (`Live`), through inserts that evict, invalidations and
generations; that the instructions of a block lie between its first and its last byte; and that a live block that does not escape is
what memory holds (`AllFresh`). Of a block whose first instruction was translated as it was fetched (`stale`: it rewrote or banked away itself, or had
the HALT bug) only that one escapes, and the proof goes instruction by instruction. A store that changes a byte of such a block then finds the counter above zero and the block in the
range. `Translated` keeps this one instruction at a time: `HandedOn` carries it from each length to the next. Slots always name an
instruction of their block that starts at their address, and the baseline policy has no blocks, so its stores need not invalidate.

The proof asked for the counters as cardinalities, where the model had filtered sequences, and for a slot's
instruction to be the one at its address, which `NoStaleCode` now says too.

### Cartridges

`CartridgesAssumption`: a header is one of `Headers`, with two ROM banks or more (a smaller ROM is padded by the mapper and not by
the cartridge, so the two would differ), registers lie below 0x8000, addresses are words and values bytes.
`GearAssumption`: a ROM has a bank or more, and only its name or text can ask for the Codemasters mapper.

`BusInv` says of each Game Boy mapper which of its registers the cartridge has too and that both hold the same
(`RegistersRight`, `BoardRight`), that the windows are copies of the banks the registers name, that a saved state was taken
of such a machine, and what the save file holds of a clean cartridge. Each register write keeps it, mapper by
mapper: lemmas give the bank arithmetic, which the two classes write in different ways (MBC1's skipped banks, MBC5's nine bits, the
clamp to the last bank). `NamedPlaces` then says what `analysisLocation` means: the cell it names is the cell that is
read, so one name is one cell. `GearInv` is the same for the Game Gear: a mapper's RAM is there when it is mapped, the next start makes a
Codemasters mapper exactly where this one is one. `QuietStep` says that a step which
leaves the generation alone leaves ROM, banks, control register and BIOS alone; the code then stays (`CodeStays`).

The proof attempts corrected the model twice. The clock was saved for cartridges without one; now `SaveData` asks for it
as `exportSaveData` does. And `GearCleanMeansSaved` was false of a ROM whose name asks for the 315-5365: a restored state
recreates the mapper without the name, may mark its RAM clean once saved, and the next start, which makes a 5365 again, loads no save
file. A cartridge of each kind was added to the instance.

### Only model-checked

- Liveness (`WaitersReturn`, `Terminates`, `PictureComesBack` and the others under fairness) and what needs `ENABLED`.
- `InstructionsAgree` (with `OperandsAreEnough`) and `BoundariesHold`: their modules compute with `Bitwise`, which the prover does not admit.
- `PictureRight` compares rows drawn by folds over columns, runs and sprites: what a fold computes needs induction over data.

## Plan

Small proofs belong in `HostServicesProofs`. Next are the pixels of the
Game Boy's PPU, prepare and commit of save states and mods, and the debug service.

## Not modelled

Loading of shared objects, scripting (external interpreters), PNG and manifest parsing, configuration and the
command line, the adapters of debuggers and frontends, benchmarks and corpus tools. Save-state coding and the wire format are
encoders and decoders without shared state. Of the modelled parts, statistics that no
property is about, time stamps, resampling, frame processors, waveforms, the Game Boy's pixels and logging are left out. Weak memory is
not modelled: atomic operations are sequentially consistent here, while the code mostly uses
acquire and release.
