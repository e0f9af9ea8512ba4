-------------------------- MODULE ControllerInput ---------------------------
(***************************************************************************)
(* A native controller: the worker thread of LinuxController follows the   *)
(* kernel's event stream and hands snapshots to the machine lane through a *)
(* bounded queue, tagged with the machine generation that was asked for    *)
(* and the connection they come from.  The lane takes one snapshot at each *)
(* input boundary, through InputService, without waiting for anything.     *)
(*                                                                         *)
(* A snapshot is a button mask, 0 the neutral one.  The device and the     *)
(* kernel's stream of events are the environment.                          *)
(***************************************************************************)
EXTENDS Integers, Sequences

CONSTANTS
    ControllerCapacity,     \* places in the hand-over queue
    ButtonMasks,            \* masks of pressed buttons
    MaxDeviceEvents,        \* bound: what happens to the device
    MaxTransitions          \* bound: resets and loads of the machine, and times
                            \* the input is paused and resumed

\* The queue has room for a packet and a device has buttons.
ASSUME ControllerAssumption ==
    /\ ControllerCapacity \in Nat \ {0}
    /\ ButtonMasks # {} /\ ButtonMasks \subseteq Nat \ {0}
    /\ {MaxDeviceEvents, MaxTransitions} \subseteq Nat

VARIABLES
    device,     \* plugged, its buttons, the unread events, changes so far
    shared,     \* the atomics: requestedGeneration, connection, connected,
                \* failed, stopping
    packets,    \* the queue from the worker to the lane
    reader,     \* the worker thread, which reads the device: where it is
                \* and what only it uses
    sampled,    \* the newest packet that is good for the lane
    lane,       \* the machine lane: where it is in sampling, its input state
    during      \* history: the connections up when the current sample began,
                \* those that came up since, and whether a packet of the
                \* newest connection was thrown away and none came after it

controllerVars == <<device, shared, packets, reader, sampled, lane, during>>

NoPacket == [valid |-> FALSE, generation |-> 0, connection |-> 0, mask |-> 0]
NewWorker == [pc |-> "top", open |-> FALSE, last |-> 0, buttons |-> 0,
              reported |-> 0, dropping |-> FALSE, tag |-> 0, then |-> "top"]

ControllerInit ==
    /\ device \in [plugged : BOOLEAN, mask : {0}, stream : {<< >>}, changes : {0}]
    /\ shared = [requested |-> 0, connection |-> 0, connected |-> FALSE,
                 failed |-> FALSE, stopping |-> FALSE]
    /\ packets = << >> /\ reader = NewWorker /\ sampled = NoPacket
    /\ lane = [pc |-> "idle", state |-> "active", generation |-> 1, connection |-> 0,
               input |-> 0, source |-> 0, opens |-> 0]
    /\ during = [began |-> {}, joined |-> {}, overlooked |-> FALSE]

-----------------------------------------------------------------------------
(* The device and the kernel (external).                                   *)

Event(kind, mask) == [kind |-> kind, mask |-> mask]

Happens(d) ==
    /\ device.changes < MaxDeviceEvents
    /\ device' = [d EXCEPT !.changes = @ + 1]
    /\ UNCHANGED <<shared, packets, reader, sampled, lane, during>>

\* Buttons change: the events of the change and the report that ends them.
\* A full kernel buffer is emptied, and says so, before the report.
Press(m) ==
    /\ device.plugged /\ m # device.mask
    /\ \/ Happens([device EXCEPT !.mask = m,
                                     !.stream = @ \o <<Event("buttons", m), Event("report", 0)>>])
       \/ Happens([device EXCEPT !.mask = m,
                                     !.stream = <<Event("dropped", 0), Event("report", 0)>>])

\* The device goes away, and comes back with nothing pressed.
Unplug ==
    /\ device.plugged
    /\ Happens([device EXCEPT !.plugged = FALSE, !.mask = 0, !.stream = <<Event("gone", 0)>>])
Plug == ~device.plugged /\ Happens([device EXCEPT !.plugged = TRUE])

-----------------------------------------------------------------------------
(* The worker thread, LinuxController::Impl::run.                          *)

WorkerOnly == UNCHANGED <<sampled, lane>>

\* The top of the loop: stop, or open the device.  A worker that has failed
\* waits to be stopped, one without a device tries again every 100 ms.
\* Opening queries the keys and starts an empty stream.
WorkerTop ==
    /\ reader.pc = "top"
    /\ \/ /\ shared.stopping
          /\ reader' = [reader EXCEPT !.pc = "done", !.open = FALSE]
          /\ shared' = [shared EXCEPT !.connected = FALSE]
          /\ UNCHANGED device
       \/ /\ ~shared.stopping /\ ~shared.failed /\ ~reader.open /\ device.plugged
          /\ device' = [device EXCEPT !.stream = << >>]
          /\ reader' = [reader EXCEPT !.pc = "connection", !.open = TRUE, !.dropping = FALSE,
                                      !.buttons = device.mask, !.then = "poll"]
          /\ UNCHANGED shared
       \/ /\ ~shared.stopping /\ ~shared.failed /\ reader.open
          /\ reader' = [reader EXCEPT !.pc = "poll"]
          /\ UNCHANGED <<device, shared>>
    /\ WorkerOnly /\ UNCHANGED <<packets, during>>

\* A new connection epoch first, then the flag that says it is up.
WorkerConnects ==
    /\ \/ /\ reader.pc = "connection"
          /\ shared' = [shared EXCEPT !.connection = @ + 1]
          /\ reader' = [reader EXCEPT !.pc = "connected"]
          /\ UNCHANGED during
       \/ /\ reader.pc = "connected"
          /\ shared' = [shared EXCEPT !.connected = TRUE]
          /\ during' = IF lane.pc = "idle" /\ lane.source = 0 THEN during
                       ELSE [during EXCEPT !.joined = @ \cup {shared.connection}]
          /\ reader' = [reader EXCEPT !.pc = "tag", !.reported = reader.buttons]
    /\ WorkerOnly /\ UNCHANGED <<device, packets>>

\* publish: tag what is to be reported with the generation asked for, ...
WorkerTag ==
    /\ reader.pc = "tag"
    /\ reader' = [reader EXCEPT !.pc = "push", !.tag = shared.requested]
    /\ WorkerOnly /\ UNCHANGED <<device, shared, packets, during>>

\* ... and push it; a full queue is a fault, which ends the connection.
WorkerPush ==
    /\ reader.pc = "push"
    /\ IF Len(packets) = ControllerCapacity
       THEN /\ shared' = [shared EXCEPT !.failed = TRUE]
            /\ reader' = [reader EXCEPT !.pc = "fault"]
            /\ UNCHANGED packets
       ELSE /\ packets' = Append(packets,
                   [valid |-> TRUE, generation |-> reader.tag,
                    connection |-> shared.connection, mask |-> reader.reported])
            /\ reader' = [reader EXCEPT !.pc = reader.then, !.tag = 0, !.then = "top"]
            /\ UNCHANGED shared
    /\ WorkerOnly /\ UNCHANGED <<device, during>>

\* The second half of fault.
WorkerFault ==
    /\ reader.pc = "fault"
    /\ shared' = [shared EXCEPT !.connected = FALSE]
    /\ reader' = [reader EXCEPT !.pc = "top"]
    /\ WorkerOnly /\ UNCHANGED <<device, packets, during>>

\* Mutant: a new generation is not answered until the buttons change.
WorkerPoll_Silent ==
    /\ reader.pc = "poll" /\ ~shared.stopping
    /\ reader' = [reader EXCEPT !.pc = "read", !.last = shared.requested]
    /\ WorkerOnly /\ UNCHANGED <<device, shared, packets, during>>

\* After the wait for events: a generation not seen yet is answered with the
\* last reported state.
WorkerPoll ==
    /\ reader.pc = "poll"
    /\ reader' = IF shared.stopping THEN [reader EXCEPT !.pc = "top"]
                 ELSE IF shared.requested # reader.last
                 THEN [reader EXCEPT !.pc = "tag", !.then = "read", !.last = shared.requested]
                 ELSE [reader EXCEPT !.pc = "read"]
    /\ WorkerOnly /\ UNCHANGED <<device, shared, packets, during>>

\* One event of the stream.  Nothing is committed before a report; the
\* report after a loss is answered by querying the device, in a new epoch.
WorkerRead ==
    LET e == Head(device.stream) IN
    /\ reader.pc = "read"
    /\ \/ /\ device.stream = << >> \/ shared.stopping
          /\ reader' = [reader EXCEPT !.pc = "top"]
          /\ UNCHANGED <<device, shared>>
       \/ /\ device.stream # << >> /\ ~shared.stopping
          /\ device' = [device EXCEPT !.stream = Tail(@)]
          /\ \/ /\ e.kind = "buttons"
                /\ reader' = [reader EXCEPT !.buttons = IF reader.dropping THEN @ ELSE e.mask]
                /\ UNCHANGED shared
             \/ /\ e.kind = "dropped"
                /\ reader' = [reader EXCEPT !.dropping = TRUE]
                /\ shared' = [shared EXCEPT !.connected = FALSE]
             \/ /\ e.kind = "report" /\ ~reader.dropping
                /\ reader' = [reader EXCEPT !.pc = "tag", !.then = "read",
                                            !.reported = reader.buttons]
                /\ UNCHANGED shared
             \/ /\ e.kind = "report" /\ reader.dropping
                /\ reader' = [reader EXCEPT !.pc = "connection", !.then = "read",
                                            !.dropping = FALSE, !.buttons = device.mask]
                /\ UNCHANGED shared
             \/ /\ e.kind = "report" /\ reader.dropping
                /\ reader' = [reader EXCEPT !.pc = "fault", !.dropping = FALSE]
                /\ shared' = [shared EXCEPT !.failed = TRUE]
             \/ /\ e.kind = "gone"
                /\ reader' = [reader EXCEPT !.pc = "top", !.open = FALSE]
                /\ shared' = [shared EXCEPT !.connected = FALSE]
    /\ WorkerOnly /\ UNCHANGED <<packets, during>>

WorkerStep == WorkerTop \/ WorkerConnects \/ WorkerTag \/ WorkerPush \/ WorkerFault
                \/ WorkerPoll \/ WorkerRead

-----------------------------------------------------------------------------
(* The machine lane, serviceInput down to sampleBoundaryV1.                *)

\* Mutant: only a new generation discards the snapshot.
SampleBegins_KeepsConnection ==
    /\ lane.pc = "idle" /\ lane.state = "active"
    /\ shared' = [shared EXCEPT !.requested = lane.generation]
    /\ lane' = [lane EXCEPT !.pc = "drain", !.connection = shared.connection]
    /\ during' = [during EXCEPT !.began = {c \in {shared.connection} : shared.connected},
                                !.joined = {}]
    /\ sampled' = IF sampled.generation = lane.generation THEN sampled
                  ELSE [NoPacket EXCEPT !.generation = lane.generation]
    /\ UNCHANGED <<device, packets, reader>>

\* Ask for the machine's generation and note the connection; a snapshot of
\* another generation or connection is no good any more.
SampleBegins ==
    /\ lane.pc = "idle" /\ lane.state = "active"
    /\ shared' = [shared EXCEPT !.requested = lane.generation]
    /\ lane' = [lane EXCEPT !.pc = "drain", !.connection = shared.connection]
    /\ during' = [during EXCEPT !.began = {c \in {shared.connection} : shared.connected},
                                !.joined = {}]
    /\ sampled' = IF sampled.generation = lane.generation
                       /\ sampled.connection = shared.connection
                  THEN sampled
                  ELSE [NoPacket EXCEPT !.generation = lane.generation,
                                        !.connection = shared.connection]
    /\ UNCHANGED <<device, packets, reader>>

\* Pop what is queued and keep the newest good one.
SampleDrains ==
    LET p == Head(packets)
        good == p.generation = lane.generation /\ p.connection = lane.connection IN
    /\ lane.pc = "drain"
    /\ IF packets = << >>
       THEN lane' = [lane EXCEPT !.pc = "connection"] /\ UNCHANGED <<packets, sampled, during>>
       ELSE /\ packets' = Tail(packets)
            /\ sampled' = IF good THEN p ELSE sampled
            /\ during' = [during EXCEPT !.overlooked =
                    ~good /\ (@ \/ p.connection \in {shared.connection} \ {lane.connection})]
            /\ UNCHANGED lane
    /\ UNCHANGED <<device, shared, reader>>

\* The input the machine runs on from here, through the engine's commit or
\* its neutral fallback.
Deliver(mask, source) ==
    /\ lane' = [lane EXCEPT !.pc = "idle", !.input = mask, !.source = source, !.connection = 0]
    /\ during' = IF source # 0 THEN during ELSE [during EXCEPT !.began = {}, !.joined = {}]

\* The three loads that end the sample: the connection is still the same,
\* it is up, and nothing has failed.  Anything else is neutral input.
SampleChecks ==
    /\ \/ /\ lane.pc = "connection"
          /\ IF sampled.valid /\ shared.connection = lane.connection
             THEN lane' = [lane EXCEPT !.pc = "connected"] /\ UNCHANGED during
             ELSE Deliver(0, 0)
       \/ /\ lane.pc = "connected"
          /\ IF shared.connected
             THEN lane' = [lane EXCEPT !.pc = "failed"] /\ UNCHANGED during
             ELSE Deliver(0, 0)
       \/ /\ lane.pc = "failed"
          /\ IF shared.failed THEN Deliver(0, 0) ELSE Deliver(sampled.mask, sampled.connection)
    /\ UNCHANGED <<device, shared, packets, reader, sampled>>

SampleStep == SampleBegins \/ SampleDrains \/ SampleChecks

\* A reset or a ROM load: the generation moves on, the joypad is released.
MachineReset ==
    /\ lane.pc = "idle" /\ lane.generation + lane.opens <= MaxTransitions
    /\ lane' = [lane EXCEPT !.generation = @ + 1, !.input = 0, !.source = 0]
    /\ during' = [during EXCEPT !.began = {}, !.joined = {}]
    /\ UNCHANGED <<device, shared, packets, reader, sampled>>

\* InputService::pause closes the adapter: it stops the worker, ...
PauseInput ==
    /\ lane.pc = "idle" /\ lane.state = "active" /\ lane.generation + lane.opens <= MaxTransitions
    /\ shared' = [shared EXCEPT !.stopping = TRUE]
    /\ lane' = [lane EXCEPT !.pc = "joining"]
    /\ UNCHANGED <<device, packets, reader, sampled, during>>

\* ... and waits for it.
JoinWorker ==
    /\ lane.pc = "joining" /\ reader.pc = "done"
    /\ shared' = [shared EXCEPT !.connected = FALSE]
    /\ lane' = [lane EXCEPT !.pc = "idle", !.state = "paused"]
    /\ UNCHANGED <<device, packets, reader, sampled, during>>

\* InputService::resume opens it: nothing of before is kept.
ResumeInput ==
    /\ lane.pc = "idle" /\ lane.state = "paused"
    /\ lane' = [lane EXCEPT !.state = "active", !.opens = @ + 1]
    /\ packets' = << >> /\ sampled' = NoPacket
    /\ shared' = [shared EXCEPT !.stopping = FALSE, !.failed = FALSE]
    /\ reader' = [NewWorker EXCEPT !.last = shared.requested]
    /\ during' = [during EXCEPT !.overlooked = FALSE]
    /\ UNCHANGED device

ControllerNext ==
    \/ \E m \in ButtonMasks \cup {0} : Press(m)
    \/ Unplug \/ Plug
    \/ WorkerStep \/ SampleStep
    \/ MachineReset \/ PauseInput \/ JoinWorker \/ ResumeInput

\* The worker waits at most 100 ms for events, and the lane samples at each
\* frontend tick; a pause that has begun waits for the worker alone.
ControllerFairness ==
    /\ WF_controllerVars(WorkerStep)
    /\ WF_controllerVars(SampleStep)
    /\ WF_controllerVars(JoinWorker)

ControllerSpec == ControllerInit /\ [][ControllerNext]_controllerVars /\ ControllerFairness

-----------------------------------------------------------------------------
\* The buttons the machine sees are those of a connection that was up at some
\* time of the sample that delivered them: a controller that had gone away,
\* or had lost events, before the sample began is not heard.  One case is
\* left: when the connection comes up again between the sample's last look at
\* the epoch and its look at the flag, the sample still delivers the epoch
\* before.
NoStaleButtons ==
    lane.pc = "idle" /\ lane.source # 0 =>
        \/ lane.source \in during.began \cup during.joined
        \/ lane.source + 1 \in during.joined

\* When the device rests, the machine comes to see exactly the buttons that
\* are pressed, through lost events, unplugging, resets and reopening, as
\* long as the controller has not failed, which is neutral until reopened,
\* and the last packet was not overlooked: one that a connection sends as it
\* comes up is thrown away by a sample that began before it, and the worker
\* sends no other until the buttons or the generation change.
ButtonsArrive ==
    <>[](lane.state = "active" /\ ~during.overlooked =>
            lane.input = IF shared.failed THEN 0 ELSE device.mask)
=============================================================================
