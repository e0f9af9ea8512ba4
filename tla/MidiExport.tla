----------------------------- MODULE MidiExport -----------------------------
(***************************************************************************)
(* Notes for a MIDI file or device: PsgMidiPlugin follows the sound chip's *)
(* events on the machine lane and sends messages to a sink.  The file sink *)
(* keeps them until it is flushed; a device is behind AsyncMidiSink, whose *)
(* thread takes them from a bounded queue and does the device's I/O.       *)
(*                                                                         *)
(* A message is an on, an off or a control of a voice, at a sample frame.  *)
(***************************************************************************)
EXTENDS Integers, Sequences, FiniteSets, SequencesExt

CONSTANTS
    MidiVoices,     \* voices of the sound chip
    QueueSlots,     \* kQueueSlots: one is always free
    MaxMessages,    \* kMaxMessages of the file sink
    MaxMidiEvents,  \* bound: events of the sound chip
    MaxFrame,       \* bound: the last sample frame
    MaxAttaches     \* bound: times the plugin is attached

ASSUME MidiAssumption ==
    /\ IsFiniteSet(MidiVoices) /\ MidiVoices # {}
    /\ QueueSlots \in Nat /\ QueueSlots > 1
    /\ MaxFrame \in Nat

VARIABLES
    notes,      \* the plugin: which voices sound, its last frame, its lane
    outbox,     \* messages the lane has still to send, and what it does then
    async,      \* AsyncMidiSink: queue, semaphore, flags
    midiWorker, \* its thread
    sink,       \* what the wrapped sink has got, and whether it is used
    written,    \* the file, or what the device has been told to play
    midiPast    \* history: events so far, a message dropped, time went back

midiVars == <<notes, outbox, async, midiWorker, sink, written, midiPast>>

Message(kind, v, at) == [kind |-> kind, voice |-> v, frame |-> at]
NotWritten == <<Message("control", CHOOSE v \in MidiVoices : TRUE, -1)>>

MidiInit ==
    /\ notes = [active |-> [v \in MidiVoices |-> FALSE], frame |-> 0, attached |-> FALSE, attaches |-> 0]
    /\ outbox = [pc |-> "idle", messages |-> << >>, then |-> "idle", ends |-> FALSE]
    /\ async \in [device : BOOLEAN, queue : {<< >>}, permits : {0}, running : {TRUE}, inFlight : {FALSE},
                  waiting : {FALSE}]
    /\ midiWorker = [pc |-> "loop", message |-> NotWritten[1]]
    /\ sink = << >> /\ written = NotWritten
    /\ midiPast = [events |-> 0, lost |-> FALSE, rewound |-> FALSE]

-----------------------------------------------------------------------------
(* PsgMidiPlugin, on the machine lane.                                     *)

NoteOff(v, at) == IF notes.active[v] THEN <<Message("off", v, at)>> ELSE << >>

\* Mutant: a voice that sounds is not ended before it starts again.
NoteOn_Over(v, at) ==
    <<Message("control", v, at), Message("on", v, at)>>

\* noteOn; its two controls are one here.
NoteOn(v, at) ==
    NoteOff(v, at) \o <<Message("control", v, at), Message("on", v, at)>>

Sends(messages, then, ends) ==
    outbox' = [pc |-> IF messages = << >> THEN then ELSE "send", messages |-> messages, then |-> then,
               ends |-> ends]

\* processEvent: the messages of an event, and whether the voice sounds then.
\* Retriggering ends the note first, which is what starting it does anyway.  A
\* device plays at once, whatever the frame.
PlayEvent ==
    /\ outbox.pc = "idle" /\ notes.attached /\ midiPast.events < MaxMidiEvents
    /\ midiPast' = [midiPast EXCEPT !.events = @ + 1]
    /\ \E v \in MidiVoices, at \in IF async.device THEN {0} ELSE notes.frame .. MaxFrame :
         \/ \E gate \in BOOLEAN :                               \* Snapshot, Gate, Retrigger, new pitch
              /\ Sends(IF gate THEN NoteOn(v, at) ELSE NoteOff(v, at), "idle", FALSE)
              /\ notes' = [notes EXCEPT !.frame = at, !.active[v] = gate]
         \/ \E gate \in BOOLEAN :                               \* LevelChange
              /\ Sends((IF notes.active[v] THEN <<Message("control", v, at)>> ELSE << >>)
                         \o (IF gate THEN << >> ELSE NoteOff(v, at)), "idle", FALSE)
              /\ notes' = [notes EXCEPT !.frame = at, !.active[v] = @ /\ gate]
         \/ /\ Sends(<<Message("control", v, at)>>, "idle", FALSE) \* routing, timbre, bend
            /\ notes' = [notes EXCEPT !.frame = at]
    /\ UNCHANGED <<async, midiWorker, sink, written>>

\* A ROM or a state is loaded: the frames that follow count from earlier.
Rewind ==
    /\ outbox.pc = "idle" /\ notes.attached /\ notes.frame > 0
    /\ notes' = [notes EXCEPT !.frame = 0]
    /\ midiPast' = [midiPast EXCEPT !.rewound = TRUE]
    /\ UNCHANGED <<outbox, async, midiWorker, sink, written>>

AttachMidi ==
    /\ outbox.pc = "idle" /\ ~notes.attached /\ notes.attaches < MaxAttaches
    /\ notes' = [active |-> [v \in MidiVoices |-> FALSE], frame |-> 0, attached |-> TRUE,
                 attaches |-> notes.attaches + 1]
    /\ midiPast' = [midiPast EXCEPT !.rewound = @ \/ notes.frame > 0]
    /\ UNCHANGED <<outbox, async, midiWorker, sink, written>>

\* onDetach: every note is ended, then the sink flushed.
DetachMidi ==
    /\ outbox.pc = "idle" /\ notes.attached
    /\ LET sounding == SetToSeq({v \in MidiVoices : notes.active[v]}) IN
         Sends([i \in 1 .. Len(sounding) |-> Message("off", sounding[i], notes.frame)],
               "flush", FALSE)
    /\ notes' = [notes EXCEPT !.active = [v \in MidiVoices |-> FALSE], !.attached = FALSE]
    /\ UNCHANGED <<async, midiWorker, sink, written, midiPast>>

\* The plugin goes, and AsyncMidiSink with it: it flushes once more, ...
Destroy ==
    /\ outbox.pc = "idle" /\ ~notes.attached /\ async.device
    /\ Sends(<< >>, "flush", TRUE)
    /\ UNCHANGED <<notes, async, midiWorker, sink, written, midiPast>>

\* ... and stops its thread.
StopMidi ==
    /\ outbox.pc = "stop" /\ outbox' = [outbox EXCEPT !.pc = "join"]
    /\ async' = [async EXCEPT !.running = FALSE, !.permits = @ + 1]
    /\ UNCHANGED <<notes, midiWorker, sink, written, midiPast>>

JoinMidi ==
    /\ outbox.pc = "join" /\ midiWorker.pc = "done" /\ outbox' = [outbox EXCEPT !.pc = "gone"]
    /\ UNCHANGED <<notes, async, midiWorker, sink, written, midiPast>>

-----------------------------------------------------------------------------
(* The sinks, on the machine lane.                                         *)

NextMessage(o) == [o EXCEPT !.messages = Tail(@), !.pc = IF Len(o.messages) = 1 THEN o.then ELSE "send"]

\* MidiFileSink::send.
SendToFile ==
    /\ outbox.pc = "send" /\ ~async.device /\ outbox' = NextMessage(outbox)
    /\ IF Len(sink) = MaxMessages
       THEN UNCHANGED sink /\ midiPast' = [midiPast EXCEPT !.lost = TRUE]
       ELSE sink' = Append(sink, Head(outbox.messages)) /\ UNCHANGED midiPast
    /\ UNCHANGED <<notes, async, midiWorker, written>>

\* AsyncMidiSink::send: the place is checked and the head moved, ...
SendToQueue ==
    /\ outbox.pc = "send" /\ async.device
    /\ IF Len(async.queue) = QueueSlots - 1
       THEN /\ outbox' = NextMessage(outbox) /\ midiPast' = [midiPast EXCEPT !.lost = TRUE]
            /\ UNCHANGED async
       ELSE /\ outbox' = [outbox EXCEPT !.pc = "wake"]
            /\ async' = [async EXCEPT !.queue = Append(@, Head(outbox.messages))]
            /\ UNCHANGED midiPast
    /\ UNCHANGED <<notes, midiWorker, sink, written>>

\* ... and the thread is woken.
WakeWorker ==
    /\ outbox.pc = "wake" /\ outbox' = NextMessage(outbox)
    /\ async' = [async EXCEPT !.permits = @ + 1]
    /\ UNCHANGED <<notes, midiWorker, sink, written, midiPast>>

\* MidiFileSink::flush, a stable sort by frame: how many messages come before
\* message i says where it goes.
Before(messages, i) ==
    {j \in 1 .. Len(messages) :
        \/ messages[j].frame < messages[i].frame
        \/ messages[j].frame = messages[i].frame /\ j < i}

ByFrame(messages) ==
    [n \in 1 .. Len(messages) |->
        messages[CHOOSE i \in 1 .. Len(messages) : Cardinality(Before(messages, i)) = n - 1]]

AfterFlush == [outbox EXCEPT !.pc = IF outbox.ends THEN "stop" ELSE "idle"]

\* A file that cannot be written is only reported.
FlushFile ==
    /\ outbox.pc = "flush" /\ ~async.device /\ outbox' = AfterFlush
    /\ written' \in {written, ByFrame(sink)}
    /\ UNCHANGED <<notes, async, midiWorker, sink, midiPast>>

\* AsyncMidiSink::flush waits until the queue is empty, ...
FlushLooks ==
    /\ outbox.pc \in {"flush", "waiting"} /\ async.device
    /\ outbox.pc = "waiting" => ~async.waiting
    /\ IF async.queue = << >>
       THEN outbox' = [outbox EXCEPT !.pc = "looking"] /\ UNCHANGED async
       ELSE outbox' = [outbox EXCEPT !.pc = "waiting"] /\ async' = [async EXCEPT !.waiting = TRUE]
    /\ UNCHANGED <<notes, midiWorker, sink, written, midiPast>>

\* ... and nothing is on its way to the device, ...
FlushLooksAgain ==
    /\ outbox.pc = "looking"
    /\ IF ~async.inFlight
       THEN outbox' = [outbox EXCEPT !.pc = "flushing"] /\ UNCHANGED async
       ELSE outbox' = [outbox EXCEPT !.pc = "waiting"] /\ async' = [async EXCEPT !.waiting = TRUE]
    /\ UNCHANGED <<notes, midiWorker, sink, written, midiPast>>

\* ... then uses the device itself.
FlushDevice ==
    /\ outbox.pc = "flushing" /\ outbox' = AfterFlush /\ written' = sink
    /\ UNCHANGED <<notes, async, midiWorker, sink, midiPast>>

LaneStep == StopMidi \/ JoinMidi \/ SendToFile \/ SendToQueue \/ WakeWorker \/ FlushFile
              \/ FlushLooks \/ FlushLooksAgain \/ FlushDevice

-----------------------------------------------------------------------------
(* AsyncMidiSink::run, the thread.                                         *)

\* The lane that holds the mutex is between its two looks.
DrainMutexFree == outbox.pc # "looking"

WorkerLoops ==
    /\ async.device /\ midiWorker.pc = "loop"
    /\ midiWorker' = [midiWorker EXCEPT !.pc = IF async.running \/ async.queue # << >> THEN "acquire" ELSE "done"]
    /\ UNCHANGED <<notes, outbox, async, sink, written, midiPast>>

WorkerAcquires ==
    /\ midiWorker.pc = "acquire" /\ async.permits > 0
    /\ midiWorker' = [midiWorker EXCEPT !.pc = "drain"]
    /\ async' = [async EXCEPT !.permits = @ - 1]
    /\ UNCHANGED <<notes, outbox, sink, written, midiPast>>

\* Mutant: the message leaves the queue before it is marked as on its way.
WorkerDrains_TailFirst ==
    /\ \/ /\ midiWorker.pc = "drain" /\ async.queue # << >>
          /\ midiWorker' = [pc |-> "advance", message |-> Head(async.queue)]
          /\ async' = [async EXCEPT !.queue = Tail(@)]
       \/ /\ midiWorker.pc = "drain" /\ async.queue = << >>
          /\ midiWorker' = [midiWorker EXCEPT !.pc = "loop"] /\ UNCHANGED async
       \/ /\ midiWorker.pc = "advance"
          /\ midiWorker' = [midiWorker EXCEPT !.pc = "sending"]
          /\ async' = [async EXCEPT !.inFlight = TRUE]
    /\ UNCHANGED <<notes, outbox, sink, written, midiPast>>

\* The message is marked as on its way, then leaves the queue.
WorkerDrains ==
    /\ \/ /\ midiWorker.pc = "drain" /\ async.queue # << >>
          /\ midiWorker' = [pc |-> "advance", message |-> Head(async.queue)]
          /\ async' = [async EXCEPT !.inFlight = TRUE]
       \/ /\ midiWorker.pc = "drain" /\ async.queue = << >>
          /\ midiWorker' = [midiWorker EXCEPT !.pc = "loop"] /\ UNCHANGED async
       \/ /\ midiWorker.pc = "advance"
          /\ midiWorker' = [midiWorker EXCEPT !.pc = "sending"]
          /\ async' = [async EXCEPT !.queue = Tail(@)]
    /\ UNCHANGED <<notes, outbox, sink, written, midiPast>>

\* The device's send; one that throws is counted.
WorkerSends ==
    /\ midiWorker.pc = "sending"
    /\ midiWorker' = [pc |-> "clear", message |-> NotWritten[1]]
    /\ \/ sink' = Append(sink, midiWorker.message) /\ UNCHANGED midiPast
       \/ UNCHANGED sink /\ midiPast' = [midiPast EXCEPT !.lost = TRUE]
    /\ UNCHANGED <<notes, outbox, async, written>>

\* Mutant: the waiter is told only when the thread ends.
WorkerClears_Silent ==
    /\ midiWorker.pc = "clear" /\ DrainMutexFree
    /\ midiWorker' = [midiWorker EXCEPT !.pc = "drain"]
    /\ async' = [async EXCEPT !.inFlight = FALSE]
    /\ UNCHANGED <<notes, outbox, sink, written, midiPast>>

\* Under the mutex, and a waiter is told.
WorkerClears ==
    /\ \/ /\ midiWorker.pc = "clear" /\ DrainMutexFree
          /\ midiWorker' = [midiWorker EXCEPT !.pc = "notify"]
          /\ async' = [async EXCEPT !.inFlight = FALSE]
       \/ /\ midiWorker.pc = "notify"
          /\ midiWorker' = [midiWorker EXCEPT !.pc = "drain"]
          /\ async' = [async EXCEPT !.waiting = FALSE]
    /\ UNCHANGED <<notes, outbox, sink, written, midiPast>>

MidiWorkerStep == WorkerLoops \/ WorkerAcquires \/ WorkerDrains \/ WorkerSends \/ WorkerClears

MidiNext == PlayEvent \/ Rewind \/ AttachMidi \/ DetachMidi \/ Destroy \/ LaneStep \/ MidiWorkerStep

MidiSpec == MidiInit /\ [][MidiNext]_midiVars

MidiFairness == WF_midiVars(LaneStep) /\ WF_midiVars(MidiWorkerStep)

-----------------------------------------------------------------------------
(* Properties.                                                             *)

\* The lane and the thread never use the device at the same time, though no
\* lock is held around either use.
DeviceUsedAlone == ~(outbox.pc = "flushing" /\ midiWorker.pc = "sending")

\* Voice v is left on by the first n messages.
NoteSounds(messages, v, n) ==
    \E i \in 1 .. n :
        /\ messages[i].kind = "on" /\ messages[i].voice = v
        /\ \A j \in i + 1 .. n : ~(messages[j].kind = "off" /\ messages[j].voice = v)

\* No voice is started while it sounds, or ended while it does not.
NotesAlternate(messages) ==
    \A i \in 1 .. Len(messages) :
        /\ messages[i].kind = "on" => ~NoteSounds(messages, messages[i].voice, i - 1)
        /\ messages[i].kind = "off" => NoteSounds(messages, messages[i].voice, i - 1)

\* In the file, and on the device once it is flushed, the notes of a voice
\* alternate between on and off and the last is off: nothing is left sounding,
\* unless a message was dropped on a full queue, a full list or by the device,
\* or a file's frames went back, which its sort puts in another order.
NotesEnd ==
    (written # NotWritten /\ ~midiPast.lost /\ (midiPast.rewound => async.device)) =>
        /\ NotesAlternate(written)
        /\ \A v \in MidiVoices : ~NoteSounds(written, v, Len(written))

\* Every note is ended, and the lane and the sink's thread do not use the device
\* at once (PsgMidiPlugin.cpp: onDetach and the sinks' send and flush, against
\* AsyncMidiSink::run).
NotesDelivered == NotesEnd /\ DeviceUsedAlone

\* A flush returns, and the thread can be joined, whatever is in the queue.
FlushReturns == outbox.pc \in {"flush", "stop"} ~> outbox.pc \in {"idle", "gone"}
=============================================================================
