---------------------------- MODULE GameBoySound ----------------------------
(***************************************************************************)
(* The sound chip of the Game Boy (GameBoyAPU.cpp), the packet of samples  *)
(* and events the machine makes of a frame of sound, and the notes that    *)
(* PsgMidiPlugin holds for its voices.                                     *)
(*                                                                         *)
(* A voice is its gate, converter, length, envelope and sweep; waveforms,  *)
(* the mixer's levels and the noise generator are left out, and lengths,   *)
(* volumes and frequencies are small numbers.  Time goes by steps of the   *)
(* frame sequencer, with the sample that ends it for the 94 mixed meanwhile*)
(***************************************************************************)
EXTENDS Integers, PsgEvents

CONSTANTS
    SoundVoices,    \* of "pulse1", "pulse2", "wave", "noise"
    FullLength,     \* what a trigger makes of a length of 0: 64, or 256
    MaxVolume,      \* 15
    TimerSize,      \* 256, the values a timer of a byte takes
    MaxFrequency,   \* 0x7FF
    FrameChunk,     \* kFrameChunkSamples
    EventSlots,     \* kHistorySamples, the events kept
    MaxSoundWrites, \* bound: registers written, states saved and loaded
    MaxSamples      \* bound: samples since the last reset

ASSUME SoundAssumption ==
    /\ SoundVoices \subseteq {"pulse1", "pulse2", "wave", "noise"} /\ SoundVoices # {}
    /\ FullLength \in Nat \ {0} /\ FrameChunk \in Nat \ {0} /\ TimerSize \in Nat \ {0} /\ EventSlots \in Nat \ {0}

VARIABLES
    apu,        \* power, frame sequencer, voices, sweep
    samples,    \* sampleCounter, those not yet taken, the frame last announced
    chipEvents, \* pendingEvents_, and the gates last observed
    packet,     \* the last packet the plugins got
    held,       \* the notes PsgMidiPlugin holds
    apuState,   \* the saved state
    soundPast   \* bound: the voice whose registers are written; history: writes,
                \* voices that fell silent unannounced, events dropped, where the
                \* next packet should begin

gbSoundVars == <<apu, samples, chipEvents, packet, held, apuState, soundPast>>

QuietVoice == [on |-> FALSE, dac |-> FALSE, lengthOn |-> FALSE, length |-> 0, period |-> 0,
               timer |-> 0, up |-> FALSE, initial |-> 0, volume |-> 0, frequency |-> 0]
NoSweep == [on |-> FALSE, period |-> 0, shift |-> 0, negate |-> FALSE, timer |-> 0, shadow |-> 0]
NewApu == [power |-> TRUE, step |-> 0, voices |-> [v \in SoundVoices |-> QuietVoice], sweep |-> NoSweep]
NoPacket == [first |-> 0, count |-> 0, offsets |-> << >>]
NoApuState == [apu |-> NewApu, samples |-> [counter |-> -1]]
VoiceOrder == Kept(<<"pulse1", "pulse2", "wave", "noise">>, SoundVoices)

\* The first voice of the chip, which events of no voice are filed under.
FirstVoice == VoiceOrder[1]
HasEnvelope(v) == v # "wave"
Frames(counter) == counter \div FrameChunk

-----------------------------------------------------------------------------
(* Events.                                                                 *)

\* recordVoiceEvent: the oldest event makes room.
Recorded(ce, events) ==
    LET all == ce.queue \o events
        excess == Len(all) - EventSlots
    IN  [ce EXCEPT !.queue = IF excess > 0 THEN SubSeq(all, excess + 1, Len(all)) ELSE all]
Drops(ce, events) == Len(ce.queue \o events) > EventSlots

EventOf(voices, v, kind) == PsgEvent(v, kind, voices[v].on, samples.counter)
Snapshots(voices, at) ==
    [i \in 1 .. Len(VoiceOrder) |-> PsgEvent(VoiceOrder[i], "StateSnapshot", voices[VoiceOrder[i]].on, at)]

\* recordWriteEvent: a gate that has moved unseen is what is announced.
WriteEvents(voices, v, kind) ==
    LET moved == kind # "Retrigger" /\ voices[v].on # chipEvents.observed[v]
    IN  <<EventOf(voices, v, IF moved THEN IF voices[v].on THEN "GateOn" ELSE "GateOff" ELSE kind),
          EventOf(voices, v, "RawWrite")>>

\* The events of a register write, for the voices as they are after it.
Announce(voices, v, kind) ==
    LET events == WriteEvents(voices, v, kind) IN
    /\ chipEvents' = Recorded([chipEvents EXCEPT !.observed[v] = voices[v].on], events)
    /\ soundPast' = [soundPast EXCEPT !.writes = @ + 1, !.dropped = @ \/ Drops(chipEvents, events),
                                      !.silent = @ \ {v}]

-----------------------------------------------------------------------------
(* The registers, written by the machine's observer.  With the power off   *)
(* they keep what they hold, and the write is announced all the same.      *)

Write(v, voice, kind) ==
    /\ soundPast.writes < MaxSoundWrites
    /\ apu' = [apu EXCEPT !.voices[v] = IF apu.power THEN voice ELSE @]
    /\ Announce(apu'.voices, v, kind)
    /\ UNCHANGED <<samples, packet, held, apuState>>

\* NR11, NR21, NR31, NR41.
WriteLength(v, length) == Write(v, [apu.voices[v] EXCEPT !.length = length], "TimbreChange")

\* NR12, NR22, NR42.
WriteEnvelope(v, initial, up, period) ==
    LET dac == initial > 0 \/ up IN
    /\ HasEnvelope(v)
    /\ Write(v, [apu.voices[v] EXCEPT !.dac = dac, !.on = @ /\ dac, !.up = up, !.period = period,
                                      !.initial = initial, !.volume = initial, !.timer = period],
             "LevelChange")

\* NR30.
WriteWaveDac(v, dac) ==
    v = "wave" /\ Write(v, [apu.voices[v] EXCEPT !.dac = dac, !.on = @ /\ dac], "TimbreChange")

\* NR13, NR23, NR33.
WriteFrequency(v, frequency) ==
    v # "noise" /\ Write(v, [apu.voices[v] EXCEPT !.frequency = frequency], "PitchChange")

\* Mutant: a length that has run out stays at 0.
Triggered_KeepsLength(voice) ==
    [voice EXCEPT !.on = voice.dac, !.volume = voice.initial, !.timer = voice.period]

Triggered(voice) ==
    [voice EXCEPT !.length = IF @ = 0 THEN FullLength ELSE @, !.on = voice.dac,
                  !.volume = voice.initial, !.timer = voice.period]

SweepArmed(s, frequency) ==
    [s EXCEPT !.on = s.period # 0 \/ s.shift # 0, !.timer = s.period, !.shadow = frequency]

\* NR14, NR24, NR34, NR44; the first also arms the sweep, trigger or not.
WriteControl(v, lengthOn, trigger) ==
    LET voice == [apu.voices[v] EXCEPT !.lengthOn = lengthOn]
        next == IF trigger THEN Triggered(voice) ELSE voice
        kind == IF trigger THEN "Retrigger" ELSE IF v = "noise" THEN "TimbreChange" ELSE "PitchChange"
    IN  /\ soundPast.writes < MaxSoundWrites
        /\ apu' = IF ~apu.power THEN apu
                  ELSE [apu EXCEPT !.voices[v] = next,
                                   !.sweep = IF v = "pulse1" THEN SweepArmed(@, voice.frequency) ELSE @]
        /\ Announce(apu'.voices, v, kind)
        /\ UNCHANGED <<samples, packet, held, apuState>>

\* NR10.
WriteSweep(period, shift, negate) ==
    /\ "pulse1" \in SoundVoices /\ soundPast.writes < MaxSoundWrites
    /\ apu' = IF ~apu.power THEN apu
              ELSE [apu EXCEPT !.sweep = [@ EXCEPT !.period = period, !.shift = shift, !.negate = negate,
                                                   !.on = period # 0 \/ shift # 0]]
    /\ Announce(apu'.voices, "pulse1", "TimbreChange")
    /\ UNCHANGED <<samples, packet, held, apuState>>

\* NR50 and NR51: every voice's level, or its routing, is announced, whatever
\* was last observed of its gate.
WriteMixer(kind) ==
    LET events == [i \in 1 .. Len(VoiceOrder) |-> EventOf(apu.voices, VoiceOrder[i], kind)]
                    \o <<EventOf(apu.voices, FirstVoice, "RawWrite")>>
    IN  /\ soundPast.writes < MaxSoundWrites
        /\ chipEvents' = Recorded(chipEvents, events)
        /\ soundPast' = [soundPast EXCEPT !.writes = @ + 1, !.dropped = @ \/ Drops(chipEvents, events),
                                          !.silent = IF kind = "LevelChange" THEN {} ELSE @]
        /\ UNCHANGED <<apu, samples, packet, held, apuState>>

\* NR52: without power every voice is as new; only the first is announced.
WritePower(power) ==
    /\ soundPast.writes < MaxSoundWrites
    /\ apu' = IF power THEN [apu EXCEPT !.power = TRUE]
              ELSE [apu EXCEPT !.power = FALSE, !.voices = NewApu.voices, !.sweep = NoSweep]
    /\ LET events == WriteEvents(apu'.voices, FirstVoice, "TimbreChange") IN
         /\ chipEvents' = Recorded([chipEvents EXCEPT !.observed[FirstVoice] = apu'.voices[FirstVoice].on], events)
         /\ soundPast' = [soundPast EXCEPT
                !.writes = @ + 1, !.dropped = @ \/ Drops(chipEvents, events),
                !.silent = (@ \cup {v \in SoundVoices : apu.voices[v].on /\ ~power}) \ {FirstVoice}]
    /\ UNCHANGED <<samples, packet, held, apuState>>

-----------------------------------------------------------------------------
(* Time: what an instruction retires.                                      *)

\* tickLengthCounters.
LengthTick(voice) ==
    IF voice.lengthOn /\ voice.length > 0
    THEN [voice EXCEPT !.length = @ - 1, !.on = @ /\ voice.length > 1] ELSE voice

\* tickSweep; the timer is a byte.
SweepTick(a) ==
    LET s == a.sweep
        timer == (s.timer - 1) % TimerSize
        delta == s.shadow \div (2 ^ s.shift)
        next == IF s.negate THEN s.shadow - delta ELSE s.shadow + delta
    IN  CASE ~s.on \/ s.period = 0 \/ s.shift = 0 -> a
          [] s.on /\ s.period # 0 /\ s.shift # 0 /\ timer > 0 -> [a EXCEPT !.sweep.timer = timer]
          [] s.on /\ s.period # 0 /\ s.shift # 0 /\ timer = 0 /\ next > MaxFrequency ->
               [a EXCEPT !.sweep.timer = s.period, !.voices["pulse1"].on = FALSE]
          [] OTHER -> [a EXCEPT !.sweep.timer = s.period, !.sweep.shadow = next,
                                !.voices["pulse1"].frequency = next]

\* tickEnvelope.
EnvelopeTick(voice) ==
    CASE voice.period = 0 -> voice
      [] voice.period # 0 /\ (voice.timer - 1) % TimerSize > 0 -> [voice EXCEPT !.timer = (@ - 1) % TimerSize]
      [] OTHER -> [voice EXCEPT !.timer = voice.period,
                                !.volume = IF voice.up THEN IF @ < MaxVolume THEN @ + 1 ELSE @
                                           ELSE IF @ > 0 THEN @ - 1 ELSE @]

\* stepFrameSequencer.
SequencerStep(a) ==
    LET lengths == IF a.step \in {0, 2, 4, 6} THEN [a EXCEPT !.voices = [v \in SoundVoices |-> LengthTick(@[v])]]
                   ELSE a
        swept == IF a.step \in {2, 6} /\ "pulse1" \in SoundVoices THEN SweepTick(lengths) ELSE lengths
        shaped == IF a.step = 7
                  THEN [swept EXCEPT !.voices = [v \in SoundVoices |->
                           IF HasEnvelope(v) THEN EnvelopeTick(@[v]) ELSE @[v]]]
                  ELSE swept
    IN  [shaped EXCEPT !.step = (@ + 1) % 8]

\* takePendingEvents: an event from before the first sample counts from it.
Offset(e, first) == IF e.at > first THEN e.at - first ELSE 0

\* Mutant: the samples are taken before the packet's origin is computed.
PacketOf_TakenFirst(s, events) ==
    [first |-> s.counter, count |-> s.pending,
     offsets |-> [i \in 1 .. Len(events) |-> Offset(events[i], s.counter)]]

\* realtimeAudioPacket.
PacketOf(s, events) ==
    LET first == s.counter - s.pending
    IN  [first |-> first, count |-> s.pending,
         offsets |-> [i \in 1 .. Len(events) |-> Offset(events[i], first)]]

\* step and onInstructionRetired: the sequencer, which announces volumes that
\* move and nothing else; then a sample.  A frame of sound that is complete is
\* handed to the plugins, samples and events.
Retire ==
    LET next == IF apu.power THEN SequencerStep(apu) ELSE apu
        louder == Kept(VoiceOrder, {v \in SoundVoices : next.voices[v].volume # apu.voices[v].volume})
        events == [i \in 1 .. Len(louder) |-> EventOf(next.voices, louder[i], "LevelChange")]
        told == Recorded(chipEvents, events)
        after == [samples EXCEPT !.counter = @ + 1, !.pending = @ + 1]
        whole == Frames(after.counter) # samples.seen
    IN  /\ samples.counter < MaxSamples /\ apu' = next
        /\ samples' = IF whole THEN [after EXCEPT !.seen = Frames(after.counter), !.pending = 0] ELSE after
        /\ packet' = IF whole THEN PacketOf(after, told.queue) ELSE packet
        /\ held' = IF whole THEN HeldAfterAll(held, told.queue) ELSE held
        /\ chipEvents' = IF whole THEN [told EXCEPT !.queue = << >>] ELSE told
        /\ soundPast' = [soundPast EXCEPT
               !.dropped = @ \/ Drops(chipEvents, events),
               !.silent = @ \cup {v \in SoundVoices : apu.voices[v].on /\ ~next.voices[v].on},
               !.next = IF whole THEN after.counter ELSE @]
        /\ UNCHANGED apuState

-----------------------------------------------------------------------------
(* A new ROM, and states.                                                  *)

\* The chip as new, or as saved, tells the plugins about every voice.
Restart(a, s) ==
    /\ apu' = a /\ samples' = s
    /\ chipEvents' = [queue |-> Snapshots(a.voices, s.counter), observed |-> [v \in SoundVoices |-> a.voices[v].on]]
    /\ soundPast' = [soundPast EXCEPT !.writes = @ + 1, !.silent = {}, !.dropped = FALSE,
                                      !.next = s.counter - s.pending]

NewSamples == [counter |-> 0, pending |-> 0, seen |-> 0]

LoadSoundRom ==
    /\ soundPast.writes < MaxSoundWrites
    /\ Restart(NewApu, NewSamples)
    /\ UNCHANGED <<packet, held, apuState>>

SaveApu ==
    /\ soundPast.writes < MaxSoundWrites
    /\ apuState' = [apu |-> apu, samples |-> samples]
    /\ soundPast' = [soundPast EXCEPT !.writes = @ + 1]
    /\ UNCHANGED <<apu, samples, chipEvents, packet, held>>

\* load_state; the stems are silenced and the packet of the last frame is gone.
LoadApu ==
    /\ soundPast.writes < MaxSoundWrites /\ apuState # NoApuState
    /\ Restart(apuState.apu, apuState.samples)
    /\ UNCHANGED <<packet, held, apuState>>

GbSoundInit ==
    /\ apu = NewApu /\ samples = NewSamples
    /\ chipEvents = [queue |-> Snapshots(NewApu.voices, 0), observed |-> [v \in SoundVoices |-> FALSE]]
    /\ packet = NoPacket /\ held = [v \in SoundVoices |-> FALSE] /\ apuState = NoApuState
    /\ \E v \in SoundVoices :
         soundPast = [voice |-> v, writes |-> 0, silent |-> {}, dropped |-> FALSE, next |-> 0]

GbSoundNext ==
    \/ LET v == soundPast.voice IN
         \/ WriteLength(v, 1)
         \/ \E e \in {<<0, FALSE, 0>>, <<1, FALSE, 1>>} : WriteEnvelope(v, e[1], e[2], e[3])
         \/ \E dac \in BOOLEAN : WriteWaveDac(v, dac)
         \/ WriteFrequency(v, MaxFrequency)
         \/ \E c \in {<<FALSE, TRUE>>, <<TRUE, TRUE>>, <<TRUE, FALSE>>} : WriteControl(v, c[1], c[2])
    \/ WriteSweep(1, 1, FALSE)
    \/ \E kind \in {"LevelChange", "RoutingChange"} : WriteMixer(kind)
    \/ \E power \in BOOLEAN : WritePower(power)
    \/ Retire \/ LoadSoundRom \/ SaveApu \/ LoadApu

-----------------------------------------------------------------------------
(* Properties.                                                             *)

\* No voice sounds without its converter, and none has a length that will
\* never run out: one with length 0 would sound for ever.
VoicesRunOut ==
    \A v \in SoundVoices : apu.voices[v].on => apu.voices[v].dac /\ apu.voices[v].length > 0

\* Once the plugins have heard what is on its way, the notes held are the
\* voices that sound, except a voice that its length, its sweep or the power
\* switch silenced: these announce nothing until its registers are written.
NotesFollowVoices ==
    ~soundPast.dropped =>
        \A v \in SoundVoices :
            LET note == HeldAfterAll(held, chipEvents.queue)[v] IN
            /\ apu.voices[v].on => note
            /\ note => apu.voices[v].on \/ v \in soundPast.silent

\* A packet begins where the one before it ended, or at what was restored, is
\* a whole frame, and its events lie in it (or at its end: an envelope that
\* moves with the last sample).
PacketsFollow ==
    [][ packet' # packet =>
          /\ packet'.first = soundPast.next
          /\ packet'.first + packet'.count = samples'.counter /\ packet'.count > 0
          /\ \A i \in DOMAIN packet'.offsets : packet'.offsets[i] \in 0 .. packet'.count ]_gbSoundVars
=============================================================================
