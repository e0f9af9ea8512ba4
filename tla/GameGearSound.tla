--------------------------- MODULE GameGearSound ---------------------------
(***************************************************************************)
(* The sound chip of the Game Gear (GameGearPSG.cpp): three tones and a    *)
(* noise, written through the data port, the stereo port and registers     *)
(* kept for compatibility with the Game Boy's; the chunk of samples and    *)
(* events that the machine hands to the plugins, and the notes that        *)
(* PsgMidiPlugin holds.                                                    *)
(*                                                                         *)
(* Periods, the mixer and the generators are left out: a voice is its      *)
(* attenuation and whether it is enabled.                                  *)
(***************************************************************************)
EXTENDS Integers, PsgEvents

CONSTANTS
    Tones,          \* of 0, 1, 2; the noise is 3
    PsgChunk,       \* kFramesPerChunk
    MaxPsgWrites,   \* bound: writes to the chip, states saved and loaded
    MaxPsgFrames    \* bound: sample frames since the last reset

ASSUME PsgAssumption == Tones \subseteq 0 .. 2 /\ 0 \in Tones /\ PsgChunk \in Nat \ {0}

VARIABLES
    psg,         \* attenuation and enabled per voice, the latch, the compatible power switch
    mixed,       \* samplesGeneratedTotal_, those of the chunk begun, its events,
                 \* and the gates last observed
    chunk,       \* what the plugins last got
    keys,        \* the notes PsgMidiPlugin holds
    psgState,    \* the saved state
    psgPast      \* history: writes, voices changed unannounced, the next chunk's first frame

ggSoundVars == <<psg, mixed, chunk, keys, psgState, psgPast>>

Noise == 3
PsgVoices == Tones \cup {Noise}
PsgOrder == Kept(<<0, 1, 2, 3>>, PsgVoices)

\* The attenuation that silences; the others are one.
Silence == 15
NewPsg == [att |-> [v \in PsgVoices |-> Silence], on |-> [v \in Tones |-> FALSE],
           latch |-> [voice |-> 0, volume |-> FALSE], power |-> TRUE]
NoChunk == [first |-> 0, offsets |-> << >>]
NoPsgState == [psg |-> NewPsg, total |-> -1, begun |-> 0]

Gate(p, v) == p.att[v] < Silence /\ (v \in Tones => p.on[v])

-----------------------------------------------------------------------------
(* Events.                                                                 *)

\* Mutant: the kind of a write is announced even where its gate has moved.
WriteKind_AsWritten(p, v, kind) == kind

\* recordWrite: a gate that has moved unseen is what is announced.
WriteKind(p, v, kind) ==
    IF Gate(p, v) = mixed.observed[v] THEN kind ELSE IF Gate(p, v) THEN "GateOn" ELSE "GateOff"

PsgWriteEvents(p, v, kind) == <<PsgEvent(v, WriteKind(p, v, kind), Gate(p, v), mixed.begun),
                                PsgEvent(v, "RawWrite", Gate(p, v), mixed.begun)>>

\* The two events of each voice in turn.
EventsOf(p, voices, kind) ==
    [i \in 1 .. 2 * Len(voices) |-> PsgWriteEvents(p, voices[(i + 1) \div 2], kind)[1 + ((i + 1) % 2)]]

\* A write that concerns these voices; the chip's state afterwards is p.  An
\* event that starts or ends a note tells the plugins where the voice stands.
ToVoices(p, voices, kind) ==
    LET events == EventsOf(p, voices, kind)
        heard == {voices[i] : i \in 1 .. Len(voices)}
        settled == {events[i].voice : i \in {j \in 1 .. Len(events) : Settles(events[j])}}
    IN  /\ psg' = p
        /\ mixed' = [mixed EXCEPT !.events = @ \o events,
                                  !.observed = [v \in PsgVoices |-> IF v \in heard THEN Gate(p, v) ELSE @[v]]]
        /\ psgPast' = [psgPast EXCEPT !.writes = @ + 1, !.unannounced = @ \ settled]

-----------------------------------------------------------------------------
(* The ports.                                                              *)

MayWrite == psgPast.writes < MaxPsgWrites

\* writeData: a byte that latches a voice and one of its registers.
LatchVolume(v, att) ==
    /\ MayWrite
    /\ ToVoices([psg EXCEPT !.att[v] = att, !.latch = [voice |-> v, volume |-> TRUE],
                             !.on = [t \in Tones |-> IF t = v THEN att < Silence ELSE @[t]]],
                 <<v>>, "LevelChange")
    /\ UNCHANGED <<chunk, keys, psgState>>

LatchTone(v) ==
    /\ MayWrite
    /\ ToVoices([psg EXCEPT !.latch = [voice |-> v, volume |-> FALSE],
                             !.on = [t \in Tones |-> t = v \/ @[t]]],
                 <<v>>, IF v = Noise THEN "TimbreChange" ELSE "PitchChange")
    /\ UNCHANGED <<chunk, keys, psgState>>

\* A byte of data: the high bits of a latched tone; for a volume, or the
\* noise, it is recorded and ignored.
WriteDataByte ==
    LET v == psg.latch.voice IN
    /\ MayWrite
    /\ ToVoices(IF v \in Tones /\ ~psg.latch.volume THEN [psg EXCEPT !.on[v] = TRUE] ELSE psg,
                 <<v>>, IF psg.latch.volume THEN "LevelChange" ELSE IF v = Noise THEN "TimbreChange" ELSE "PitchChange")
    /\ UNCHANGED <<chunk, keys, psgState>>

WriteStereo == MayWrite /\ ToVoices(psg, PsgOrder, "RoutingChange") /\ UNCHANGED <<chunk, keys, psgState>>

\* writeCompatRegister announces nothing: what it changes is heard of with the
\* voice's next write.
Compat(p) ==
    /\ MayWrite /\ psg' = p
    /\ psgPast' = [psgPast EXCEPT !.writes = @ + 1,
                                  !.unannounced = @ \cup {v \in PsgVoices : Gate(p, v) # Gate(psg, v)}]
    /\ UNCHANGED <<mixed, chunk, keys, psgState>>

CompatVolume(att) ==
    Compat([psg EXCEPT !.att[0] = att, !.on[0] = att < Silence /\ psg.power])
CompatTrigger == Compat([psg EXCEPT !.on[0] = @ \/ psg.power])
CompatPowerOn == Compat([psg EXCEPT !.power = TRUE])

\* Without power the tones are off, and the chunk begun is dropped with its
\* events: no voice's last change need have been heard.
CompatPowerOff ==
    /\ MayWrite /\ psg' = [psg EXCEPT !.power = FALSE, !.on = [t \in Tones |-> FALSE]]
    /\ mixed' = [mixed EXCEPT !.begun = 0, !.events = << >>]
    /\ psgPast' = [psgPast EXCEPT !.writes = @ + 1, !.unannounced = PsgVoices, !.next = mixed.total]
    /\ UNCHANGED <<chunk, keys, psgState>>

-----------------------------------------------------------------------------
(* Time, a new ROM, and states.                                            *)

Taken(m) == [m EXCEPT !.begun = 0, !.events = << >>]

\* produceFrame, and onInstructionRetired: a chunk that is complete is handed
\* to the plugins.
ProduceFrame ==
    LET next == [mixed EXCEPT !.total = @ + 1, !.begun = @ + 1]
        whole == next.begun >= PsgChunk
    IN  /\ mixed.total < MaxPsgFrames
        /\ mixed' = IF whole THEN Taken(next) ELSE next
        /\ chunk' = IF whole THEN [first |-> IF next.total >= PsgChunk THEN next.total - PsgChunk ELSE 0,
                                   offsets |-> [i \in DOMAIN next.events |-> next.events[i].at]]
                    ELSE chunk
        /\ keys' = IF whole THEN HeldAfterAll(keys, next.events) ELSE keys
        /\ psgPast' = IF whole THEN [psgPast EXCEPT !.next = next.total] ELSE psgPast
        /\ UNCHANGED <<psg, psgState>>

\* The chip as new, or as saved, tells the plugins about every voice.
Begin(p, total, begun) ==
    /\ psg' = p
    /\ mixed' = [total |-> total, begun |-> begun, observed |-> [v \in PsgVoices |-> Gate(p, v)],
                 events |-> [i \in 1 .. Len(PsgOrder) |->
                                PsgEvent(PsgOrder[i], "StateSnapshot", Gate(p, PsgOrder[i]), begun)]]
    /\ psgPast' = [psgPast EXCEPT !.writes = @ + 1, !.unannounced = {}, !.next = total - begun]
    /\ UNCHANGED <<chunk, keys>>

LoadPsgRom == MayWrite /\ Begin(NewPsg, 0, 0) /\ UNCHANGED psgState

SavePsg ==
    /\ MayWrite /\ psgState' = [psg |-> psg, total |-> mixed.total, begun |-> mixed.begun]
    /\ psgPast' = [psgPast EXCEPT !.writes = @ + 1]
    /\ UNCHANGED <<psg, mixed, chunk, keys>>

LoadPsg ==
    /\ MayWrite /\ psgState # NoPsgState
    /\ Begin(psgState.psg, psgState.total, psgState.begun) /\ UNCHANGED psgState

GgSoundInit ==
    /\ psg = NewPsg /\ chunk = NoChunk /\ keys = [v \in PsgVoices |-> FALSE] /\ psgState = NoPsgState
    /\ mixed = [total |-> 0, begun |-> 0, observed |-> [v \in PsgVoices |-> FALSE],
                events |-> [i \in 1 .. Len(PsgOrder) |-> PsgEvent(PsgOrder[i], "StateSnapshot", FALSE, 0)]]
    /\ psgPast = [writes |-> 0, unannounced |-> {}, next |-> 0]

GgSoundNext ==
    \/ \E v \in PsgVoices : (\E att \in {0, Silence} : LatchVolume(v, att)) \/ LatchTone(v)
    \/ WriteDataByte \/ WriteStereo
    \/ \E att \in {0, Silence} : CompatVolume(att)
    \/ CompatTrigger \/ CompatPowerOn \/ CompatPowerOff
    \/ ProduceFrame \/ LoadPsgRom \/ SavePsg \/ LoadPsg

-----------------------------------------------------------------------------
(* Properties.                                                             *)

\* Once the plugins have heard what is on its way, the notes held are the
\* voices that sound, except a voice that a compatible register changed, or
\* whose events went with the power: its note is right again with its next
\* event that starts or ends one.
KeysFollowVoices ==
    \A v \in PsgVoices \ psgPast.unannounced :
        HeldAfterAll(keys, mixed.events)[v] = Gate(psg, v)

\* A chunk begins where the one before it ended, at what was restored, or
\* where the power failed, and its events lie in it.
ChunksFollow ==
    [][ chunk' # chunk =>
          /\ chunk'.first = psgPast.next
          /\ \A i \in DOMAIN chunk'.offsets : chunk'.offsets[i] \in 0 .. PsgChunk - 1 ]_ggSoundVars
=============================================================================
