------------------------------ MODULE MCSound ------------------------------
(***************************************************************************)
(* The parts of the program that sound goes through, checked together: the *)
(* chips of the two consoles (GameBoySound, GameGearSound), the transport  *)
(* of their samples (AudioTransport) and the export of their notes         *)
(* (MidiExport).  They hand each other packets and share no state, so a    *)
(* behaviour moves one of them.                                            *)
(***************************************************************************)
EXTENDS AudioTransport, MidiExport, SoundChips

VARIABLE focus      \* the part that moves

SoundInit ==
    /\ focus \in {"audio", "midi", "gameboy", "gamegear"}
    /\ Init /\ (focus # "audio" => frame = CHOOSE range \in FrameRanges : TRUE)
    /\ MidiInit /\ (focus # "midi" => async.device)
    /\ GbSoundInit /\ (focus # "gameboy" => soundPast.voice = FirstVoice)
    /\ GgSoundInit

\* Every part but s stays as it is.
OthersSilent(s) ==
    /\ IF s = "audio" THEN TRUE ELSE UNCHANGED vars
    /\ IF s = "midi" THEN TRUE ELSE UNCHANGED midiVars
    /\ IF s = "gameboy" THEN TRUE ELSE UNCHANGED gbSoundVars
    /\ IF s = "gamegear" THEN TRUE ELSE UNCHANGED ggSoundVars

SoundNext ==
    /\ UNCHANGED focus
    /\ \/ focus = "audio" /\ Next /\ OthersSilent("audio")
       \/ focus = "midi" /\ MidiNext /\ OthersSilent("midi")
       \/ focus = "gameboy" /\ GbSoundNext /\ OthersSilent("gameboy")
       \/ focus = "gamegear" /\ GgSoundNext /\ OthersSilent("gamegear")

soundVars == <<focus, vars, midiVars, gbSoundVars, ggSoundVars>>

\* AudioTransport's Fairness and MidiExport's MidiFairness, each in the
\* behaviours that are about its part.
SoundFairness ==
    /\ WF_vars(focus = "audio" /\ WorkerNext)
    /\ WF_vars(focus = "audio" /\ DeviceNext)
    /\ WF_vars(focus = "audio" /\ ControlStep)
    /\ WF_vars(focus = "audio" /\ SubmitSourceBlock)
    /\ SF_vars(focus = "audio" /\ BumpEpoch)
    /\ WF_midiVars(focus = "midi" /\ LaneStep)
    /\ WF_midiVars(focus = "midi" /\ MidiWorkerStep)

SoundSpec == SoundInit /\ [][SoundNext]_soundVars /\ SoundFairness

-----------------------------------------------------------------------------
(* A property of two parts.                                                *)

\* Whoever waits for the device's drain or for the sink's thread gets on
\* (AudioService.hpp clearReadyQueue, PsgMidiPlugin.cpp flush).
WaitersReturn == ControlReturns /\ FlushReturns
=============================================================================
